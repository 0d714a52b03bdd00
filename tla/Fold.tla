-------------------------------- MODULE Fold --------------------------------
(***************************************************************************)
(* parse.Fold: the rewrites of a parsed tree into canonical form.  Every   *)
(* level goes through three passes, each over the lines the level has when *)
(* the pass starts: alternate spellings become sections (RespellAs),       *)
(* continuations are added to the list they continue (ListContinues) and   *)
(* membership lines become one line per item (Members).                    *)
(*                                                                         *)
(* A line is its definition and its captures, and the capture of a list is *)
(* a value of ListVal.  Lines without a definition, which every pass steps *)
(* over, are left out.                                                     *)
(***************************************************************************)
EXTENDS ListVal

CONSTANTS
    Roots, Children,      \* candidates of the top level and below a definition, in order
    Captures,             \* per definition, the names of its captures
    ListArg,              \* per list definition, its list capture
    KeyArgs, Kind,        \* per definition
    Base, MembersKind,    \* per continuation and per membership definition
    Respell,              \* per alternate spelling, the header and the children it becomes
    Reads,                \* the lines that another definition matches first, or
                          \* none does, and what they are read as
    Sources,              \* the parsed trees: lines with their depth
    NoTree                \* the tree has not been folded yet

Defs == DOMAIN Captures
Root == 0
NoDef == 0

\* What the builders refuse in every order of their calls, and, beyond it, no
\* chain of continuations (ListContinues refuses it in one order only, see
\* NoChains of Builder) and no keyed alternate spelling.
ASSUME FoldAssumption ==
    /\ \A d \in Defs : ToSet(KeyArgs[d]) \subseteq Captures[d]
    /\ \A l \in DOMAIN Reads : Reads[l].def \in (Defs \ {l.def}) \cup {NoDef}
    /\ \A d \in DOMAIN ListArg : ListArg[d] \in Captures[d] /\ Children[d] = <<>>
    /\ DOMAIN Base \cup DOMAIN MembersKind \subseteq DOMAIN ListArg
    /\ \A d \in DOMAIN ListArg : {"all", "except"} \cap Words[d] # {} => Expands(Domain[d])
    /\ \A d \in DOMAIN Base :
        /\ Base[d] \in DOMAIN ListArg \ DOMAIN Respell
        /\ KeyArgs[d] = <<>> /\ KeyArgs[Base[d]] = <<>>
        /\ Base[d] # d => Base[d] \notin DOMAIN Base
    /\ DOMAIN MembersKind \cap (DOMAIN Base \cup DOMAIN Respell) = {}
    /\ DOMAIN Respell \cap DOMAIN Base = {}
    /\ \A d \in DOMAIN Respell \cup DOMAIN MembersKind : KeyArgs[d] = <<>>
    /\ \A d \in DOMAIN Respell : Children[d] = <<>> /\ IsInjective(Respell[d].children)

VARIABLES
    source,       \* the lines of the parsed tree
    cfg,          \* per node its definition, captures and source line
    kids,         \* per node its children, in order
    levels,       \* the parents of the levels still to be folded
    pass,         \* the pass over the first of them
    todo,         \* the lines the pass has yet to look at
    seen,         \* the first node of every identity on the level
    reported,     \* the nodes a diagnostic is about
    first         \* the tree after one Fold, once it is folded again

vars == <<source, cfg, kids, levels, pass, todo, seen, reported, first>>

-----------------------------------------------------------------------------
(* Lines.                                                                  *)

ListOf(line) == line.args[ListArg[line.def]]
Items(line) == ToSet(Resolve(line.def, ListOf(line)))
Malformed(line) == ~Resolves(ListOf(line))

Text(n) == [def |-> cfg[n].def, args |-> cfg[n].args]

\* What a template renders from some fields.
Line(d, f) == [def |-> d, args |-> [a \in Captures[d] |-> f[a]]]

\* schema.MatchChild: the line that the first matching definition makes of a
\* rendered one.
Matched(line) == IF line \in DOMAIN Reads THEN Reads[line] ELSE line

\* schema.BindsDef: the rendered line is matched against all candidates.
Binds(d, f) == Captures[d] \subseteq DOMAIN f /\ Matched(Line(d, f)) = Line(d, f)

With(f, a, v) == [b \in DOMAIN f \cup {a} |-> IF b = a THEN v ELSE f[b]]

\* The captures besides the list.
Rest(line) == [a \in DOMAIN line.args \ {ListArg[line.def]} |-> line.args[a]]

\* ident.Of for keyed definitions: the kind, or the definition without one, and
\* the values of the key in order.
Identity(line) ==
    <<Kind[line.def], IF Kind[line.def] = "" THEN line.def ELSE NoDef,
      [k \in DOMAIN KeyArgs[line.def] |-> line.args[KeyArgs[line.def][k]]]>>

-----------------------------------------------------------------------------
(* Edits of the tree.                                                      *)

Level == Head(levels)
Current == Head(todo)
Candidates(p) == IF p = Root THEN Roots ELSE Children[cfg[p].def]

NewIds(lines) == [i \in DOMAIN lines |-> Cardinality(DOMAIN cfg) + i]

\* New nodes for some lines, read where m was.
Added(lines, m) ==
    [n \in DOMAIN cfg \cup ToSet(NewIds(lines)) |->
        IF n \in DOMAIN cfg THEN cfg[n]
        ELSE LET l == lines[n - Cardinality(DOMAIN cfg)]
             IN  [def |-> l.def, args |-> l.args, line |-> cfg[m].line]]

\* Node.ReplaceChild on the level, and children for the new nodes.
Replaced(m, ids, new) ==
    [n \in DOMAIN kids \cup new |->
        IF n = Level THEN FlattenSeq([i \in DOMAIN kids[n] |->
            IF kids[n][i] = m THEN ids ELSE <<kids[n][i]>>])
        ELSE IF n \in DOMAIN kids THEN kids[n] ELSE <<>>]

\* The diagnostic names the line, which stays as it was.
Report(m) == reported' = reported \cup {m} /\ UNCHANGED <<cfg, kids, seen>>

\* A malformed list is left to ImportCheck.
Leave == UNCHANGED <<cfg, kids, seen, reported>>

-----------------------------------------------------------------------------
(* foldRespell                                                             *)

HeaderLine(line) == Matched(Line(Respell[line.def].header, line.args))
ChildLines(line) ==
    LET ds == Respell[line.def].children
    IN  [i \in DOMAIN ds |-> Matched(Line(ds[i], line.args))]

\* The header and every child bind, to whatever definition, and the header is no
\* alternate spelling.
Respellable(line, candidates) ==
    /\ HeaderLine(line).def \in ToSet(candidates) \ DOMAIN Respell
    /\ \A i \in DOMAIN ChildLines(line) :
        ChildLines(line)[i].def \in ToSet(Children[HeaderLine(line).def])

CanRespell(m) == Respellable(Text(m), Candidates(Level))

Hosts(m) == SelectSeq(kids[Level], LAMBDA n : n # m /\ Text(n) = HeaderLine(Text(m)))

\* Equal child lines are there once.
NewChildren(m, n) ==
    LET there == {Text(c) : c \in ToSet(kids[n])}
    IN  SelectSeq(ChildLines(Text(m)), LAMBDA l : l \notin there)

\* Before the first child from a later line.
Inserted(ids, m, n) ==
    LET at == SelectInSeq(kids[n], LAMBDA c : cfg[c].line > cfg[m].line)
        before == IF at = 0 THEN kids[n] ELSE SubSeq(kids[n], 1, at - 1)
    IN  before \o ids \o SubSeq(kids[n], Len(before) + 1, Len(kids[n]))

RespellRefused(m) == ~CanRespell(m) /\ Report(m)

RespellNewHost(m) ==
    /\ CanRespell(m) /\ Hosts(m) = <<>>
    /\ LET lines == <<HeaderLine(Text(m))>> \o ChildLines(Text(m))
           ids == NewIds(lines)
       IN  /\ cfg' = Added(lines, m)
           /\ kids' = [Replaced(m, <<ids[1]>>, ToSet(ids)) EXCEPT ![ids[1]] = Tail(ids)]
    /\ UNCHANGED <<seen, reported>>

RespellIntoHost(m) ==
    /\ CanRespell(m) /\ Hosts(m) # <<>>
    /\ LET host == Hosts(m)[1]
           lines == NewChildren(m, host)
           ids == NewIds(lines)
       IN  /\ cfg' = Added(lines, m)
           /\ kids' = [Replaced(m, <<>>, ToSet(ids)) EXCEPT ![host] = Inserted(ids, m, host)]
    /\ UNCHANGED <<seen, reported>>

-----------------------------------------------------------------------------
(* foldContinuation                                                        *)

BaseOf(m) == Base[cfg[m].def]
ContinuesItself(m) == BaseOf(m) = cfg[m].def

\* continuationFieldsMatch
FieldsMatch(line, slot) ==
    \A a \in DOMAIN Rest(line) \cap DOMAIN slot.args : slot.args[a] = line.args[a]

Slots(m) ==
    SelectSeq(kids[Level], LAMBDA n :
        cfg[n].def = BaseOf(m) /\ FieldsMatch(Text(m), Text(n)))

\* The base with some items spells them, and its template binds them.
BaseFields(m, f, items) == With(f, ListArg[BaseOf(m)], Canonical(BaseOf(m), items))
BaseBinds(m, f, items) ==
    Spellable(BaseOf(m), items) /\ Binds(BaseOf(m), BaseFields(m, f, items))

\* The only slot, or the first one of a list that continues itself.
HasSlot(m) == Len(Slots(m)) = 1 \/ (Slots(m) # <<>> /\ ContinuesItself(m))

ContinuationMalformed(m) == Malformed(Text(m)) /\ Leave

AmbiguousSlot(m) ==
    /\ ~Malformed(Text(m)) /\ Slots(m) # <<>> /\ ~HasSlot(m)
    /\ Report(m)

KeepSlot(m) == ~Malformed(Text(m)) /\ HasSlot(m) /\ Slots(m)[1] = m /\ Leave

\* synthesizeBase
SynthesizeBase(m) ==
    /\ ~Malformed(Text(m)) /\ Slots(m) = <<>>
    /\ LET f == Rest(Text(m))
           items == Items(Text(m))
           lines == <<Line(BaseOf(m), BaseFields(m, f, items))>>
       IN  \/ ~BaseBinds(m, f, items) /\ Report(m)
           \/ /\ BaseBinds(m, f, items)
              /\ cfg' = Added(lines, m)
              /\ kids' = Replaced(m, NewIds(lines), ToSet(NewIds(lines)))
              /\ UNCHANGED <<seen, reported>>

\* The slot, which combines several lines now, has no line of its own.
UnionIntoSlot(m) ==
    /\ ~Malformed(Text(m)) /\ HasSlot(m) /\ Slots(m)[1] # m
    /\ LET slot == Slots(m)[1]
           f == cfg[slot].args
           items == Items(Text(slot)) \cup Items(Text(m))
       IN  \/ Malformed(Text(slot)) /\ Report(m)
           \/ ~Malformed(Text(slot)) /\ ~BaseBinds(m, f, items) /\ Report(m)
           \/ /\ ~Malformed(Text(slot)) /\ BaseBinds(m, f, items)
              /\ cfg' = [cfg EXCEPT ![slot] =
                    [def |-> BaseOf(m), args |-> BaseFields(m, f, items), line |-> 0]]
              /\ kids' = Replaced(m, <<>>, {})
              /\ UNCHANGED <<seen, reported>>

-----------------------------------------------------------------------------
(* foldOne                                                                 *)

\* The key captures of a candidate that the line does not give.
Missing(line, c) == ToSet(KeyArgs[c]) \ DOMAIN Rest(line)

\* resolveCanonical: the definitions that the line can become.
Canonicals(line, candidates) ==
    SelectSeq(candidates, LAMBDA c :
        /\ c # line.def /\ Kind[c] = MembersKind[line.def]
        /\ Cardinality(Missing(line, c)) = 1)

\* What an item becomes.
InstanceFields(line, c, it) == With(Rest(line), CHOOSE k \in Missing(line, c) : TRUE, it)
Instance(line, c, it) == Line(c, InstanceFields(line, c, it))

\* fieldsSubset: the earlier line says all that the new one would say.
Agrees(line, other) ==
    \A a \in DOMAIN line.args : a \in DOMAIN other.args /\ other.args[a] = line.args[a]

\* Seeded fault: a line of the same identity is enough.
PresentById(line) == Identity(line) \in DOMAIN seen

Present(line) ==
    Identity(line) \in DOMAIN seen /\ Agrees(line, Text(seen[Identity(line)]))

\* The first line of every identity counts.
SeenWith(lines) ==
    LET Id(i) == Identity(lines[i])
        new == {i \in DOMAIN lines : Id(i) \notin DOMAIN seen}
    IN  [id \in DOMAIN seen \cup {Id(i) : i \in new} |->
            IF id \in DOMAIN seen THEN seen[id]
            ELSE NewIds(lines)[CHOOSE i \in new : Id(i) = id]]

\* Every item becomes a line or none does.
AllBind(m, c) == \A it \in Items(Text(m)) : Binds(c, InstanceFields(Text(m), c, it))

CanonicalsOf(m) == Canonicals(Text(m), Candidates(Level))

NoCanonical(m) == CanonicalsOf(m) = <<>> /\ Report(m)

MembersMalformed(m) == CanonicalsOf(m) # <<>> /\ Malformed(Text(m)) /\ Leave

MembersRefused(m) ==
    /\ CanonicalsOf(m) # <<>> /\ ~Malformed(Text(m))
    /\ ~AllBind(m, CanonicalsOf(m)[1])
    /\ Report(m)

ExpandMembers(m) ==
    /\ CanonicalsOf(m) # <<>> /\ ~Malformed(Text(m))
    /\ AllBind(m, CanonicalsOf(m)[1])
    /\ LET items == Resolve(cfg[m].def, ListOf(Text(m)))
           instances == [i \in DOMAIN items |-> Instance(Text(m), CanonicalsOf(m)[1], items[i])]
           lines == SelectSeq(instances, LAMBDA l : ~Present(l))
       IN  /\ cfg' = Added(lines, m)
           /\ kids' = Replaced(m, NewIds(lines), ToSet(NewIds(lines)))
           /\ seen' = SeenWith(lines)
    /\ UNCHANGED reported

-----------------------------------------------------------------------------
(* foldLevel                                                               *)

\* Seeded fault: continuations are folded after membership lines.
PassesMembersFirst == <<DOMAIN Respell, DOMAIN MembersKind, DOMAIN Base>>

\* The definitions whose lines a pass looks at.
Passes == <<DOMAIN Respell, DOMAIN Base, DOMAIN MembersKind>>

Due(k, p) == SelectSeq(kids[p], LAMBDA n : cfg[n].def \in Passes[k])

\* The identities of the level, without those of membership lines.
FirstSeen ==
    LET keyed == SelectSeq(kids[Level], LAMBDA n :
                    KeyArgs[cfg[n].def] # <<>> /\ cfg[n].def \notin DOMAIN MembersKind)
        ids == {Identity(Text(n)) : n \in ToSet(keyed)}
    IN  [id \in ids |->
            keyed[SelectInSeq(keyed, LAMBDA n : Identity(Text(n)) = id)]]

\* The nearest earlier line that is indented less.
SourceParent(n) ==
    LET outer == {j \in 1..(n - 1) : source[j].depth < source[n].depth}
    IN  IF outer = {} THEN Root ELSE CHOOSE j \in outer : \A k \in outer : k <= j

Init ==
    /\ source \in Sources
    /\ cfg = [n \in DOMAIN source |->
                [def |-> source[n].def, args |-> source[n].args, line |-> n]]
    /\ kids = [p \in {Root} \cup DOMAIN source |->
                SetToSortSeq({n \in DOMAIN source : SourceParent(n) = p}, <)]
    /\ levels = <<Root>> /\ pass = 1 /\ todo = Due(1, Root)
    /\ seen = [id \in {} |-> Root] /\ reported = {} /\ first = NoTree

FoldRespell(m) == RespellRefused(m) \/ RespellNewHost(m) \/ RespellIntoHost(m)

FoldContinuation(m) ==
    \/ ContinuationMalformed(m) \/ AmbiguousSlot(m) \/ KeepSlot(m)
    \/ SynthesizeBase(m) \/ UnionIntoSlot(m)

FoldOne(m) == NoCanonical(m) \/ MembersMalformed(m) \/ MembersRefused(m) \/ ExpandMembers(m)

FoldLine ==
    /\ todo # <<>>
    /\ \/ cfg[Current].def \in DOMAIN Respell /\ FoldRespell(Current)
       \/ cfg[Current].def \in DOMAIN Base /\ FoldContinuation(Current)
       \/ cfg[Current].def \in DOMAIN MembersKind /\ FoldOne(Current)
    /\ todo' = Tail(todo)
    /\ UNCHANGED <<source, levels, pass, first>>

\* The lines of a pass are collected after the pass before it.
NextPass ==
    /\ levels # <<>> /\ todo = <<>> /\ pass < Len(Passes)
    /\ pass' = pass + 1
    /\ todo' = Due(pass + 1, Level)
    /\ seen' = FirstSeen
    /\ UNCHANGED <<source, cfg, kids, levels, reported, first>>

\* The sections of a level that is done are folded next.
Descend ==
    /\ levels # <<>> /\ todo = <<>> /\ pass = Len(Passes)
    /\ LET sections == SelectSeq(kids[Level], LAMBDA n : Children[cfg[n].def] # <<>>)
       IN  levels' = sections \o Tail(levels)
    /\ pass' = 1
    /\ todo' = IF levels' = <<>> THEN <<>> ELSE Due(1, Head(levels'))
    /\ UNCHANGED <<source, cfg, kids, seen, reported, first>>

\* The folded tree is written and imported again.
Refold ==
    /\ levels = <<>> /\ first = NoTree
    /\ first' = [cfg |-> cfg, kids |-> kids, reported |-> reported]
    /\ levels' = <<Root>> /\ pass' = 1 /\ todo' = Due(1, Root)
    /\ reported' = {}
    /\ UNCHANGED <<source, cfg, kids, seen>>

Next == FoldLine \/ NextPass \/ Descend \/ Refold

Spec == Init /\ [][Next]_vars

-----------------------------------------------------------------------------
(* What a line says of its level.                                          *)

In(p) == ToSet(kids[p])
Nodes == {Root} \cup UNION {In(p) : p \in DOMAIN kids}

\* The definition that a line counts for once continuations are folded, and
\* whether it says the item of that list.
SlotDef(line) == IF line.def \in DOMAIN Base THEN Base[line.def] ELSE line.def
IsList(line) == line.def \in DOMAIN ListArg
IsMembers(line) == IsList(line) /\ SlotDef(line) \in DOMAIN MembersKind
AsMembers(line) == [def |-> SlotDef(line), args |-> With(Rest(line), ListArg[SlotDef(line)], ListOf(line))]

\* A node is the list that the line counts for: they agree besides the items.
ListFor(line, n) ==
    /\ IsList(line) /\ cfg[n].def = SlotDef(line)
    /\ \A a \in DOMAIN line.args \cap DOMAIN cfg[n].args :
        a \in {ListArg[line.def], ListArg[cfg[n].def]} \/ line.args[a] = cfg[n].args[a]

Listed(p, line) ==
    \E n \in In(p) :
        /\ ListFor(line, n) /\ ~Malformed(line) /\ ~Malformed(Text(n))
        /\ \A it \in Items(line) : \E is \in Items(Text(n)) : Same(it, is)

Expanded(p, line) ==
    /\ IsMembers(line) /\ ~Malformed(line)
    /\ LET canon == Canonicals(AsMembers(line), Candidates(p))
       IN  /\ canon # <<>>
           /\ \A it \in Items(line) :
                \E n \in In(p) : LET l == Instance(AsMembers(line), canon[1], it)
                                 IN  Identity(l) = Identity(Text(n)) /\ Agrees(l, Text(n))

Said(p, line) ==
    (\E n \in In(p) : Text(n) = line) \/ Listed(p, line) \/ Expanded(p, line)

Respelled(p, line) ==
    /\ line.def \in DOMAIN Respell /\ Respellable(line, Candidates(p))
    /\ Said(p, HeaderLine(line))
    /\ \A i \in DOMAIN ChildLines(line) :
        \E n \in In(p) : Text(n) = HeaderLine(line) /\ Said(n, ChildLines(line)[i])

SourceLine(n) == [def |-> source[n].def, args |-> source[n].args]

\* A line that no pass has to rewrite.
Settled(n) ==
    \/ cfg[n].def \notin DOMAIN Respell \cup DOMAIN Base \cup DOMAIN MembersKind
    \/ cfg[n].def \in DOMAIN Base /\ ContinuesItself(n)

\* What the source says of a level, alternate spellings included.
SourceLines(p) ==
    LET own == {SourceLine(n) : n \in {m \in DOMAIN source : SourceParent(m) = p}}
        spelled == {SourceLine(n) : n \in {m \in DOMAIN source :
                        /\ source[m].def \in DOMAIN Respell /\ SourceParent(m) = Root
                        /\ Respellable(SourceLine(m), Roots)}}
    IN  own \cup (IF p = Root THEN {HeaderLine(l) : l \in spelled}
                  ELSE UNION {ToSet(ChildLines(l)) : l \in {k \in spelled :
                                                        HeaderLine(k) = Text(p)}})

\* A line of the folded tree that the source says, in whatever spelling.
Meant(p, n) ==
    \/ Text(n) \in SourceLines(p)
    \/ /\ cfg[n].def \in DOMAIN ListArg /\ ~Malformed(Text(n))
       /\ \A it \in Items(Text(n)) : \E l \in SourceLines(p) :
            ListFor(l, n) /\ ~Malformed(l) /\ it \in Items(l)
    \/ \E l \in {k \in SourceLines(p) : IsMembers(k) /\ ~Malformed(k)} :
        LET canon == Canonicals(AsMembers(l), Candidates(p))
        IN  canon # <<>> /\ \E it \in Items(l) : Text(n) = Instance(AsMembers(l), canon[1], it)

Folded == levels = <<>> /\ first = NoTree

\* Import goes on with the tree: no Error, and no list ImportCheck reports.
Imported(tree) ==
    /\ tree.reported = {}
    /\ \A n \in DOMAIN tree.cfg :
        IsList(Text(n)) => ~Malformed(Text(n))

-----------------------------------------------------------------------------
(* Properties.                                                             *)

\* A fold is atomic for each line: it is still there, and if it has to be
\* rewritten then with a diagnostic or with a list that ImportCheck reports,
\* or everything it says is there.
FoldLosesNothing ==
    Folded => \A n \in DOMAIN source :
        LET p == SourceParent(n)
            line == SourceLine(n)
        IN  \/ /\ n \in In(p)
               /\ Text(n) = line \/ Listed(p, line)
               /\ Settled(n) \/ n \in reported \/ Malformed(line)
            \/ n \notin In(p) /\ (Respelled(p, line) \/ Listed(p, line) \/ Expanded(p, line))

\* Nothing is in the tree that the source does not say of the same section, and
\* no line twice unless the source contradicts itself.
OnlyWhatWasSaid ==
    Folded => \A p \in Nodes : \A n \in In(p) \ DOMAIN source :
        /\ Meant(p, n)
        /\ KeyArgs[cfg[n].def] # <<>> => \A m \in In(p) \ {n} :
            Identity(Text(m)) = Identity(Text(n)) /\ Agrees(Text(n), Text(m)) =>
                \E o \in In(p) :
                    Identity(Text(o)) = Identity(Text(n)) /\ ~Agrees(Text(n), Text(o))

\* Import after Render is a fixed point after one pass: a tree that has been
\* folded without a word is folded already.
FixedPoint ==
    levels = <<>> /\ first # NoTree /\ Imported(first) =>
        kids = first.kids /\ cfg = first.cfg /\ reported = {}
=============================================================================
