----------------------------- MODULE Remediate -----------------------------
(***************************************************************************)
(* remediate.Diff: from a running and an intended configuration to an      *)
(* ordered list of operations.  collect pairs the two trees level by level *)
(* and appends one pending operation per difference; five derivations      *)
(* relate the operations by ordering edges; Schedule orders them;          *)
(* materialize opens and reopens the sections they are emitted in.         *)
(*                                                                         *)
(* The recursion of collect is the worklist todo, kept in the order in     *)
(* which the calls append operations.  Warnings are not modelled; an Error *)
(* is recorded by its kind.                                                *)
(***************************************************************************)
EXTENDS Validate

CONSTANT
    Inputs   \* the [running, intended, baseline, cycle] the pipeline is run on

ASSUME InputsAssumption ==
    \A i \in Inputs :
        /\ \A c \in {i.running, i.intended, i.baseline} : Configuration(c)
        /\ SameCaptures(<<i.running, i.intended>>)
        /\ i.cycle \in {"Abort", "Break"}

VARIABLES
    running, intended, baseline,   \* the inputs of Diff, never assigned
    cycle,                         \* the cycle policy, Options.Cycle
    todo,                          \* the calls and intents left to process
    errors,                        \* the kinds of Error reported
    artifact,                      \* the materialized operations
    pc, ops, derived, edges, indeg, out, walk   \* see Schedule

inputVars == <<running, intended, baseline, cycle>>
schedVars == <<derived, edges, indeg, out, walk>>
vars == <<inputVars, todo, errors, artifact, pc, ops, schedVars>>

Sched == INSTANCE Schedule WITH Layouts <- {}, Policies <- {}

-----------------------------------------------------------------------------
(* Nodes of either tree, by handle.                                        *)

Nil == <<"nil", <<>>>>

Conf(side) == IF side = "run" THEN running ELSE intended

Line(h) == Conf(h[1])[h[2]]

Sub(h) ==
    IF h = Nil THEN {} ELSE {<<h[1], q>> : q \in Tree(Conf(h[1]), h[2])}

KidsOf(h) ==
    LET ks == Kids(Conf(h[1]), h[2]) IN [k \in DOMAIN ks |-> <<h[1], ks[k]>>]

DefOf(h) == Line(h).def

Id(h) == Ident(Line(h))

\* groupByIdent
SameId(hs, id) == Only(hs, {h \in ToSet(hs) : Id(h) = id})

\* indexByIdent
FirstOf(hs, id) ==
    LET at == {k \in DOMAIN hs : Id(hs[k]) = id}
    IN  hs[CHOOSE k \in at : \A j \in at : k <= j]

IsFirst(h, hs) == FirstOf(hs, Id(h)) = h

\* Seeded fault: only the node itself is looked at.
ProtectedInSelf(h) == Schema[DefOf(h)].protected

\* protectedIn finds a node.
ProtectedIn(h) == \E n \in Sub(h) : Schema[DefOf(n)].protected

ProtectedBelow(h) == \E n \in Sub(h) \ {h} : Schema[DefOf(n)].protected

-----------------------------------------------------------------------------
(* One level of collect: what pairs with what.                             *)

\* The running line that h is compared with.  Among several spellings of a
\* Kind slot it is the first stale one, and the others are to be cleaned up.
Counterpart(group, h) ==
    LET stale == Only(group, {n \in ToSet(group) : ~SameValue(Line(n), Line(h))})
    IN  IF Len(group) > 1 /\ CategoryOf(DefOf(h)) = "KindedSingle" /\ stale # <<>>
        THEN [src |-> h, run |-> stale[1], cleanup |-> TRUE]
        ELSE [src |-> h, run |-> group[1], cleanup |-> FALSE]

\* Seeded fault: a changed list is compared by its spelling.
ListChangeBySpelling(h, r) ==
    LET a == Schema[DefOf(h)].list
    IN  IF a # "" /\ Schema[DefOf(h)].delta /\ DefOf(h) = DefOf(r)
        THEN "delta" ELSE "modify"

\* listOrModify, for a changed idempotent line.
ListChange(h, r) ==
    LET l == Line(h) m == Line(r) a == Schema[l.def].list
    IN  CASE \/ a = "" \/ l.def # m.def \/ l.block # m.block
             \/ a # "" /\ l.def = m.def /\
                ( \/ Malformed(l.f[a]) \/ Malformed(m.f[a])
                  \/ \E x \in DOMAIN l.f \ {a} : l.f[x] # m.f[x]) -> "modify"
          [] OTHER ->
             IF ToSet(l.f[a]) = ToSet(m.f[a]) THEN "none"
             ELSE IF Schema[l.def].delta THEN "delta" ELSE "modify"

\* How an intended line that has a running counterpart is realised.
PairKind(h, r) ==
    LET l == Line(h) m == Line(r)
    IN  CASE l.def # m.def /\ (IsSection(l.def) \/ IsSection(m.def)) -> "replace"
          [] l.def = m.def /\ IsSection(l.def) ->
                IF /\ Text(l) # Text(m) /\ ~Schema[l.def].idem
                   /\ CategoryOf(l.def) = "KindedSingle"
                THEN "replace" ELSE "section"
          [] ~IsSection(l.def) /\ ~IsSection(m.def) ->
                IF SameValue(l, m) THEN "none"
                ELSE IF Schema[l.def].idem THEN ListChange(h, r) ELSE "replace"

\* A level t is the children of two nodes that pair, and what is known of
\* them so far: t.pairs, then t.intents and t.removes.
Running(t) == KidsOf(t.run)
Intended(t) == KidsOf(t.src)

Kept(t) == Only(Intended(t), {h \in ToSet(Intended(t)) : IsFirst(h, Intended(t))})

PairOf(t) ==
    [h \in ToSet(Intended(t)) |->
        LET group == SameId(Running(t), Id(h))
        IN  IF group = <<>> THEN [src |-> h, run |-> Nil, cleanup |-> FALSE]
            ELSE Counterpart(group, h)]

Pairings(t, kept) == [k \in DOMAIN kept |-> PairOf(t)[kept[k]]]

IntentOf(p) ==
    [src |-> p.src, run |-> p.run,
     kind |-> IF p.run = Nil THEN "add" ELSE PairKind(p.src, p.run)]

Intents(t) ==
    LET all == [k \in DOMAIN t.pairs |-> IntentOf(t.pairs[k])]
    IN  Only(all, {i \in ToSet(all) : i.kind # "none"})

\* The running lines of the level that nothing intended keeps.
Removes(t) ==
    LET Own(r) == {p \in ToSet(t.pairs) : Id(p.src) = Id(r)}
        Gone(r) ==
            \/ \E p \in Own(r) :
                p.run # r /\ p.cleanup /\ ~SameValue(Line(r), Line(p.src))
            \/ /\ \A p \in Own(r) : p.run # r /\ ~p.cleanup
               /\ IF IsFirst(r, Running(t)) THEN Own(r) = {}
                  ELSE /\ CategoryOf(DefOf(r)) = "KindedSingle"
                       /\ Text(Line(r)) # Text(Line(FirstOf(Running(t), Id(r))))
    IN  Only(Running(t), {r \in ToSet(Running(t)) : Gone(r)})

AddedDefs(t) == {DefOf(i.src) : i \in {j \in ToSet(t.intents) : j.kind = "add"}}

\* dropToggles: the added definition that supersedes a removal, or 0.
FlippedBy(t, r) ==
    LET by == Only(Schema[DefOf(r)].toggles, AddedDefs(t) \ {DefOf(r)})
    IN  IF by = <<>> \/ ProtectedBelow(r) THEN 0 ELSE by[1]

Negations(t) == Only(t.removes, {r \in ToSet(t.removes) : FlippedBy(t, r) = 0})

\* The first running toggle member that an added definition supersedes.
Flip(t, d) ==
    LET rs == Only(t.removes, {r \in ToSet(t.removes) : FlippedBy(t, r) = d})
    IN  IF rs = <<>> THEN Nil ELSE rs[1]

\* checkSplitSingles: an add and a removal in one unkeyed slot.
SplitSlot(t) ==
    \E i \in ToSet(t.intents) : \E r \in ToSet(Negations(t)) :
        LET d == DefOf(i.src) e == DefOf(r)
        IN  /\ i.kind = "add" /\ SlotDef(d) /\ SlotDef(e)
            /\ e \notin ToSet(Schema[d].toggles)
            /\ d = e \/ (Schema[d].kind # "" /\ Schema[e].kind = Schema[d].kind)

-----------------------------------------------------------------------------
(* The worklist.                                                           *)

Call(call, src, run, kind, flip, secs, key) ==
    [call |-> call, src |-> src, run |-> run, kind |-> kind, flip |-> flip,
     secs |-> secs, key |-> key]

LevelCall(run, int, secs, key) ==
    [call |-> "level", src |-> <<"int", int>>, run |-> <<"run", run>>,
     secs |-> secs, key |-> key,
     pairs |-> <<>>, intents |-> <<>>, removes |-> <<>>]

\* Creates ascend by rank and position, removals descend.
CreateKey(prefix, d, k) == prefix \o <<0, d, k>>
RemoveKey(prefix, d, k) == prefix \o <<1, -d, -k>>

RemovalCalls(hs, secs, prefix) ==
    [k \in DOMAIN hs |->
        Call("removal", hs[k], Nil, "remove", Nil, secs,
             RemoveKey(prefix, DefOf(hs[k]), k))]

LevelCalls(t) ==
    [k \in DOMAIN t.intents |->
        LET i == t.intents[k]
        IN  Call("intent", i.src, i.run, i.kind,
                 IF i.kind = "add" THEN Flip(t, DefOf(i.src)) ELSE Nil,
                 t.secs, CreateKey(t.key, DefOf(i.src), k))]
    \o RemovalCalls(Negations(t), t.secs, t.key)

Cmd(verb, at, items) == [verb |-> verb, at |-> at, items |-> items]

Op(t, action, cmds) ==
    [src |-> t.src, run |-> t.run, flip |-> t.flip, action |-> action,
     secs |-> t.secs, key |-> t.key, cmds |-> cmds]

\* The elements of list value v that w lacks, in the order of v.
Lacking(v, w) == Only(v, ToSet(v) \ ToSet(w))

\* Seeded fault: only additions are written.
DeltaCmdsAddsOnly(t) ==
    LET a == Schema[DefOf(t.src)].list
    IN  <<Cmd("listadd", t.src, Lacking(Line(t.src).f[a], Line(t.run).f[a]))>>

DeltaCmds(t) ==
    LET a   == Schema[DefOf(t.src)].list
        new == Line(t.src).f[a]
        old == Line(t.run).f[a]
        One(verb, items) == IF items = <<>> THEN <<>> ELSE <<Cmd(verb, t.src, items)>>
    IN  One("listremove", Lacking(old, new)) \o One("listadd", Lacking(new, old))

CrossDefinition(t) == DefOf(t.src) # DefOf(t.run)

RefuseProtected(t) == ProtectedIn(t.run) \/ Schema[DefOf(t.src)].protected

\* An intent that must be dropped, and why.
IntentRefused(t) ==
    CASE t.kind = "replace" ->
            IF RefuseProtected(t) THEN "protected"
            ELSE IF Schema[DefOf(t.run)].clear THEN "clear" ELSE ""
      [] t.kind \in {"modify", "delta"} ->
            IF CrossDefinition(t) /\ RefuseProtected(t) THEN "protected" ELSE ""
      [] OTHER -> ""

-----------------------------------------------------------------------------
(* collect, one step per call or intent.                                   *)

Init ==
    /\ \E i \in Inputs :
        /\ running = i.running /\ intended = i.intended /\ baseline = i.baseline
        /\ cycle = i.cycle
    /\ todo = <<LevelCall(<<>>, <<>>, <<>>, <<>>)>>
    /\ errors = {}
    /\ artifact = <<>>
    /\ pc = "collect"
    /\ ops = <<>> /\ derived = {} /\ edges = {}
    /\ indeg = <<>> /\ out = <<>> /\ walk = <<>>

\* What the head of the worklist is: a level, in one of its three stages, an
\* intent or a removal.
Facing(call) == pc = "collect" /\ todo # <<>> /\ Head(todo).call = call

Process(rest) ==
    /\ todo' = rest \o Tail(todo)
    /\ UNCHANGED <<inputVars, artifact, pc, schedVars>>

\* The first loop of collect: each intended line finds its counterpart, a
\* second line of one identity is refused.
PairLevel ==
    LET t == Head(todo)
    IN  /\ Facing("level")
        /\ \E kept \in {Kept(t)} :
            /\ Process(<<[t EXCEPT !.call = "removes", !.pairs = Pairings(t, kept)]>>)
            /\ errors' = errors \cup
                (IF Len(kept) < Len(Intended(t)) THEN {"duplicate"} ELSE {})
        /\ UNCHANGED ops

\* How each pair is realised, and the second loop: the running lines that
\* nothing keeps.
FindRemoves ==
    LET t == Head(todo)
    IN  /\ Facing("removes")
        /\ Process(<<[t EXCEPT !.call = "toggles",
                                  !.intents = Intents(t), !.removes = Removes(t)]>>)
        /\ UNCHANGED <<ops, errors>>

\* dropToggles and checkSplitSingles, before the loops that append operations.
DropToggles ==
    LET t == Head(todo)
    IN  /\ Facing("toggles")
        /\ Process(LevelCalls(t))
        /\ errors' = errors \cup (IF SplitSlot(t) THEN {"split"} ELSE {})
        /\ UNCHANGED ops

Emits(t, action, cmds) ==
    /\ ops' = Append(ops, Op(t, action, cmds))
    /\ UNCHANGED errors

\* An intent of the given kind that no check drops.
Accepted(t, kind) ==
    Facing("intent") /\ t.kind = kind /\ IntentRefused(t) = ""

AddLine ==
    LET t == Head(todo)
    IN  /\ Accepted(t, "add")
        /\ Process(<<>>)
        /\ Emits(t, "add", <<Cmd("put", t.src, <<>>)>>)

ModifyLine ==
    LET t == Head(todo)
    IN  /\ Accepted(t, "modify")
        /\ Process(<<>>)
        /\ Emits(t, "modify", <<Cmd("set", t.src, <<>>)>>)

DeltaLine ==
    LET t == Head(todo)
    IN  /\ Accepted(t, "delta")
        /\ Process(<<>>)
        /\ Emits(t, "modify", DeltaCmds(t))

\* Seeded fault: the new line is written before the old one is negated.
ReplaceLineFirst ==
    LET t == Head(todo)
    IN  /\ Accepted(t, "replace")
        /\ Process(<<>>)
        /\ Emits(t, "replace", <<Cmd("put", t.src, <<>>), Cmd("no", t.run, <<>>)>>)

ReplaceLine ==
    LET t == Head(todo)
    IN  /\ Accepted(t, "replace")
        /\ Process(<<>>)
        /\ Emits(t, "replace", <<Cmd("no", t.run, <<>>), Cmd("put", t.src, <<>>)>>)

\* A changed header is reissued, then the section's children are collected.
EnterSection ==
    LET t == Head(todo)
    IN  /\ Accepted(t, "section")
        /\ Process(<<LevelCall(t.run[2], t.src[2], Append(t.secs, t.src), t.key)>>)
        /\ IF Text(Line(t.src)) = Text(Line(t.run))
           THEN UNCHANGED <<ops, errors>>
           ELSE Emits(t, "modify", <<Cmd("set", t.src, <<>>)>>)

RefuseIntent ==
    LET t == Head(todo)
    IN  /\ Facing("intent")
        /\ Process(<<>>)
        /\ IntentRefused(t) # ""
        /\ errors' = errors \cup {IntentRefused(t)}
        /\ UNCHANGED ops

\* expandRemove: the children of a ClearOnRemove section go one by one.
ExpandRemoval ==
    LET t == Head(todo)
    IN  /\ Facing("removal")
        /\ Process(RemovalCalls(KidsOf(t.src), Append(t.secs, t.src), t.key))
        /\ Schema[DefOf(t.src)].clear
        /\ IsSection(DefOf(t.src))
        /\ UNCHANGED <<ops, errors>>

\* Its definition has no child grammar, so it could never be emptied.
RefuseExpansion ==
    LET t == Head(todo)
    IN  /\ Facing("removal")
        /\ Process(<<>>)
        /\ Schema[DefOf(t.src)].clear
        /\ ~IsSection(DefOf(t.src))
        /\ errors' = errors \cup {"clear"}
        /\ UNCHANGED ops

RefuseDelete ==
    LET t == Head(todo)
    IN  /\ Facing("removal")
        /\ Process(<<>>)
        /\ ~Schema[DefOf(t.src)].clear
        /\ ProtectedIn(t.src)
        /\ errors' = errors \cup {"protected"}
        /\ UNCHANGED ops

RemoveLine ==
    LET t == Head(todo)
    IN  /\ Facing("removal")
        /\ Process(<<>>)
        /\ ~Schema[DefOf(t.src)].clear
        /\ ~ProtectedIn(t.src)
        /\ Emits(t, "remove", <<Cmd("no", t.src, <<>>)>>)

-----------------------------------------------------------------------------
(* What an operation adds, removes, defines, references and holds.         *)

Ops == DOMAIN ops

IsCross(o) == o.action = "modify" /\ o.run # Nil /\ CrossDefinition(o)

Added(o) ==
    IF o.action \in {"add", "replace"} \/ IsCross(o) THEN o.src ELSE Nil

Removed(o) ==
    CASE o.action = "remove" -> o.src
      [] o.action = "replace" \/ IsCross(o) -> o.run
      [] OTHER -> o.flip

Negated(o) ==
    CASE o.action = "remove"  -> o.src
      [] o.action = "replace" -> o.run
      [] OTHER                -> Nil

LabelsIn(h) == UNION {Labels(DefOf(n)) : n \in Sub(h)}

\* The resources of a line that a relation can name: one per label and key
\* argument, or the label alone, which only a Requires names.
DefinedBy(l) ==
    IF Keyed(l.def)
    THEN {<<name, a, l.f[a]>> : name \in Labels(l.def), a \in ToSet(Schema[l.def].keys)}
    ELSE {<<name, "", "">> : name \in Labels(l.def)}

Defines(h) == UNION {DefinedBy(Line(n)) : n \in Sub(h)}

RelsOf(h, type) ==
    UNION {{<<n, rel>> : rel \in {r \in Schema[DefOf(n)].rels : r.type = type}}
            : n \in Sub(h)}

Refs(h) ==
    UNION {{<<x[2].label, x[2].target, v>> : v \in RelValues(Line(x[1]), x[2])}
            : x \in RelsOf(h, "ref")}

Required(h) == {x[2].label : x \in RelsOf(h, "requires")}

Names(h) ==
    {ExclusiveName(Conf(n[1]), n[2], "Device") :
        n \in {m \in Sub(h) : ClaimsName(Conf(m[1]), m[2])}}

\* Label instances, by definition and full key.
Objects(c) ==
    UNION {{<<l, c[p].def, KeyValue(c[p])>> : l \in Labels(c[p].def)}
            : p \in DOMAIN c}

\* The label instances below one node.
ObjectsIn(h) ==
    Objects([q \in {n[2] : n \in Sub(h)} |-> Conf(h[1])[q]])

Surviving ==
    {r[1] : r \in Objects(running) \cap Objects(intended)}
        \cup {r[1] : r \in Objects(baseline)}

-----------------------------------------------------------------------------
(* The derivations, in the order buildGraph calls them.                    *)

EdgePairs == {e \in Ops \X Ops : e[1] # e[2]}

Earlier(i, j) ==
    \/ Sched!KeyLess(ops[i].key, ops[j].key)
    \/ ops[i].key = ops[j].key /\ i < j

\* definerIndex keeps the operation with the smallest key.
Smallest(i, S) == i \in S /\ \A j \in S \ {i} : Earlier(i, j)

\* The operations that add and that remove a definer, and that add a label.
Adding(r) == {i \in Ops : r \in Defines(Added(ops[i]))}
Removing(r) == {i \in Ops : r \in Defines(Removed(ops[i]))}
AddingLabel(l) == {i \in Ops : l \in LabelsIn(Added(ops[i]))}

IsKindSlot(h) == CategoryOf(DefOf(h)) = "KindedSingle"

\* The removal of a stale spelling precedes the operation that reissues the slot.
CleanupEdges ==
    {e \in EdgePairs :
        LET rm == ops[e[1]] add == ops[e[2]]
        IN  /\ rm.action = "remove" /\ add.action # "remove"
            /\ IsKindSlot(rm.src) /\ IsKindSlot(add.src)
            /\ Id(rm.src) = Id(add.src)
            /\ rm.secs = add.secs}

\* Seeded fault: retargeting operations are not ordered before the removal.
RefEdgesAddsOnly ==
    {e \in EdgePairs :
        /\ ops[e[2]].action # "remove"
        /\ \E r \in Refs(ops[e[2]].src) : Smallest(e[1], Adding(r))}

\* A definer's add precedes its referrers, a definer's removal follows the
\* operations that remove or retarget them.
RefEdges ==
    {e \in EdgePairs :
        \/ /\ ops[e[2]].action # "remove"
           /\ \E r \in Refs(ops[e[2]].src) : Smallest(e[1], Adding(r))
        \/ \E h \in {ops[e[1]].run, Removed(ops[e[1]])} :
            \E r \in Refs(h) : Smallest(e[2], Removing(r))}

\* Seeded fault: the claim precedes the release.
MoveEdgesReversed ==
    {e \in EdgePairs :
        \E n \in Names(Removed(ops[e[2]])), m \in Names(Added(ops[e[1]])) :
            Contest(n, m)}

\* A name is released before another object claims it.
MoveEdges ==
    {e \in EdgePairs :
        \E n \in Names(Removed(ops[e[1]])), m \in Names(Added(ops[e[2]])) :
            Contest(n, m)}

NeedsLabel(o, label) ==
    o.action # "remove" /\ label \in Required(o.src) \ Surviving

\* Seeded fault: users are not ordered before the prerequisite's removal.
RequireEdgesAddsOnly ==
    {e \in EdgePairs :
        \E l \in LabelsIn(Added(ops[e[1]])) :
            NeedsLabel(ops[e[2]], l) /\ Smallest(e[1], AddingLabel(l))}

RequireEdges ==
    {e \in EdgePairs :
        \/ \E l \in LabelsIn(Added(ops[e[1]])) :
            NeedsLabel(ops[e[2]], l) /\ Smallest(e[1], AddingLabel(l))
        \/ \E l \in Required(Removed(ops[e[1]])) \ Surviving :
            l \in LabelsIn(Removed(ops[e[2]]))}

\* The goal requires a label that nothing keeps and nothing adds.
Unsatisfiable ==
    \E i \in Ops : \E l \in Required(ops[i].src) :
        /\ NeedsLabel(ops[i], l)
        /\ AddingLabel(l) = {}

Excludes(d, e) == \E rel \in Excluders(d) : HasLabel(e, rel.label)

\* Seeded fault: only the added side's exclusions are looked up.
ExclusionEdgesOneWay ==
    {e \in EdgePairs :
        LET rm == Removed(ops[e[1]]) add == Added(ops[e[2]])
        IN  /\ rm # Nil /\ add # Nil
            /\ ops[e[1]].secs = ops[e[2]].secs
            /\ Excludes(DefOf(add), DefOf(rm))}

ExclusionEdges ==
    {e \in EdgePairs :
        LET rm == Removed(ops[e[1]]) add == Added(ops[e[2]])
        IN  /\ rm # Nil /\ add # Nil
            /\ ops[e[1]].secs = ops[e[2]].secs
            /\ \/ Excludes(DefOf(add), DefOf(rm))
               \/ Excludes(DefOf(rm), DefOf(add))}

\* Seeded fault: what a negated section contains is not looked at.
BaselineLossShallow ==
    \E i \in Ops :
        /\ Negated(ops[i]) # Nil
        /\ Objects(<<Line(Negated(ops[i]))>>) \cap Objects(baseline) # {}

\* An operation negates an object the baseline declares as device-provided.
BaselineLoss ==
    \E i \in Ops :
        Negated(ops[i]) # Nil
        /\ ObjectsIn(Negated(ops[i])) \cap Objects(baseline) # {}

Derive(from, to, E) ==
    /\ pc = from
    /\ pc' = to
    /\ derived' = derived \cup E
    /\ edges' = derived'
    /\ UNCHANGED <<inputVars, todo, artifact, ops, indeg, out, walk>>

CheckBaselineRemovals ==
    /\ pc = "collect" /\ todo = <<>>
    /\ pc' = "cleanup"
    /\ errors' = errors \cup (IF BaselineLoss THEN {"baseline"} ELSE {})
    /\ UNCHANGED <<inputVars, todo, artifact, ops, schedVars>>

DeriveSlotCleanupEdges ==
    Derive("cleanup", "refs", CleanupEdges) /\ UNCHANGED errors

DeriveRefEdges == Derive("refs", "moves", RefEdges) /\ UNCHANGED errors

DeriveMoveEdges == Derive("moves", "requires", MoveEdges) /\ UNCHANGED errors

DeriveRequireEdges ==
    /\ Derive("requires", "exclusions", RequireEdges)
    /\ errors' = errors \cup (IF Unsatisfiable THEN {"requires"} ELSE {})

DeriveExclusionEdges ==
    Derive("exclusions", "count", ExclusionEdges) /\ UNCHANGED errors

\* schedule() counts the in-degrees of the finished graph.
CountIndegrees ==
    /\ pc = "count"
    /\ pc' = "emit"
    /\ indeg' = Sched!InDegrees
    /\ UNCHANGED <<inputVars, todo, errors, artifact, ops, derived, edges, out, walk>>

-----------------------------------------------------------------------------
(* Scheduling and materialisation.                                         *)

Scheduling ==
    /\ \/ \E i \in Ops :
            \/ Sched!Emit(i) \/ Sched!Stall(i)
            \/ Sched!ExtendWalk(i) \/ Sched!BreakOnCycle(i)
       \/ Sched!Finish
    /\ UNCHANGED <<inputVars, todo, errors, artifact>>

AbortPlan ==
    /\ \E i \in Ops : Sched!AbortOnCycle(i)
    /\ errors' = errors \cup {"cycle"}
    /\ UNCHANGED <<inputVars, todo, artifact>>

\* The sections open after the operations materialised so far.
OpenSections ==
    IF artifact = <<>> THEN <<>> ELSE ops[Last(artifact).op].secs

\* Seeded fault: sections already open are not reused but left open.
MaterializeEntryStale(i) ==
    LET keep == Sched!Affinity(OpenSections, ops[i].secs)
    IN  [op |-> i, keep |-> Len(OpenSections),
         open |-> SubSeq(ops[i].secs, keep + 1, Len(ops[i].secs)),
         cmds |-> ops[i].cmds]

\* Close what the operation is not in, open what it is in, write its lines.
MaterializeEntry(i) ==
    LET keep == Sched!Affinity(OpenSections, ops[i].secs)
    IN  [op |-> i, keep |-> keep,
         open |-> SubSeq(ops[i].secs, keep + 1, Len(ops[i].secs)),
         cmds |-> ops[i].cmds]

Materialize ==
    /\ pc = "done"
    /\ Len(artifact) < Len(out)
    /\ artifact' = Append(artifact, MaterializeEntry(out[Len(artifact) + 1]))
    /\ UNCHANGED <<inputVars, todo, errors, pc, ops, schedVars>>

Complete == pc = "done" /\ Len(artifact) = Len(out)

Collect ==
    \/ PairLevel \/ FindRemoves \/ DropToggles
    \/ AddLine \/ ModifyLine \/ DeltaLine \/ ReplaceLine \/ EnterSection
    \/ RefuseIntent \/ ExpandRemoval \/ RefuseExpansion
    \/ RefuseDelete \/ RemoveLine \/ CheckBaselineRemovals

DeriveEdges ==
    \/ DeriveSlotCleanupEdges \/ DeriveRefEdges \/ DeriveMoveEdges
    \/ DeriveRequireEdges \/ DeriveExclusionEdges \/ CountIndegrees

DiffNext == Collect \/ DeriveEdges \/ Scheduling \/ AbortPlan \/ Materialize

\* Diff is one call on one goroutine.
Spec == Init /\ [][DiffNext]_vars /\ WF_vars(DiffNext)
=============================================================================
