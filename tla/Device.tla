------------------------------- MODULE Device -------------------------------
(***************************************************************************)
(* A device that executes the artifact of Diff one operation at a time.    *)
(* It is not part of the repository: its behaviour is the one the source   *)
(* relies on when it derives edges and refuses operations.                 *)
(*                                                                         *)
(* The device holds a set of [path, line] entries: the slot path of a line *)
(* and the line, whose list argument is the set of its elements.  A line   *)
(* displaces the occupant of its slot and its toggle partners; "no" clears *)
(* the slot, or only the very line it names, whichever the platform does;  *)
(* opening a section that is not there creates it.                         *)
(***************************************************************************)
EXTENDS Remediate

VARIABLES
    device,   \* the entries
    mode,     \* the slot path of the section the session is in
    applied,  \* how many operations were executed
    clean     \* whether a promise is made for the way between both ends

deviceVars == <<device, mode, applied, clean>>

-----------------------------------------------------------------------------
(* Entries.                                                                *)

Normal(l) ==
    LET a == Schema[l.def].list
    IN  IF a = "" THEN l ELSE [l EXCEPT !.f[a] = ToSet(@)]

Entry(c, p) == [path |-> SlotPath(c, p), line |-> Normal(c[p])]

Entries(c) == {Entry(c, p) : p \in DOMAIN c}

EntriesIn(h) == {Entry(Conf(n[1]), n[2]) : n \in Sub(h)}

PathOf(h) == SlotPath(Conf(h[1]), h[2])

\* What only one line can occupy: an unkeyed single slot is one per Kind, or
\* per definition without one.
Place(e) ==
    LET d == e.line.def
    IN  IF SlotDef(d)
        THEN <<Front(e.path), "slot", Schema[d].kind,
               IF Schema[d].kind = "" THEN d ELSE 0>>
        ELSE <<e.path>>

Siblings(e, x) == Front(e.path) = Front(x.path)

\* Entries that e pushes out when it is entered.
Displaces(e, x) ==
    \/ Place(e) = Place(x)
    \/ /\ Siblings(e, x) /\ x.line.def # e.line.def
       /\ x.line.def \in ToSet(Schema[e.line.def].toggles)

\* D without the entries R and what is below those whose path goes with them.
Without(D, R) ==
    LET left == D \ R
    IN  {x \in left : \A r \in R :
            Below(r.path, x.path) /\ r.path # x.path
            => \E y \in left : y.path = r.path}

-----------------------------------------------------------------------------
(* Commands.                                                               *)

\* The entries E are written: what they displace goes, the sections that
\* stay keep their children.
Put(D, E) ==
    LET gone == {x \in D : \E e \in E : Displaces(e, x)}
        kept == {x \in gone : \E e \in E : e.path = x.path}
    IN  (Without(D, gone \ kept) \ kept) \cup E

\* by is what the platform's negation matches: the slot, or the exact line.
No(D, e, by) ==
    Without(D, IF by = "slot" THEN {x \in D : Place(x) = Place(e)}
               ELSE {x \in D : x = e})

EditList(D, h, verb, items) ==
    LET a == Schema[DefOf(h)].list
        Edit(x) == IF x.path # PathOf(h) THEN x
                   ELSE [x EXCEPT !.line.f[a] =
                            IF verb = "listadd" THEN @ \cup ToSet(items)
                            ELSE @ \ ToSet(items)]
    IN  {Edit(x) : x \in D}

Execute(D, c, by) ==
    LET e == Entry(Conf(c.at[1]), c.at[2])
    IN  CASE c.verb = "put" -> Put(D, EntriesIn(c.at))
          [] c.verb = "set" -> Put(D, {e})
          [] c.verb = "no"  -> No(D, e, by)
          [] c.verb \in {"listadd", "listremove"} ->
                EditList(D, c.at, c.verb, c.items)

\* The commands of an operation are executed in order.
ExecuteAll(D, cs, by) ==
    LET After[n \in 0..Len(cs)] ==
            IF n = 0 THEN D ELSE Execute(After[n - 1], cs[n], by)
    IN  After[Len(cs)]

\* The section headers that it opens are written before, one by one.
Open(D, hs) == ExecuteAll(D, [k \in DOMAIN hs |-> Cmd("set", hs[k], <<>>)], "slot")

\* Running configurations the device can be in: Kind slots may show several
\* spellings and toggle groups several members, every other slot one line.
OneLinePerSlot(c) ==
    \A p, q \in DOMAIN c :
        /\ p # q /\ Parent(p) = Parent(q)
        /\ Duplicates(c[p], c[q]) \/ Ident(c[p]) = Ident(c[q])
        => \/ c[q].def \in ToSet(Schema[c[p].def].toggles) /\ c[p].def # c[q].def
           \/ /\ CategoryOf(c[p].def) = "KindedSingle"
              /\ Schema[c[p].def].kids = {} /\ Schema[c[q].def].kids = {}

\* Both ends of the plan pass CommitCheck, and the device can hold the first.
CleanEnds ==
    /\ \A c \in {running, intended} : CommitClean(c, baseline)
    /\ OneLinePerSlot(running)

DeviceInit ==
    /\ Init
    /\ device = Entries(running)
    /\ mode = <<>>
    /\ applied = 0
    /\ clean = CleanEnds

Apply ==
    /\ Complete
    /\ applied < Len(artifact)
    /\ LET a    == artifact[applied + 1]
           Slot(h) == Id(h)
       IN  /\ mode' = SubSeq(mode, 1, a.keep) \o [k \in DOMAIN a.open |-> Slot(a.open[k])]
           /\ \E by \in {"slot", "line"} :
                device' = ExecuteAll(Open(device, a.open), a.cmds, by)
    /\ applied' = applied + 1
    /\ UNCHANGED <<vars, clean>>

Applied == Complete /\ applied = Len(artifact)

\* Diff has returned and the session is over.
Returned ==
    /\ Applied \/ pc = "aborted"
    /\ UNCHANGED <<vars, deviceVars>>

Diff == DiffNext /\ UNCHANGED deviceVars

DeviceNext == Diff \/ Apply \/ Returned

\* Diff is one call on one goroutine; the device may stop anywhere.
DeviceSpec ==
    /\ DeviceInit
    /\ [][DeviceNext]_<<vars, deviceVars>>
    /\ WF_<<vars, deviceVars>>(Diff)

-----------------------------------------------------------------------------
(* What the inputs must satisfy for a promise to be made.                  *)

\* A plan that can be executed: nothing refused, no edge dropped.
SoundPlan == errors = {} /\ edges = derived

\* The plan is being executed.
InTransit == Complete /\ applied > 0

\* No two lines of one level are the same object, duplicates of each other, or
\* in each other's place on the device.
OneEach(c) ==
    \A p, q \in DOMAIN c : p # q /\ Parent(p) = Parent(q) =>
        /\ Ident(c[p]) # Ident(c[q]) /\ ~Duplicates(c[p], c[q])
        /\ ~Displaces(Entry(c, p), Entry(c, q))

\* A toggle member that changes its text, and with it its identity.
Respells ==
    \E p \in DOMAIN running, q \in DOMAIN intended :
        /\ Schema[running[p].def].toggles # <<>> /\ running[p].def = intended[q].def
        /\ SlotPath(running, Parent(p)) = SlotPath(intended, Parent(q))
        /\ Ident(running[p]) # Ident(intended[q])

\* Every line of either configuration has its place to itself.
Tidy == (\A c \in {running, intended} : OneEach(c)) /\ ~Respells

-----------------------------------------------------------------------------
(* Properties.                                                             *)

\* Executing the whole plan leaves the device with the intended lines and
\* nothing else but the headers of ClearOnRemove sections, which have no
\* negation: no operation of the plan undoes another one, in any order that
\* the edges and the scheduler's affinity allow.
Converges ==
    Applied /\ errors = {} /\ OneLinePerSlot(running) =>
        /\ Entries(intended) \subseteq device
        /\ \A x \in device \ Entries(intended) :
            Schema[x.line.def].clear /\ x \in Entries(running)

\* On the way every line on the device is one of the two configurations' and
\* has its slot path to itself, and a slot that is filled at both ends is never
\* empty: what is replaced is written by the operation that cleared it.
NoSlotLost ==
    InTransit /\ errors = {} /\ Tidy =>
        /\ device \subseteq Entries(running) \cup Entries(intended)
        /\ \A x, y \in device : x.path = y.path => x = y
        /\ \A x \in Entries(running), y \in Entries(intended) :
            x.path = y.path => \E z \in device : z.path = x.path

\* No two lines of a level are one object to Diff.  FragmentCheck lets a full
\* line stand twice where its definition may repeat.
SpelledOnce(c) ==
    \A p, q \in DOMAIN c :
        p # q /\ Parent(p) = Parent(q) => Ident(c[p]) # Ident(c[q])

\* Every list of c can be expanded.
ListsResolve(c) ==
    \A p \in DOMAIN c :
        Schema[c[p].def].list # "" => ~Malformed(c[p].f[Schema[c[p].def].list])

\* Configurations that differ only in the order of lines and the spelling of
\* lists give an empty plan and no Error.
EqualIsEmpty ==
    /\ Complete /\ Entries(running) = Entries(intended)
    /\ \A c \in {running, intended} : SpelledOnce(c) /\ ListsResolve(c)
    => ops = <<>> /\ errors = {}

RefValues(x, rel) ==
    IF rel.from = Schema[x.line.def].list THEN x.line.f[rel.from]
    ELSE {x.line.f[rel.from]}

\* The lines of D or the baseline provide every value x references.
Resolved(x, D) ==
    \A rel \in {r \in Schema[x.line.def].rels : r.type = "ref"} :
        \A v \in RefValues(x, rel) :
            \/ \E y \in D : Provides(y.line, rel, v)
            \/ \E q \in DOMAIN baseline : Provides(baseline[q], rel, v)

\* A keyed resource some operation removes and another one adds.
MovedResource ==
    \E i, j \in Ops : i # j
        /\ \E r \in Defines(Removed(ops[i])) \cap Defines(Added(ops[j])) : r[2] # ""

\* A section header that is given another reference while the section stays.
HeaderRetargets ==
    \E i \in Ops : ops[i].action = "modify" /\ ~IsCross(ops[i])
        /\ Schema[DefOf(ops[i].src)].kids # {}
        /\ \E rel \in Schema[DefOf(ops[i].src)].rels : rel.type = "ref"
            /\ Line(ops[i].src).f[rel.from] # Line(ops[i].run).f[rel.from]

\* No operation leaves a line whose reference target is gone or not yet
\* there: definers are added before and removed after their referrers.  Two
\* kinds of plans are left out.  A definer that moves to another section is
\* removed and added in an order against operations only, never against
\* unchanged referrers.  And an operation in a section writes its header anew,
\* references included: see DefinitionsFirst.
RefsHold ==
    InTransit /\ SoundPlan /\ clean /\ ~MovedResource /\ ~HeaderRetargets =>
        \A x \in device : Resolved(x, device)

\* "Definitions before references on addition", also where the reference is
\* in a section header that the plan changes.
DefinitionsFirst ==
    InTransit /\ SoundPlan /\ clean /\ ~MovedResource =>
        \A x \in device : Resolved(x, device)

\* The exclusive name an entry of D claims: see ExclusiveName.
HeldName(x, D) ==
    LET d    == Schema[x.line.def]
        args == ExclusiveArgs(x.line.def)
        over == {k \in 1..(Len(x.path) - 1) : \E y \in D :
                    y.path = SubSeq(x.path, 1, k) /\ y.line.def = d.anchor}
    IN  [space |-> <<ExclusiveLabel(x.line.def),
                     IF ExclusiveLabel(x.line.def) = "" THEN x.line.def ELSE 0>>,
         owner |-> CASE d.anchor # 0 -> {SubSeq(x.path, 1, k) : k \in over}
                     [] d.anchor = 0 /\ (d.device \/ d.namespace # "") -> {}
                     [] OTHER -> {Front(x.path)},
         key   |-> [k \in DOMAIN args |->
                      IF args[k] = d.list THEN <<>> ELSE x.line.f[args[k]]],
         list  |-> d.list # "" /\ d.list \in ToSet(args)]

SameHeldName(x, y, D) ==
    /\ HeldName(x, D) = HeldName(y, D)
    /\ HeldName(x, D).list =>
        x.line.f[Schema[x.line.def].list] \cap y.line.f[Schema[y.line.def].list] # {}

NamesDistinct ==
    \A x, y \in {e \in device : Keyed(e.line.def)} :
        x # y => ~SameHeldName(x, y, device)

\* An operation that changes the exclusive name of a line it keeps.
RenamesInPlace ==
    \E i \in Ops : ops[i].action = "modify" /\ ~IsCross(ops[i])
        /\ \E a \in ToSet(Schema[DefOf(ops[i].src)].unique) :
            Line(ops[i].src).f[a] # Line(ops[i].run).f[a]

\* No two lines of the device ever claim one exclusive name, provided names
\* change by operations that add or remove the line that claims them: an
\* operation that changes one in place gets no move edge.
NamesHold ==
    InTransit /\ SoundPlan /\ clean /\ ~RenamesInPlace => NamesDistinct

\* Mutually exclusive siblings are never both on the device.
ExclusionsHold ==
    InTransit /\ SoundPlan /\ clean =>
        \A x, y \in device :
            x # y /\ Siblings(x, y) => ~Excludes(x.line.def, y.line.def)

\* Every label a line on the device requires is on the device or provided by
\* the baseline, after every operation.
RequiresHold ==
    InTransit /\ SoundPlan /\ clean =>
        \A x \in device :
            \A rel \in {r \in Schema[x.line.def].rels : r.type = "requires"} :
                \/ \E y \in device : HasLabel(y.line.def, rel.label)
                \/ \E q \in DOMAIN baseline : HasLabel(baseline[q].def, rel.label)

\* A protected line leaves the device only by taking another value in its
\* slot or by a flip to its toggle partner, whatever Errors Diff reported.
ProtectedStays ==
    [][\A x \in device : Schema[x.line.def].protected =>
        \E y \in device' :
            \/ y.path = x.path \/ Place(y) = Place(x)
            \/ Siblings(x, y) /\ y.line.def \in ToSet(Schema[x.line.def].toggles)
      ]_<<vars, deviceVars>>

\* A plan without Errors negates no object that the baseline declares as
\* device-provided, at any depth of what it negates.
ProvidedStays ==
    [][errors = {} => \A x \in device :
        /\ \E q \in DOMAIN baseline :
            /\ baseline[q].def = x.line.def
            /\ Keyed(x.line.def) => KeyValue(baseline[q]) = KeyValue(x.line)
        /\ Labels(x.line.def) # {}
        => \E y \in device' : y.path = x.path \/ Displaces(y, x)
      ]_<<vars, deviceVars>>

\* Every operation is executed in the section it was collected in, although
\* materialisation writes only the difference to the sections already open.
InItsSection ==
    InTransit =>
        mode = LET secs == ops[artifact[applied].op].secs
               IN  [k \in DOMAIN secs |-> Id(secs[k])]

\* "Diff reports an Error when separate Add and Remove operations target the
\* same definition": of a slot that holds one line, in one section.
SplitsReported ==
    Complete /\ errors = {} =>
        \A i, j \in Ops :
            /\ ops[i].action = "add" /\ ops[j].action = "remove"
            /\ ops[i].secs = ops[j].secs /\ SlotDef(DefOf(ops[i].src))
            => DefOf(ops[j].src) # DefOf(ops[i].src)

\* Diff returns, with a plan that is written out to the last operation or with
\* none: the worklist of levels is used up, and a cycle is refused or broken.
Terminates == <>(Complete \/ pc = "aborted")
=============================================================================
