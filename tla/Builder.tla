------------------------------ MODULE Builder ------------------------------
(***************************************************************************)
(* The builder methods of schema.Def.  A vendor package declares a grammar *)
(* by calling them one after another, in any order it likes; there is no   *)
(* final step that looks at the result.  A call that contradicts an        *)
(* earlier one panics, so a state of this module is what an accepted       *)
(* sequence of calls leaves behind, and the guards are the panics.         *)
(*                                                                         *)
(* An argument is a capture of the template.  Of a template that refers to *)
(* captures only the captures are kept.  Methods without a guard (Kind,    *)
(* Tag, MarkIdempotent) and relations change nothing a guard reads.        *)
(***************************************************************************)
EXTENDS FiniteSets

CONSTANTS
    Defs, Args,        \* the definitions of a schema, the captures of a template
    EmptyArgs,         \* the captures whose pattern matches the empty string
    DelimArgs,         \* those that end the template and match one character
    Domains, Seps,     \* keyword domains and list separators
    Expanding,         \* the pairs of them listval.Expand accepts
    Comma,             \* the separator when none is declared
    Spaces,            \* the labels of Namespace
    NoDef, NoArg, NoDomain, NoSpace,
    Packages           \* the [methods, defs] of vendor packages: the methods one
                       \* calls, and the definitions it calls them on

ASSUME BuilderAssumption ==
    /\ NoDef \notin Defs /\ NoArg \notin Args
    /\ NoDomain \notin Domains /\ NoSpace \notin Spaces
    /\ DelimArgs \subseteq Args \ EmptyArgs
    /\ Comma \in Seps

VARIABLES
    package,                        \* the vendor package, never assigned
    children, block, exit,          \* Child and Adopt, BlockDelim and BlockUntil, SectionExit
    clear, protected, negate,       \* ClearOnRemove, Protect, the Negate methods
    card, keys, merge,              \* Card, Key, the Merge methods
    group, canon,                   \* the toggle group of a definition, its first partner
    list, delta,                    \* the List argument, what both ListDelta templates capture
    sep, words, domain,             \* ListSep, whether an all or except word is declared, its domain
    base, continued,                \* the ListContinues base, whether one continues this slot
    members, respell,               \* Members, RespellAs
    anchor, device, space           \* ScopedBy, ScopedByDevice, Namespace

shapeVars == <<children, block, exit>>
removalVars == <<clear, protected, negate>>
slotVars == <<card, keys, merge>>
groupVars == <<group, canon>>
listVars == <<list, delta>>
wordVars == <<sep, words, domain>>
foldVars == <<base, continued, members, respell>>
scopeVars == <<anchor, device, space>>

vars == <<package, shapeVars, removalVars, slotVars, groupVars, listVars, wordVars,
          foldVars, scopeVars>>

TypeOK ==
    /\ package \in Packages
    /\ children \in [Defs -> BOOLEAN]
    /\ block \in [Defs -> {"None", "Delim", "Until"}]
    /\ exit \in [Defs -> BOOLEAN]
    /\ clear \in [Defs -> BOOLEAN]
    /\ protected \in [Defs -> BOOLEAN]
    /\ negate \in [Defs -> {"NoPrefix", "Template", "Func", "Default"}]
    /\ card \in [Defs -> {"ZeroToOne", "ZeroToN", "One"}]
    /\ keys \in [Defs -> SUBSET Args]
    /\ merge \in [Defs -> {"Default", "KeepFirst", "KeepLast", "Custom"}]
    /\ group \in [Defs -> SUBSET Defs]
    /\ canon \in [Defs -> Defs \cup {NoDef}]
    /\ list \in [Defs -> Args \cup {NoArg}]
    /\ delta \in [Defs -> SUBSET Args]
    /\ sep \in [Defs -> Seps]
    /\ words \in [Defs -> BOOLEAN]
    /\ domain \in [Defs -> Domains \cup {NoDomain}]
    /\ base \in [Defs -> Defs \cup {NoDef}]
    /\ continued \in [Defs -> BOOLEAN]
    /\ members \in [Defs -> BOOLEAN]
    /\ respell \in [Defs -> BOOLEAN]
    /\ anchor \in [Defs -> Defs \cup {NoDef}]
    /\ device \in [Defs -> BOOLEAN]
    /\ space \in [Defs -> Spaces \cup {NoSpace}]

\* Schema.Node: a definition before any call.
Init ==
    LET All(v) == [n \in Defs |-> v]
    IN  /\ package \in Packages
        /\ children = All(FALSE) /\ block = All("None") /\ exit = All(FALSE)
        /\ clear = All(FALSE) /\ protected = All(FALSE) /\ negate = All("NoPrefix")
        /\ card = All("ZeroToOne") /\ keys = All({}) /\ merge = All("Default")
        /\ group = All({}) /\ canon = All(NoDef)
        /\ list = All(NoArg) /\ delta = All({})
        /\ sep = All(Comma) /\ words = All(FALSE) /\ domain = All(NoDomain)
        /\ base = All(NoDef) /\ continued = All(FALSE)
        /\ members = All(FALSE) /\ respell = All(FALSE)
        /\ anchor = All(NoDef) /\ device = All(FALSE) /\ space = All(NoSpace)

\* The definitions of the package.
Declared == {n \in Defs : n \in package.defs}

-----------------------------------------------------------------------------
(* Sections, blocks and removal.                                           *)

\* Child and Adopt.
Child(n) ==
    /\ block[n] = "None" /\ list[n] = NoArg /\ ~respell[n]
    /\ children' = [children EXCEPT ![n] = TRUE]
    /\ UNCHANGED <<block, exit, removalVars, slotVars, groupVars, listVars,
                   wordVars, foldVars, scopeVars>>

\* setBlock's conditions.
BlockFree(n) ==
    /\ ~children[n] /\ ~clear[n] /\ ~respell[n]
    /\ base[n] = NoDef /\ ~members[n] /\ list[n] = NoArg /\ ~exit[n]

SetBlock(n, kind) ==
    /\ BlockFree(n)
    /\ block' = [block EXCEPT ![n] = kind]
    /\ UNCHANGED <<children, exit, removalVars, slotVars, groupVars, listVars,
                   wordVars, foldVars, scopeVars>>

\* BlockDelim needs an argument that can be a delimiter.
Block(n) ==
    \/ DelimArgs # {} /\ SetBlock(n, "Delim")
    \/ SetBlock(n, "Until")

\* An empty token takes an earlier one back; a block refuses even that.
SectionExit(n) ==
    \E token \in BOOLEAN :
        /\ block[n] = "None"
        /\ exit' = [exit EXCEPT ![n] = token]
        /\ UNCHANGED <<children, block, removalVars, slotVars, groupVars, listVars,
                       wordVars, foldVars, scopeVars>>

ClearOnRemove(n) ==
    /\ ~protected[n] /\ negate[n] = "NoPrefix"
    /\ block[n] = "None" /\ list[n] = NoArg
    /\ clear' = [clear EXCEPT ![n] = TRUE]
    /\ UNCHANGED <<shapeVars, protected, negate, slotVars, groupVars, listVars,
                   wordVars, foldVars, scopeVars>>

Protect(n) ==
    /\ ~clear[n]
    /\ protected' = [protected EXCEPT ![n] = TRUE]
    /\ UNCHANGED <<shapeVars, clear, negate, slotVars, groupVars, listVars,
                   wordVars, foldVars, scopeVars>>

\* NegateAs, NegateFunc and NegateDefault.
Negate(n) ==
    \E kind \in {"Template", "Func", "Default"} :
        /\ ~clear[n]
        /\ negate' = [negate EXCEPT ![n] = kind]
        /\ UNCHANGED <<shapeVars, clear, protected, slotVars, groupVars, listVars,
                       wordVars, foldVars, scopeVars>>

-----------------------------------------------------------------------------
(* Slots: cardinality, keys, merge strategies and toggle groups.           *)

Card(n) ==
    \E c \in {"ZeroToOne", "ZeroToN", "One"} :
        /\ group[n] = {}
        /\ card' = [card EXCEPT ![n] = c]
        /\ UNCHANGED <<shapeVars, removalVars, keys, merge, groupVars, listVars,
                       wordVars, foldVars, scopeVars>>

\* Seeded fault: a slot that others continue may still be keyed.
KeyFreeBase(n, args) ==
    /\ list[n] \notin args /\ ~members[n] /\ base[n] = NoDef /\ group[n] = {}

\* Key's conditions on what was declared before.
KeyFree(n, args) ==
    /\ list[n] \notin args
    /\ ~members[n] /\ base[n] = NoDef /\ ~continued[n] /\ group[n] = {}

Key(n) ==
    \E args \in SUBSET (Args \ EmptyArgs) :
        /\ KeyFree(n, args)
        /\ keys' = [keys EXCEPT ![n] = args]
        /\ UNCHANGED <<shapeVars, removalVars, card, merge, groupVars, listVars,
                       wordVars, foldVars, scopeVars>>

\* Seeded fault: the strategies of the partners are not looked at.
MergeFreeSelf(n) == merge[n] = "Default"

\* setMerge: once per definition and once per toggle group.
MergeFree(n) ==
    /\ merge[n] = "Default"
    /\ \A m \in group[n] : merge[m] = "Default"

\* MergeKeepFirst, MergeKeepLast and MergeFunc.
SetMerge(n) ==
    \E kind \in {"KeepFirst", "KeepLast", "Custom"} :
        /\ MergeFree(n)
        /\ merge' = [merge EXCEPT ![n] = kind]
        /\ UNCHANGED <<shapeVars, removalVars, card, keys, groupVars, listVars,
                       wordVars, foldVars, scopeVars>>

AtMostOneMerge(g) ==
    \A l, m \in g : merge[l] # "Default" /\ merge[m] # "Default" => l = m

\* n and its partners; the first partner becomes the canonical member.
Toggles(n) ==
    \E partners \in SUBSET (Declared \ {n}) : \E first \in partners :
        LET g == partners \cup {n}
        IN  /\ \A m \in g : keys[m] = {} /\ card[m] = "ZeroToOne" /\ group[m] = {}
            /\ AtMostOneMerge(g)
            /\ group' = [m \in Defs |-> IF m \in g THEN g ELSE group[m]]
            /\ canon' = [m \in Defs |-> IF m \in g THEN first ELSE canon[m]]
            /\ UNCHANGED <<shapeVars, removalVars, slotVars, listVars, wordVars,
                           foldVars, scopeVars>>

-----------------------------------------------------------------------------
(* Lists and the rewrites of Fold.                                         *)

List(n) ==
    \E arg \in Args :
        /\ arg \notin keys[n]
        /\ ~children[n] /\ ~clear[n] /\ block[n] = "None"
        /\ list' = [list EXCEPT ![n] = arg]
        /\ UNCHANGED <<shapeVars, removalVars, slotVars, groupVars, delta,
                       wordVars, foldVars, scopeVars>>

\* ListDelta's conditions on what was declared before.
DeltaFree(n) ==
    /\ list[n] # NoArg /\ ~members[n] /\ ~respell[n]
    /\ base[n] \in {NoDef, n}

\* The captures both templates refer to include the list argument.
ListDelta(n) ==
    \E refs \in SUBSET Args :
        /\ DeltaFree(n)
        /\ list[n] \in refs
        /\ delta' = [delta EXCEPT ![n] = refs]
        /\ UNCHANGED <<shapeVars, removalVars, slotVars, groupVars, list,
                       wordVars, foldVars, scopeVars>>

\* checkDomain: a declared domain expands under the separator.
DomainValid(d, s) == d # NoDomain => <<d, s>> \in Expanding

ListSep(n) ==
    \E s \in Seps :
        /\ list[n] # NoArg
        /\ DomainValid(domain[n], s)
        /\ sep' = [sep EXCEPT ![n] = s]
        /\ UNCHANGED <<shapeVars, removalVars, slotVars, groupVars, listVars,
                       words, domain, foldVars, scopeVars>>

\* w: whether an all or except word is among the words.
ListKeywords(n) ==
    \E w \in BOOLEAN, d \in Domains \cup {NoDomain} :
        /\ list[n] # NoArg
        /\ w => d # NoDomain
        /\ DomainValid(d, sep[n])
        /\ words' = [words EXCEPT ![n] = w]
        /\ domain' = [domain EXCEPT ![n] = d]
        /\ UNCHANGED <<shapeVars, removalVars, slotVars, groupVars, listVars,
                       sep, foldVars, scopeVars>>

\* A slot may continue itself: later instances are added to the first.
ListContinues(n) ==
    \E b \in Declared :
        /\ list[n] # NoArg /\ block[n] = "None"
        /\ list[b] # NoArg
        /\ b # n => base[b] = NoDef /\ delta[n] = {}
        /\ keys[b] = {} /\ keys[n] = {}
        /\ ~members[n] /\ ~respell[n] /\ ~respell[b]
        /\ base' = [base EXCEPT ![n] = b]
        /\ continued' = [continued EXCEPT ![b] = TRUE]
        /\ UNCHANGED <<shapeVars, removalVars, slotVars, groupVars, listVars,
                       wordVars, members, respell, scopeVars>>

Members(n) ==
    /\ list[n] # NoArg /\ block[n] = "None" /\ delta[n] = {}
    /\ keys[n] = {} /\ base[n] = NoDef /\ ~respell[n]
    /\ members' = [members EXCEPT ![n] = TRUE]
    /\ UNCHANGED <<shapeVars, removalVars, slotVars, groupVars, listVars,
                   wordVars, base, continued, respell, scopeVars>>

\* RespellAs' conditions on what was declared before.
RespellFree(n) ==
    /\ ~respell[n] /\ ~members[n] /\ delta[n] = {}
    /\ base[n] = NoDef /\ ~continued[n]
    /\ block[n] = "None" /\ ~children[n]

\* The header refers to a capture of the line.
RespellAs(n) ==
    /\ RespellFree(n) /\ Args # {}
    /\ respell' = [respell EXCEPT ![n] = TRUE]
    /\ UNCHANGED <<shapeVars, removalVars, slotVars, groupVars, listVars,
                   wordVars, base, continued, members, scopeVars>>

-----------------------------------------------------------------------------
(* Exclusive names.                                                        *)

ScopedBy(n) ==
    \E a \in Declared \ {n} :
        /\ ~device[n] /\ anchor[n] \in {NoDef, a}
        /\ anchor' = [anchor EXCEPT ![n] = a]
        /\ UNCHANGED <<shapeVars, removalVars, slotVars, groupVars, listVars,
                       wordVars, foldVars, device, space>>

DeviceFree(n) == anchor[n] = NoDef

ScopedByDevice(n) ==
    /\ DeviceFree(n)
    /\ device' = [device EXCEPT ![n] = TRUE]
    /\ UNCHANGED <<shapeVars, removalVars, slotVars, groupVars, listVars,
                   wordVars, foldVars, anchor, space>>

Namespace(n) ==
    \E label \in Spaces :
        /\ space[n] \in {NoSpace, label}
        /\ space' = [space EXCEPT ![n] = label]
        /\ UNCHANGED <<shapeVars, removalVars, slotVars, groupVars, listVars,
                       wordVars, foldVars, anchor, device>>

-----------------------------------------------------------------------------
Calls(m) == m \in package.methods

Call(n) ==
    \/ Calls("Child") /\ Child(n)
    \/ Calls("Block") /\ Block(n)
    \/ Calls("SectionExit") /\ SectionExit(n)
    \/ Calls("ClearOnRemove") /\ ClearOnRemove(n)
    \/ Calls("Protect") /\ Protect(n)
    \/ Calls("Negate") /\ Negate(n)
    \/ Calls("Card") /\ Card(n)
    \/ Calls("Key") /\ Key(n)
    \/ Calls("Merge") /\ SetMerge(n)
    \/ Calls("Toggles") /\ Toggles(n)
    \/ Calls("List") /\ List(n)
    \/ Calls("ListDelta") /\ ListDelta(n)
    \/ Calls("ListSep") /\ ListSep(n)
    \/ Calls("ListKeywords") /\ ListKeywords(n)
    \/ Calls("ListContinues") /\ ListContinues(n)
    \/ Calls("Members") /\ Members(n)
    \/ Calls("RespellAs") /\ RespellAs(n)
    \/ Calls("ScopedBy") /\ ScopedBy(n)
    \/ Calls("ScopedByDevice") /\ ScopedByDevice(n)
    \/ Calls("Namespace") /\ Namespace(n)

Next == (\E n \in Declared : Call(n)) /\ UNCHANGED package

Spec == Init /\ [][Next]_vars

-----------------------------------------------------------------------------
(* What holds of a definition whatever the order of the calls.             *)

\* A raw block has no children, list, rewrite or closing token, and is never
\* emptied instead of removed: setBlock and the methods that look at Block.
BlockStandsAlone ==
    \A n \in Defs : block[n] # "None" =>
        /\ ~children[n] /\ ~exit[n] /\ ~clear[n] /\ list[n] = NoArg
        /\ base[n] = NoDef /\ ~members[n] /\ ~respell[n]

\* A definition is removed in one way only: a section that is emptied is
\* neither protected nor negated by a form of its own, nor is it a list.
OneWayToRemove ==
    \A n \in Defs : clear[n] =>
        ~protected[n] /\ negate[n] = "NoPrefix" /\ list[n] = NoArg

\* At most one rewrite of Fold takes a line away, it takes only lines without
\* a key or delta forms, and no line with children; a continuation and its
\* base are lists, and neither is an alternate spelling.
OneRewritePerLine ==
    \A n \in Defs :
        /\ members[n] => list[n] # NoArg /\ base[n] = NoDef /\ ~respell[n]
        /\ respell[n] => ~continued[n] /\ base[n] = NoDef /\ ~children[n]
        /\ members[n] \/ respell[n] \/ base[n] \notin {NoDef, n} => delta[n] = {}
        /\ list[n] # NoArg => ~children[n]
        /\ base[n] # NoDef =>
            list[n] # NoArg /\ list[base[n]] # NoArg /\ continued[base[n]]

\* A keyed definition is no membership line, no continuation, no base of one
\* and no toggle member, and its list is not part of its key.
KeysStayOut ==
    \A n \in Defs : keys[n] # {} =>
        /\ ~members[n] /\ base[n] = NoDef /\ ~continued[n] /\ group[n] = {}
        /\ list[n] \notin keys[n]

\* Toggle groups are disjoint, their members single and unkeyed, they agree on
\* a canonical member other than the declaring side, and declare one merge
\* strategy between them.
GroupsPartition ==
    \A n \in Defs : group[n] # {} =>
        /\ n \in group[n] /\ card[n] = "ZeroToOne" /\ keys[n] = {}
        /\ canon[n] \in group[n]
        /\ \E m \in group[n] : m # n
        /\ \A m \in group[n] : group[m] = group[n] /\ canon[m] = canon[n]
        /\ AtMostOneMerge(group[n])

\* The domain of the all and except words expands under the separator, no
\* matter which was declared last.
WordsHaveDomain ==
    \A n \in Defs :
        /\ words[n] => domain[n] # NoDomain
        /\ domain[n] # NoDomain => <<domain[n], sep[n]>> \in Expanding

\* A name is scoped by an anchor or by the device, never by both, and no
\* definition is its own anchor.
OneScope == \A n \in Defs : anchor[n] # NoDef => ~device[n] /\ anchor[n] # n

\* What two methods both refuse stays refused in every order of the accepted
\* calls: the builder has no final check, so a pair holds only as long as each
\* of its methods looks at the other's field.  Two pairs are looked at from one
\* side only and are not among these: the base of a continuation that becomes a
\* continuation afterwards (NoChains), and ListDelta's templates when a later
\* List names another argument.
Exclusions ==
    /\ BlockStandsAlone
    /\ OneWayToRemove
    /\ OneRewritePerLine
    /\ KeysStayOut
    /\ WordsHaveDomain
    /\ OneScope

\* "Each mutual exclusion and prerequisite must hold in both builder call
\* orders", and ListContinues panics when "base is itself a continuation": no
\* accepted sequence of calls leaves a continuation whose base continues
\* another definition.
NoChains ==
    \A n \in Defs :
        base[n] \notin {NoDef, n} => base[base[n]] \in {NoDef, base[n]}
=============================================================================
