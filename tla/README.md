# Verification of confetti

confetti is a Go library that turns two configurations of a network device into
a list of commands that takes one to the other. A *schema* declares the command
grammar; *parse* and *fold* build configuration trees; *validate* checks them;
*merge* joins partial trees; *remediate* computes the difference, derives an
order among its operations and materializes them as a tree; *render* prints it.

This directory holds TLA+ models of the parts whose correctness depends on
order, bookkeeping and interplay, the TLC instances that check them, and
theorems checked by TLAPS about the scheduler, the difference and the device that
executes it, the schema builder, template matching, the parser and merge.

## 1. Inventory

| Part (under `src/`) | State | Operations | Hard because | What makes it correct |
|---|---|---|---|---|
| `graph/`, `remediate/schedule.go` | edges, in-degrees, emitted set, section of the last operation | `AddEdge`, `RemoveEdge`, `schedule`, `breakCycle`, `findCycle` | in-degrees are maintained by hand in two places; heuristics override keys; cycles are broken while scheduling | kept edges are respected, nothing is lost, only a cycle refuses or drops an edge, no panic, the loop ends |
| `remediate/collect.go`, `remediate.go`, `match.go`, `list.go` | pending operations with keys and sections | pairing, intents, removals, toggles, refusals | many special cases decide which commands appear; refusals drop one half of a change | executing the plan yields the intended configuration; protected lines survive |
| `remediate/derive.go` | edges | five derivations, baseline guard | the device must be legal after *every* command | no dangling reference, no doubly claimed name, no excluded pair, no missing prerequisite in between |
| `remediate/materialize.go`, `changes.go` | open section path | `materialize`, `changesFrom` | sections are reused between operations | each operation is executed in its section |
| `schema/schema.go` builders | definitions, toggle groups | `Child`, `Block`, `Key`, `List`, `Toggles`, ... | calls come in any order and nothing looks at the result; an exclusion must be tested by both methods it concerns | the exclusions survive every accepted order; two prerequisites do not (section 4) |
| `schema/match.go`, `orderedCandidates` | one cached order per lead definition, shared by goroutines | `MatchChild`, `MatchChildOpener` | candidate slices that share their first definition replace each other's entry | a call is answered as if it were alone, and returns |
| `internal/ident` | none | identity, scope, exclusive name | one identity is used by three packages | pairing agrees with what a device regards as one object |
| `validate/` | indexes of one pass | `ImportCheck`, `FragmentCheck`, `CommitCheck`, `BlockBodies` | order-independent global conditions | accepted configurations are those the engine may rely on |
| `merge/` | output tree, index of slots per level, origin of each line | `Merge`, resolvers | the output changes while it is the left-hand side of the next comparison; resolvers are caller code | no silent loss, one line per slot, right attribution, strategy precedence |
| `parse/scan.go`, `parse/parse.go` | stacks of sections and of nodes; open block | `Parse`, `BlockSpans` | parallel stacks; a block may be taken out of the tree again while its entry stays on the stack | indentation decides the parent, nothing vanishes unreported |
| `parse/fold.go` | level being rewritten | `Fold` | three passes rewrite a level while they walk over it | nothing lost or made up, a second fold does nothing |
| `internal/listval` | none | resolve, expand, compress, canonical form | numeric boundaries, keywords, spellings | agrees with the set of items |
| `confetti.go` engine | baseline, schema | `Import`, `CommitCheck`, `Remediate`, `Rollback`, `Compare`, `Merge` | where blocks are depends on the text that the rules change | rules never touch a block body |
| `render/` | none | `Render` | blocks run into their opener and delimiter | the rendering reads back as the same tree |
| `compare/`, `transform/`, `value/`, `internal/valcheck`, `diag/` | — | text in and out | — | — |

Interaction: the engine applies text rules, calls parse, fold and validate to
obtain trees, then `remediate.Diff` or `merge.Merge`. `Diff` is one call on one
goroutine: collect → baseline guard → five derivations (→ caller's OrderHooks)
→ schedule → materialize. Its *output* is executed step by step by a device, so
every prefix of the plan is a state someone observes; that is why the models
include a device. What goroutines share is a schema, and in it the cache of
candidate orders.

`PROJECT.json` lists the hazards, at their lines, with the properties that
address them.

## 2. Modules

```
PlanOrder              what a schedule promises            (abstract)
Schedule               remediate/schedule.go, graph/       implements PlanOrder
  ScheduleProofs                                           theorems
  MCSchedule                                               instance
Grammar                definitions, internal/ident, trees
  Validate             FragmentCheck, CommitCheck
    Remediate          remediate.Diff; runs Schedule's actions (INSTANCE)
      Device           a device executing the plan; the properties of Diff
        DeviceProofs   theorems
          PlanProofs   theorems that use DeviceProofs and ScheduleProofs
            TransitProofs  theorems about the device's contents
        MCPlans        MCReferences, MCNames, MCSlots, MCSections in one instance
  Merge                merge.Merge
    MergeProofs        theorems
    MCMerge            instance
MCConfigs              building blocks for these instances
Builder                the builder methods of schema.Def
  BuilderProofs        theorems
  MCBuilder            instance
Templates              which definition a line binds to    (pure)
  Matching             what a caller may rely on           (abstract)
    MatchCache         the shared cache, step by step      implements Matching
      MatchCacheProofs                                     theorems
      MCMatchCache                                         instance
  Scan                 the scanner of package parse
    Parse              parse.Parse
      ParseProofs                                          theorems
      Import           text rules outside blocks, BlockSpans
        RoundTrip      render.Render and a second import
          MCParse      instance
ListVal                internal/listval                    (pure)
  Fold                 parse.Fold
    MCFold             instance
```

**Schedule.** `ops` is the pending slice, 1-based; `edges` the graph; `indeg`
the array that `schedule` keeps; `out` the output slice; `walk` the walk of
`findCycle`. One action per loop iteration or call: `Emit(i)` (the scan for the
best ready operation with the in-degree updates after it), `Stall`,
`ExtendWalk`, `AbortOnCycle`, `BreakOnCycle`, `Finish`. `derived` is a history
variable: the edges before any was dropped. A key is the concatenation of the
code's level triples, which has the same order because each level has exactly
three components; the third of a removal is negated as in the code.

**Grammar.** A schema is the sequence of its definitions in `Walk` order, so a
definition's number is its declaration rank. Configurations map paths of child
positions to lines `[def, f, block]`. The text of a line is determined by its
definition and fields, so texts are equal exactly when these are. A list
argument is the sequence of elements that `listval.Resolve` yields; one that
does not resolve contains `"?"`. A template captures the same fields on every
line that it matches (`SameCaptures`, assumed of the inputs of Diff and Merge). `SchemaAssumption` states what the builders
enforce by panics (proved of them in `BuilderProofs` where two calls interact)
and what `ValidateRelations` reports; TLC evaluates it for every instance.

**Remediate.** The recursion of `collect` and `expandRemove` is the worklist
`todo`, kept in the order in which the calls append operations. A level
is processed in the stages of the code: `PairLevel` finds counterparts,
`FindRemoves` says how each pair is realised and what nothing keeps,
`DropToggles` takes out flips and checks split slots. Then one action per
intent or removal:
`AddLine`, `ModifyLine`, `DeltaLine`, `ReplaceLine`, `EnterSection`,
`RefuseIntent`, `ExpandRemoval`, `RefuseExpansion`, `RefuseDelete`,
`RemoveLine`. Then the guard, one action per derivation, `CountIndegrees`,
Schedule's own actions, and `Materialize` per operation. An Error is recorded by
its kind. An operation carries commands (`put` a subtree, `set` a line, `no` a
line, edit a list) that stand for the nodes `op.pre` and `op.node`.

**Device** is not in the repository: a set of entries (slot path and line), and
what a command does to it. It embodies what the source assumes of platforms: a
line displaces the occupant of its single slot and its toggle partners, a
negation takes what is below with it, opening an absent section creates it. A
negation may act on the slot or only on the exact line; the model allows either
at every command, so a property holds on platforms of both kinds.

**Merge.** One action per way the next part line can be folded; the recursion
is again a worklist. The call of a resolver on a contested slot is a step of its
own, `Resolve`, which leaves the answer in `slot` and `answer`. The resolvers are `Declared`, `Refuse`, and `Custom`,
which answers *any* permitted combination of line and outcome, including fresh
lines that are unsound in the ways `freshNodeValid` tests.

**Builder.** One variable per field of `schema.Def` that a guard reads, one
action per method, the panics as guards. A state is what some accepted order of
calls leaves behind. A package is a set of definitions and the methods it
calls. Methods that change nothing a guard reads (`Kind`, `Tag`,
`MarkIdempotent`) and relations are left out.

**Templates, Matching, MatchCache.** A template is what it does to lines: its
literal length, the lines it matches, the prefix up to the delimiter of a line
it opens a block with. `Matching` answers a call in one step.
`MatchCache` takes a step per atomic access to the cache and per turn of the
outer loop, for any number of callers: `LoadHit`, `LoadMiss`, `Store`, `Match`,
`WalkOpener`, `WalkExact`, `WalkPast`, `MatchNested`, `WalkEnd`. A store
replaces the whole entry, as the atomic pointer does.

**Scan, Parse, Import, RoundTrip.** A raw line is an indentation and words, with
delimiters as words. `sc` is the scanner (stack of sections, open block), which
`Parse` and the two `BlockSpans` walks share as code and own as state. Parse has
one action per kind of line and one for the end of the text; `nodes` is the
parser's stack beside the scanner's, `Nil` for an unknown or dropped line.
`Import` runs the three walks of `applyTextOutsideBlocks` side by side and
parses the mixture. `RoundTrip` renders the finished tree and imports the
rendering.

**ListVal, Fold.** A list value is a keyword or tokens of items; an item is a
number and its spelling. `Fold` keeps the tree (`cfg`, `kids`) and the worklist
of levels; a level goes through `foldRespell`, `foldContinuation` and `foldOne`
over the lines it has when the pass starts. One action per outcome, refusals and
malformed lists included. After the fold the tree is folded once more, so that
the second fold can be compared with the first.

Definitions marked "Seeded fault" are plausible bugs in the definition that
follows them. They are not used by any specification; substituting one for the
definition it precedes makes the property named in `PROJECT.json` fail, which
shows that the property depends on that piece of code.

## 3. Runs

| Run | Question | Instance |
|---|---|---|
| Schedule | Are schedules right, is every refusal and every broken edge justified, do they implement PlanOrder? | all graphs over ≤3 of 6 operations in three sections, and over 2 collections of 4; both policies |
| Plans | Does every plan converge without emptying a slot on the way? No dangling reference, doubly claimed name, broken exclusion or prerequisite after any command, everything protected or provided still there, every operation in its section, every diff ended? | all pairs of consistent configurations of VLANs, ACLs and ports, of addresses, hosts, units and lists of members; all reassignments of 3 names to 3 hosts; all pairs for one port with several running spellings, and in six families of sections with a baseline |
| Merge | Is anything lost silently, misattributed or decided by the wrong strategy? Can any resolver break the tree? | all triples of parts in six families under Declared and Refuse, all pairs in three families under an arbitrary resolver |
| Builder | Do the exclusions that both methods of a pair test survive every order of the calls? | three vocabularies of methods: 12 over two definitions, 4 over three, 6 over two |
| MatchCache | Is a call answered as if it were alone, and does it return? | 2 goroutines, any number of calls, 3 slices that share their first definition, 5 lines, 2 of which open a block |
| Parse | Does indentation alone decide, does nothing vanish, does a rendering read back, are bodies verbatim? | all texts of ≤5 lines (≤4 of the mixed ones) over four vocabularies of 7 to 11 lines and of ≤6 lines over one in which noise is a delimiter, imported, rendered and imported again |
| Fold | Is a line's meaning ever lost or made up, and is a folded tree a fixed point? | all texts of ≤4 lines over four vocabularies of 8 to 11 lines |
| PlansHeader, PlansFlip, PlansRespell, MergeBlock, BuilderChain | Findings, see below | small; BuilderChain needs three lists and two calls of ListContinues |

The bounds. A cycle of the scheduler needs two operations, a cycle with an
innocent bystander three, a choice between affinity and key after a cycle four;
the graphs are exhausted at three, where every pattern of findCycle (entering a
cycle from a tail, breaking one of two edges, several breaks in a row) occurs.
The configurations have two or three objects of each kind because every hazard
listed is between a releaser and a claimer, a definer and a referrer, or the
occupants of one slot, with one unrelated line around to be reordered. Merge
uses three parts because attribution and strategy go wrong only when a third
meets the result of two. Builder exclusions are between two calls on one
definition or on a definition and one it names; toggle groups need a third
member to overlap. Two goroutines suffice to replace each other's entry between
a load and a store, and the proofs cover any number. Five lines make a section,
a nested section, a block that opens, runs and closes, and a line after it. Four
lines of a level make a base, two continuations and a member that is already
there. `MaxRange`, 65536 in the code, is 8 in the instance of Fold, with a range
just above it.

*Inputs.* Inputs are what the API accepts. Properties about the device state
which inputs they promise something for: `CleanEnds` (both configurations pass
CommitCheck), `SoundPlan` (no Error, no edge dropped).
Plans also contains inputs that violate these, so the code's behaviour on
them is explored, and `Converges`, `ProtectedStays` and `InItsSection` speak of
them.

*Symmetry* is used in Builder only, over definitions that start alike and are
never compared. Elsewhere keys and ranks are compared, so the values are not
interchangeable.

*Deadlock* is checked in Schedule, Plans, Merge and MatchCache,
whose final states stutter explicitly or do not exist. Builder, Parse and Fold
stop when there is nothing left to call, read or fold.

*Fairness.* Weak fairness of the next-state relation of Diff: it is a loop on
one goroutine that never blocks. The device is not assumed to execute
anything. In MatchCache, weak fairness of each caller's own steps, which is what
Go's preemptive scheduler gives a goroutine that is never blocked; no caller has
to start a call. No action is preferred over another. Merge, Parse and Fold have
no liveness property: their worklists shrink in the obvious way.

## 4. What the runs show

Everything in section 3 holds except for five disagreements:

1. **PlansHeader** — plans put "definitions before references on addition"
   (`README.md:13`) and "the header change first" (`remediate/collect.go:193`), but
   no edge ties the Modify of a section header to the operations in the section.
   When a ref edge holds the Modify back, a child operation comes first, and
   `materializeInto` opens the section under the intended header
   (`remediate/materialize.go:24`), which references what is not there yet.
   `RefsHold` leaves out plans that retarget a header (`HeaderRetargets`);
   `DefinitionsFirst`, which does not, fails.
2. **PlansFlip** — a toggle partner's removal is kept "because the flip would
   delete" a protected descendant (`remediate/remediate.go:139`); it is then
   refused, but the Add that performs the flip is emitted anyway.
3. **PlansRespell** — "Diff reports an Error when separate Add and Remove
   operations target the same definition" (`docs/design.md:229`), but
   `checkSplitSingles` skips every removal whose definition is in the
   `ToggleGroup` of the added one (`remediate/collect.go:286`), and a definition
   is in its own group. When a toggle member takes another argument, an Add and a
   Remove of one definition are planned without an Error; executed in that order
   they leave the slot empty. The proof of `TidyPlansConverge` did not go
   through without excluding this (`Respells`), which is how it was found.
4. **MergeBlock** — `combine` compares texts where a value is text *and* block, so
   keeping the earlier of two block values drops the other without a Warning
   (`merge/merge.go:240`, `docs/design.md:125`).
5. **BuilderChain** — "each mutual exclusion and prerequisite must hold in both
   builder call orders" (`docs/design.md:136`). `b.ListContinues(c)` followed by
   `a.ListContinues(b)` panics with "ListContinues base is itself a
   continuation" (`schema/schema.go:834`), but `a.ListContinues(b)` followed by
   `b.ListContinues(c)` is accepted: nothing asks whether a definition that
   becomes a continuation is already a base. `NoChains` fails; `Exclusions` is
   about the pairs that both methods test. Fold does not follow a chain, and
   `FoldAssumption` excludes it. The prerequisite of `ListDelta`, that its templates
   name the list argument (`schema/schema.go:769`), has the same gap:
   `List` of one argument, `ListDelta`, then `List` of another is accepted, and the
   model reaches that state too.

One more divergence has no run of its own because a property says exactly where
it ends. "Text transforms never run inside block spans" (`docs/design.md:384`), but
the text that Parse reads is a mixture of the source and the transformed text, in
which it can find a block that neither `BlockSpans` walk saw (`confetti.go:148`).
It takes a rule that drops lines with a delimiter in them. An example is a router
whose rules drop lines that begin with `!`: in

    !
     banner !
    !
     banner !
    !

the first line is unknown to the raw walk, which hides the first banner from it,
and is gone in the other walk, so the two disagree about every later banner; the
rules drop the last line although Parse has it in a block, which then runs on.
`BlocksAreVerbatim` has these texts in its run and excepts them by
`DelimiterDropped`: a rule has changed a line that contains the delimiter of
a banner in the text. Without the exception it fails on the text above.

Limits worth knowing, none of them promised otherwise by the source:

- A definer that moves to another section is removed and added by two
  operations, and a referrer that does not change has no operation to order
  against them (`MovedResource`, which `RefsHold` exempts).
- A line that stays and changes its `Unique` argument releases a name without a
  move edge: `deriveMoveEdges` (`remediate/derive.go:401`) sees only lines that are
  added or removed. Another line may claim the name first; `NamesHold` leaves such
  plans out (`RenamesInPlace`).
- A prerequisite that moves to another section counts as surviving
  (`remediate/derive.go:491` compares definition and key only), so no edge keeps
  it from being absent for a while; `RequiresHold` is checked on prerequisites
  that stay in their section.
- A strategy declared on one member of a toggle group decides only contests in
  which that member takes part: `declaredStrategy` asks the two definitions that
  meet (`merge/merge.go:301`). Between the others of a group of three, or two
  values of one of them, the caller's policy decides, so the outcome may depend
  on the order of the parts. `StrategyDecides` therefore asks that a strategy is
  declared between the deciding line and each of the others.
- A full line that its definition allows more than once, written twice in one
  section, passes `FragmentCheck`, but `Diff` pairs by identity and reports the
  second as a duplicate spelling (`remediate/collect.go:72`), also against an
  equal configuration. `EqualIsEmpty` therefore asks that no two lines of a
  section are one object to `Diff` (`SpelledOnce`), and that lists expand.
- A list that combines several lines may be written as one range of more items
  than `Expand` accepts; the next import then reports it. `FixedPoint` speaks of
  trees that import without an Error.

## 5. What is proved

Everything in this section holds for every value of the constants that satisfies
the named assumptions. TLC evaluates each assumption in a run.

**ScheduleProofs**: any number of operations, any keys and sections, every graph,
both policies. Assumptions: `PoliciesAssumption` (a policy is one of two) and
`LayoutsAssumption` (`Laid`: a layout is a finite sequence of operations with
finite section paths); `DeclarationOrder` also needs `KeysAssumption`.

| Theorem | Property |
|---|---|
| `TypeCorrect` | `TypeOK` |
| `IndegreesExact` | `IndegCounts`: the maintained in-degree is the number of predecessors not emitted |
| `FindCycleSound` | `WalkIsSound`: `pred[cur][0]` exists, the walk runs along kept edges |
| `OrderRespected` | `Topological` |
| `StallJustified` | `StallMeansCycle` |
| `Refinement` | `OrderSpec`: Schedule implements PlanOrder |
| `LeftOnlyForEdge` | `SectionLeftOnlyForEdge` |
| `DeclarationOrder` | `DeclarationOrderKept` |

The loop ends on a count, `len(out) < n`. That the count is reached only when
every operation has been emitted is `CountIsAll`, from the bound that `Topological`
puts on `out` (nothing is emitted twice); `NextAllEmitted` carries it to
PlanProofs, and that the loop gets there at all is `Terminates`, which the runs
check.

None of the first four is inductive alone. `Topological` needs to
know that an operation with in-degree 0 has no predecessor left, which is
`IndegCounts`; `IndegCounts` is preserved by `BreakOnCycle` only if the dropped
edge really is an edge between operations not yet emitted, which is
`WalkIsSound`; and `WalkIsSound` is preserved by `ExtendWalk` because a stalled
operation has a positive in-degree, hence a predecessor, and one that is itself
stalled because nothing is ready. `StallMeansCycle` follows with the set of all
waiting operations as witness. `IInv` is their conjunction; one lemma per action
shows that it is preserved. `Refinement` maps `out` to the plan and the walk to
stuttering, and shows that the edge dropped by `BreakOnCycle` lies on a ring of
pending operations: the reversed tail of the walk.

`SectionLeftOnlyForEdge` is about two operations of the finished order; it is no invariant of a
step because the second has not been placed when the section is left. `SInv`
therefore says it of every operation that is not yet placed: one that shares
more of the open section than the operation chosen was not ready, hence held
back by an edge from one that was not placed either. That uses the optimality of
the chosen operation and `IndegCounts`.

`DeclarationOrderKept`: when no edge goes against the keys, a plan comes in the
order of the keys, whatever affinity prefers. `KeysAssumption` says `KeysFit` of
every layout: keys are distinct, and of three operations in the order of their
keys the third never shares more sections with the first than the second does,
so the operations of a section are contiguous in key order. (PlanProofs shows
that the plans of `Diff` satisfy it.) The waiting operation with the least key
has no predecessor left (an edge runs from a smaller key to a larger one), so it
is always ready, no cycle is ever looked for, and no other operation shares more
of the open section than it does. `KInv` says that what has been emitted is in
order and before everything that has not.

**BuilderProofs**: any number of definitions, captures, separators and domains,
any sequence of calls. Assumption: `BuilderAssumption`. `ExclusionsKept` proves
`Exclusions`, whose parts have theorems of their own (`BlocksAlone`,
`RemovalIsSingle`, `RewriteIsSingle`, `KeyedStayOut`, `DomainsExpand`,
`ScopeIsSingle`), and `TogglesPartition` proves `GroupsPartition`: toggle groups
are disjoint, their members agree on the canonical one and on what they share.
The invariant is the conjunction of all of these. The step that needs thought is
`Toggles`, which writes the fields of all members at once: an overlap with an
earlier group would leave members that disagree.

**MatchCacheProofs**: any grammar, any candidate slices, any
number of callers. Assumptions: `TemplateAssumption`, `CallAssumption`,
`MemoAssumption`. `OrderIsOwn` proves `OwnOrder`; it needs `EntriesSound`: an
entry holds the order of the slice it names, whoever stored it. `Refinement`
proves `MatchSpec`: the concurrent, cached matching implements `Matching`.
`Rank` is shown to be a bijection between the positions of a slice and the
positions of its sorted copy (strictly monotone along `Precedes`, onto by
counting), so the first hit in sorted order is the most specific candidate;
`Walked` says that nothing the walk has left behind takes the line.

**ParseProofs**: any grammar and text. Assumptions: `TemplateAssumption`,
`ScanAssumption`, `BlockAssumption`, `ParseAssumption`. `StacksInStep` proves
`StacksAgree`, `BlockOnTop` proves `OpenBlockIsTop`. The induction also needs
that the nodes on the stack are in the order of their lines (`Ordered`), so that
dropping a block's node takes no other entry away, and that the open block's
node is still in the tree (`BlockInTree`). One lemma per kind of line.

`IndentationDecides` proves `IndentDecides` of it. The property speaks of all lines read, the parser keeps only its stacks; the invariant
`SectionsOpen` joins the two: at every indentation a next line may have, the
topmost stack entry that encloses it carries the children of the last command
that is indented less, and is its node unless that line was unknown or dropped.
Pushing a line answers every deeper indentation with the new line and leaves the
others as they were; dropping a block's node changes nothing because nothing is
declared below a block (`BlockAssumption`).

`NoLineIsLost` proves `NoLineLost`. The property
speaks of a text that has been read to its end and finds the opener of a raw
line by looking back; the invariant `LInv` says of every raw line read so far
that it is in the block still open, which holds all lines since its opener in
their places (`OpenText`), or that its opener has the line in its body or is
named by an Error. When the end is read, the interesting case is a delimited
block whose delimiter never came: its node is dropped and reported, and the
node that goes is the one the raw lines belong to because `OpenBlockIsTop`
holds.

**MergeProofs**: any schema, any number of parts of any size, every policy, any
answers of a caller's resolver. Assumptions: `SchemaAssumption` and
`MergeAssumption` (each part is a configuration; lines of one definition capture
the same fields in every part; the policy is one of three). `OriginNamesSource`
and `NothingLostSilently` are about merges that only declared strategies decide
(`Declarative`), because a caller's function may drop what it likes.
`StrategyDecides` asks only that no caller's resolver replaces the strategies: a
MergeFunc may decide other slots.

| Theorem | Property |
|---|---|
| `OutputIsWellFormed` | `ChildrenBelong` |
| `OutputHasOneLinePerSlot` | `OneLinePerSlot` |
| `OriginIsTrue` | `OriginNamesSource` |
| `NothingIsLostSilently` | `NothingLostSilently` |
| `AgreementStaysSilent` | `AgreementIsSilent` |
| `StrategiesDecide` | `StrategyDecides` |

`SInv` is what every step needs: the output is a configuration (`Closed`,
`Dense`: no line without those around it, children numbered without a gap), the
section that an item joins is still there, has the definition of the section
that the folded line is in and stands in the same slots (`ItemOK`), and an item
that comes later joins the same level or one around it (`TodoOK`). The last
part is why a clone never removes a level that something still waits to join:
what a step replaces is below the level of the first item, which is where all
other items are at or above. `SlotsInv` says of merge slots what
`OneLinePerSlot` says of objects; it is stronger and inductive, since a clone
comes from a part that has it and an edit keeps the slot (`freshNodeValid`).
`OriginInv` says that the part named by `origin` has the output line's whole
path. `LossInv` needs more than the property: a line that is held must be held
together with every line around it, because a later step may replace a section
and takes everything below along; then it is the section that a diagnostic
names. Lists make it delicate: a union carries both lists, so what a line
carries must be transitive (`Carries`), and a line that is replaced must be
named with the text that carried the earlier ones.

The last two theorems are about when a line is folded. Items come part by part
and none is below another (`InOrder`), so a line that is folded waits no more and
the first part with something left is the one being folded (`Passed`).
`AgreeInv` says that every output line copies a line that waits no more and that
a line which waits no more has its slot in the output: a line that meets an
output line then meets the line of *another* part, whose value is the same by
assumption, and no resolver is ever asked. `DecisionInv` has two halves. Every
top-level line has a source among the lines that wait no more, with its
definition where no MergeFunc decides (`RootsSourced`); together with `Passed`
this says which part the strategy is asked about when the owner of a slot
arrives, although the output line may by then be a union of several. And the
stanza of an owner, once folded, is in the output with nothing waiting to join
it (`OwnersHold`): later lines that claim the slot find `KeepFirst`, and a step
anywhere else changes no line below it (`OwnerAside`).

**DeviceProofs**: any schema, any configurations and baseline, both policies, any
device. Assumptions: `SchemaAssumption`, `RanksAssumption` (definitions are
numbered by `Walk`), `InputsAssumption` (inputs are configurations and a policy).

`PipelineTyped` proves the invariant of the whole pipeline, from the worklist of
`collect` to the device's session: the worklist names lines of the two trees,
every operation's sections are such lines, every artifact entry closes and opens
exactly the difference to the entry before it, and the session's open sections
are those of the last executed entry. `OperationsInTheirSection` proves
`InItsSection` from it: whatever the schedule, reusing the sections shared with
the operation before never leaves the session elsewhere.

`NothingFoundBetweenEqualConfigurations` proves `EqualIsEmpty`. The property
speaks of the end, the invariant `QuietInv` of the worklist: between alike
configurations every call still to be made compares sections in the same slot
(`Quiet`). What carries it is that alike configurations have *twins*: the line
in the same slot of the other tree is there, is equal but for the spelling of
lists, and has the same identity; and a line with that identity on the same level is that
line, because no two lines of a level are one object. So every line of the
intended level finds its twin, no line of the running level is left over, no
pair needs a command, and what is pushed are the sections, paired with their
twins. Over trees of any depth this rests on the worklist: the induction is over
steps, not over the tree.

**PlanProofs**: under the same assumptions, what a plan of `Diff` owes to the
graph and to the keys that `Diff` itself builds. ScheduleProofs speaks of any
graph and of layouts that fit their keys; here both are those of `Diff`.

| Theorem | What it says of `Diff` |
|---|---|
| `PlanIsScheduled` | the scheduler runs on exactly the edges of the five derivations |
| `EveryOperationOnce` | a plan has every collected operation, each once |
| `DerivedOrderExecuted` | no operation before one that a derivation puts first, unless a cycle was broken |
| `RefusedOnlyForCycle` | a plan is refused only when operations all wait for one another |
| `PlanFollowsKeys` | the keys of the plan satisfy `KeysFit` |
| `SectionsReopenedForEdges` | a section left with work to do is reopened only because of an edge |
| `ExecutedInKeyOrder` | without edges against the keys the plan comes in key order |
| `NoSectionOpenedTwice` | and then no section is opened twice |

`GraphInv` follows the edges from one derivation to the next and hands them to
the scheduler, whose invariant then holds because a step of `Diff` in the
scheduling phase is a step of `Schedule` (`SchedulerSteps`). The keys are the
longer argument. A call of the worklist and an operation of the plan have a
*place*, the sections around it with its own line, and a key with one triple for
each of them. Two places `Fit` when they share exactly the sections whose triples
their keys share. `PlacesInv` says that any two places fit, that no waiting call
is around another, that no two operations have one place, and that a waiting
call is around an operation only as the inside of the section whose header the
operation reissues. It is preserved because a level is split into calls for
different lines with different triples (`LevelSplits`), which rests on the
pairing of a level naming every line once (`LevelsInv`). A call that replaces
the head of the worklist lies inside it, and what lies inside a place fits
whatever the place fits (`WithinFits`): no two other calls need to be compared.
From places that fit, `KeyBetween` gives that an operation whose key is between
two others shares with the first every section that they share, which is
`KeysFit`.

**TransitProofs**: under the same assumptions, what is on the device while a
plan of `Diff` is executed and when it is over.

| Theorem | What it says of `Diff` and the device |
|---|---|
| `EveryDifferencePlannedOnce` | no difference is left out, none is the business of two operations |
| `TidyPlansConverge` | `Converges` |
| `SlotsStayFilled` | `NoSlotLost`: a slot that is filled at both ends is never empty, and nothing is on the device that neither end has |
| `DeviceFollowsPlan` | the invariant that the other three follow from |

They hold for *tidy* configurations (`Tidy`): no two lines of a level are one
object to `Diff`, duplicates to FragmentCheck, or in each other's place on the
device, in either configuration; and no toggle member takes another text
(`Respells`, finding 3). Without the last the theorem is false. Without
the first, a Kind slot may show several running spellings and a toggle group
several members; then removals of stale spellings are ordered by cleanup edges
only, and `Converges` is left to the run Plans, which contains such inputs: 3266
of its 3552 pairs of configurations are tidy. Errors may be refusals, so a plan with Errors
promises nothing.

Lines are compared by *slot paths*, the identities of a line and of the sections
around it. In tidy configurations a path leads to one line of each side
(`PathOne`), and lines that push each other out have one path or are toggle
partners (`OustsByPath`, `NoOust`). Every call of the worklist and every
operation owns a set of paths, its *land*: a level owns what is below it, an
intent or a removal its line and everything below, an Add also the partner that
it flips, a reissued header only itself.

`CollectInv` says of the worklist and the operations collected so far that their
lands are disjoint, that each is what its action says it is (`CallOK`, `OpOK`:
an Add writes a path the running side lacks, below sections both sides have; a
Remove negates a line whose path is not wanted), and that every line of either
side is *settled*, in the land of a waiting call or in that of an operation
(`Covered`). An action replaces the head of the worklist by calls and operations
whose lands are disjoint parts of the head's and cover what it covered
(`Replaces`), so only the head has to be looked at. The exception is a refusal:
it leaves a difference to nobody, but it also reports an Error, and Errors are
never withdrawn (`Fine`).

`DeviceInv` says of the operations executed so far that what they write is on the
device and what they clear is not (`Rest`), and of everything else that it is
as before. What makes it hold in *any* order is that an operation disturbs only
its land (`Reads`, `Written`): a command displaces lines of its own path, those
below it and a flipped partner, and all of these are its own. Opening a section
rewrites its header with the text that is there. The delta of a list is the one
operation of several commands on one line: after each of them the line carries
the elements removed and added so far (`DeltaRuns`), whether its negation acts
on the slot or on the exact line. At the end every operation has been executed,
each once (`EveryOperationOnce`), so `Covered` leaves only settled lines and
`ClearOnRemove` headers.

Only model-checked:

- liveness (`Terminates`, `EveryCallReturns`): the prover has no rules for
  fairness;
- of the device, `Converges` where configurations are not tidy, and what the
  derivations are for: `NamesHold`, `ExclusionsHold`, `RefsHold`, `RequiresHold`.
  The last two are not true of all schemas: `survivingLabels` takes a
  prerequisite elsewhere for one that stays, and the definer index keeps one
  operation per resource (section 4). They are checked where neither occurs;
- `ProtectedStays` (finding 2 refutes it in general) and `ProvidedStays`;
- of import and rendering, `BlocksAreVerbatim`, which depends on the rules
  (section 4), and `ReadsBack`, whose
  rendering of a tree needs an induction over data;
- all of Fold, for the same reason: `Expand` and `Compress` fold over sequences.

## 6. Not modelled

- Text: how a template is compiled to a regular expression, wording of
  diagnostics, Warnings (except in Merge, Parse and Fold, where a diagnostic is
  what a property is about), tabs and spaces next to a delimiter.
- Lines without a definition, which pair by their text only and which Fold steps
  over.
- OrderHooks: caller code that may add any edge. Schedule covers them, since it
  starts from an arbitrary graph; Remediate has none.
- The early returns of `Diff` and `Merge` for trees of different schemas.
- Required definitions (`Cardinality` One as a requirement), value types and
  block bodies in validate.
- `listval.Parts` and the interval form of validation (`Intervals`,
  `Intersects`); a list element spelled like a keyword of its own list.
- Keyed alternate spellings and chains of continuations in Fold.
- Tree transforms: caller code between parse and fold.
- `compare`: the text of a difference, grouped by section.
- The engine beyond `Import`: it calls the modelled parts one after another.
- `value`, `internal/valcheck`, `diag`: checks of a single capture and an
  append-only log; no state that a step could leave wrong.

## 7. Plan

What would add most from here, in this order:

1. `Engine`: which checks gate Import, CommitCheck, Remediate and Rollback, and
   that a rollback plan undoes a plan.
2. Validation's interval form of lists against the expanded one of `ListVal`.
3. `Compare`: grouping.
4. Proofs: the derivations of exclusions and of names put an edge between every
   pair of operations that the device must not see in the other order, from which
   `ExclusionsHold` and `NamesHold` would follow for tidy configurations when no
   cycle is broken.
