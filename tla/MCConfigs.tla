----------------------------- MODULE MCConfigs -----------------------------
(***************************************************************************)
(* Building blocks for the instances: definitions and configurations.      *)
(***************************************************************************)
EXTENDS Integers, Sequences, SequencesExt, FiniteSets, TLC

\* A definition as schema.New().Root(...) leaves it.
Plain ==
    [kids |-> {}, adopted |-> FALSE, card |-> "ZeroToN", keys |-> <<>>, kind |-> "", tags |-> {},
     rels |-> {}, idem |-> FALSE, protected |-> FALSE, clear |-> FALSE,
     toggles |-> <<>>, list |-> "", delta |-> FALSE, unique |-> <<>>,
     namespace |-> "", anchor |-> 0, device |-> FALSE, merge |-> "Default"]

Ref(label, from, target) ==
    [type |-> "ref", label |-> label, from |-> from, target |-> target]
Requires(label) ==
    [type |-> "requires", label |-> label, from |-> "", target |-> ""]
Excluding(label) ==
    [type |-> "excludes", label |-> label, from |-> "", target |-> ""]

None == <<>>   \* no captured fields

BlockLine(d, f, b) == [def |-> d, f |-> f, block |-> b]
Cmdline(d, f) == BlockLine(d, f, <<>>)

\* A tree maps relative paths to lines; a configuration is a forest of them.
Forest(trees) ==
    [q \in UNION {{<<k>> \o p : p \in DOMAIN trees[k]} : k \in DOMAIN trees} |->
        trees[q[1]][Tail(q)]]
Section(l, trees) == (<<>> :> l) @@ Forest(trees)
Leaf(d, f) == <<>> :> Cmdline(d, f)
BlockLeaf(d, f, b) == <<>> :> BlockLine(d, f, b)

Empty == Forest(<<>>)

\* Every ordered choice of one alternative per position, laid end to end.
Ways(alternatives) ==
    LET Options == UNION {ToSet(alternatives[k]) : k \in DOMAIN alternatives}
        One == {f \in [DOMAIN alternatives -> Options] :
                    \A k \in DOMAIN alternatives : f[k] \in ToSet(alternatives[k])}
    IN  {FlattenSeq(f) : f \in One}

\* Every pair of configurations, with one baseline and one cycle policy.
PairsUnder(cycle, C, D, base) ==
    {[running |-> c, intended |-> d, baseline |-> base, cycle |-> cycle] : c \in C, d \in D}

Pairs(C, D, base) == PairsUnder("Abort", C, D, base)

\* Every pair of configurations of one scenario.
SelfPairs(scenarios) == UNION {Pairs(C, C, Empty) : C \in scenarios}
=============================================================================
