------------------------------ MODULE MCPlans ------------------------------
(***************************************************************************)
(* Slots, sections, references and exclusive names in one instance.  A     *)
(* running configuration of slots may hold what FragmentCheck refuses, and *)
(* some plans start or end at a configuration that CommitCheck refuses.    *)
(***************************************************************************)
EXTENDS Device, MCSlots, MCSections, MCReferences, MCNames

VlanRef == Ref("vlan", "vlans", "id")

Declared == <<
    \* MCSlots
    [kids |-> 2..10, keys |-> <<"port">>, kind |-> "port"],                 \* 1
    [card |-> "ZeroToOne", toggles |-> <<2, 3>>],                          \* 2
    [card |-> "ZeroToOne", toggles |-> <<2, 3>>, merge |-> "KeepLast"],    \* 3
    [card |-> "ZeroToOne", kind |-> "switchport"],                           \* 4
    [keys |-> <<"addr">>, kind |-> "subnet",
     rels |-> {Excluding("switchport"), Excluding("trunk")}],                \* 5
    [card |-> "ZeroToOne", kind |-> "mode", idem |-> TRUE],                  \* 6
    [card |-> "ZeroToOne", kind |-> "mode", tags |-> {"trunk"}],             \* 7
    [card |-> "ZeroToOne", idem |-> TRUE],                                   \* 8
    [card |-> "ZeroToOne"],                                                  \* 9
    [keys |-> <<"user">>, kind |-> "user"],                                  \* 10
    \* MCSections
    [card |-> "ZeroToOne", tags |-> {"routing"}],                            \* 11
    [kids |-> {13, 14}, card |-> "ZeroToOne", kind |-> "bgp",
     rels |-> {Requires("routing")}],                                        \* 12
    [keys |-> <<"peer">>],                                                   \* 13
    [card |-> "ZeroToOne", idem |-> TRUE, protected |-> TRUE],               \* 14
    [kids |-> {17}, keys |-> <<"vrf">>, kind |-> "vrf"],                     \* 15
    [kids |-> {17}, keys |-> <<"vrf">>, kind |-> "vrf", protected |-> TRUE], \* 16
    [keys |-> <<"user">>, kind |-> "user", tags |-> {"routing"}],            \* 17
    [kids |-> {19, 20}, card |-> "ZeroToOne", clear |-> TRUE],               \* 18
    [kids |-> {20}, keys |-> <<"bridge">>, clear |-> TRUE],                  \* 19
    [keys |-> <<"vlan">>, kind |-> "vlan", idem |-> TRUE],                   \* 20
    [keys |-> <<"host">>, kind |-> "host", clear |-> TRUE],                  \* 21
    [card |-> "ZeroToOne", toggles |-> <<22, 23>>],                          \* 22
    [kids |-> {14}, card |-> "ZeroToOne", toggles |-> <<22, 23>>],           \* 23
    [kids |-> {13}, keys |-> <<"area">>, idem |-> TRUE],                     \* 24
    [card |-> "ZeroToOne", toggles |-> <<25, 26>>],                          \* 25
    [card |-> "ZeroToOne", toggles |-> <<25, 26>>],                          \* 26
    \* MCReferences
    [keys |-> <<"id">>, kind |-> "vlan", idem |-> TRUE],                     \* 27
    [kids |-> {29}, keys |-> <<"acl">>, kind |-> "acl"],                      \* 28
    [keys |-> <<"seq">>],                                                    \* 29
    [kids |-> {31, 32}, keys |-> <<"port">>, kind |-> "port"],                 \* 30
    [card |-> "ZeroToOne", idem |-> TRUE, rels |-> {Ref("acl", "name", "acl")}], \* 31
    [card |-> "ZeroToOne", idem |-> TRUE, list |-> "vlans", delta |-> TRUE,
     rels |-> {VlanRef}],                                                    \* 32
    \* MCNames
    [kids |-> {34, 35, 36}, keys |-> <<"port">>, kind |-> "port"],             \* 33
    [keys |-> <<"addr">>, kind |-> "addr", device |-> TRUE],                 \* 34
    [keys |-> <<"unit">>, tags |-> {"unit"}, namespace |-> "unit",
     anchor |-> 33],                                                          \* 35
    [keys |-> <<"unit">>, tags |-> {"unit"}, namespace |-> "unit",
     anchor |-> 33, kind |-> "sub"],                                          \* 36
    [keys |-> <<"host">>, kind |-> "host", unique |-> <<"ip">>],             \* 37
    [keys |-> <<"prio">>, idem |-> TRUE, unique |-> <<"ids">>, list |-> "ids",
     kind |-> "prio"],                                                       \* 38
    \* MCReferences
    Plain,                                                                   \* 39
    [kids |-> {8}, keys |-> <<"port">>, rels |-> {Ref("tenant", "tenant", "id")}], \* 40
    [keys |-> <<"id">>, kind |-> "tenant", idem |-> TRUE]                    \* 41
    >>

PlanSchema == [d \in DOMAIN Declared |-> Declared[d] @@ Plain]

\* Slots may show what no configuration would say; no line of theirs claims a
\* name.
PlaceInputs ==
    {i \in SlotInputs : RelationsHold(i.intended, Empty) /\ FragmentClean(i.intended)}
        \cup LeafInputs \cup SectionInputs

Clean(C) == {c \in C : CommitClean(c, Empty)}

ResourceInputs ==
    SelfPairs({Clean(C) : C \in ReferenceScenarios \cup NameScenarios \cup {BgpConfigs}})
        \cup RotateInputs

HeaderInputs == SelfPairs({Clean(TenantConfigs)})

PlanInputs == PlaceInputs \cup ResourceInputs
=============================================================================
