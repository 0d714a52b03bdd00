------------------------------ MODULE MCMerge ------------------------------
(***************************************************************************)
(* Parts for Merge: sections with a changing header, a toggle of sections, *)
(* toggled leaves, two and three in a group, with a strategy on one, lists,*)
(* strategies on whole sections, a line of a section and the root, two   *)
(* kinds of keyed line that are one object, and certificates whose value   *)
(* is a block.                                                             *)
(***************************************************************************)
EXTENDS Merge, MCConfigs

MergeSchema == <<
    [kids |-> {2, 3, 4}, keys |-> <<"port">>, kind |-> "port"] @@ Plain,           \* 1
    [card |-> "ZeroToOne", idem |-> TRUE] @@ Plain,                                \* 2
    [card |-> "ZeroToOne", toggles |-> <<3, 4>>] @@ Plain,                         \* 3
    [card |-> "ZeroToOne", toggles |-> <<3, 4>>, merge |-> "KeepFirst"] @@ Plain,  \* 4
    [card |-> "ZeroToOne", idem |-> TRUE, list |-> "ids"] @@ Plain,                \* 5
    [kids |-> {7}, card |-> "ZeroToOne", idem |-> TRUE, merge |-> "KeepLast"]
        @@ Plain,                                                                  \* 6
    [adopted |-> TRUE, keys |-> <<"host">>, idem |-> TRUE] @@ Plain,               \* 7
    [kids |-> {9}, card |-> "ZeroToOne", toggles |-> <<8, 10>>] @@ Plain,          \* 8
    [card |-> "ZeroToOne", idem |-> TRUE] @@ Plain,                                \* 9
    [kids |-> {11}, card |-> "ZeroToOne", toggles |-> <<8, 10>>] @@ Plain,         \* 10
    [card |-> "ZeroToOne", idem |-> TRUE] @@ Plain,                                \* 11
    [card |-> "ZeroToOne", idem |-> TRUE, merge |-> "Custom"] @@ Plain,            \* 12
    [card |-> "ZeroToOne", toggles |-> <<13, 14, 15>>] @@ Plain,                   \* 13
    [card |-> "ZeroToOne", toggles |-> <<13, 14, 15>>, merge |-> "KeepFirst"] @@ Plain, \* 14
    [card |-> "ZeroToOne", toggles |-> <<13, 14, 15>>] @@ Plain                    \* 15
    >>

Port(m, trees) == Section(Cmdline(1, [port |-> "p", mode |-> m]), trees)
Mtu(v) == Leaf(2, [mtu |-> v])
Up == Leaf(3, None)
Down == Leaf(4, None)
Ids(v) == Leaf(5, [ids |-> v])
Logging(v, trees) == Section(Cmdline(6, [level |-> v]), trees)
Host(h, v) == Leaf(7, [host |-> h, port |-> v])
Routed(trees) == Section(Cmdline(8, None), trees)
Switched(trees) == Section(Cmdline(10, None), trees)
Area(v) == Leaf(9, [area |-> v])
Vlan(v) == Leaf(11, [vlan |-> v])
Cert(b) == BlockLeaf(12, [name |-> "a"], b)
Other(b) == BlockLeaf(12, [name |-> "b"], b)
On == Leaf(13, None)
Off == Leaf(14, None)
Auto == Leaf(15, None)

Parts(ways) == {Forest(s) : s \in ways}
Triples(C) == {<<c, d, e>> : c, d, e \in C}

PortParts == Parts({<<>>} \cup Ways(<<
    << <<Port("a", <<>>)>>, <<Port("a", <<Mtu("1")>>)>>,
       <<Port("b", <<Mtu("2"), Up>>)>>, <<Port("a", <<Down, Mtu("1")>>)>> >> >>))

ListParts == Parts({<<>>, <<Ids(<<"1">>)>>, <<Ids(<<"2">>)>>, <<Ids(<<"2", "1">>)>>,
                    <<Ids(<<>>)>>, <<Ids(<<"?">>)>>})

StanzaParts == Parts({<<>>, <<Logging("x", <<>>)>>, <<Logging("x", <<Host("h", "1")>>)>>,
                      <<Host("h", "2"), Logging("x", <<>>)>>,
                      <<Logging("y", <<Host("h", "2"), Host("i", "1")>>)>>})

SwitchParts == Parts({<<>>, <<On>>, <<Off>>, <<Auto>>})

ToggleParts == Parts({<<>>, <<Routed(<<Area("1")>>)>>, <<Routed(<<Area("2")>>)>>,
                      <<Switched(<<Vlan("1")>>)>>})

\* The same lines in another order, and a slot that one part fills twice.
OddParts == Parts({<<Ids(<<"1">>), Port("a", <<Mtu("1"), Up>>)>>,
                   <<Port("a", <<Up, Mtu("1")>>), Ids(<<"1">>)>>,
                   <<Ids(<<"2">>), Off, Ids(<<"1">>), On>>,
                   <<Port("b", <<Mtu("1"), Down, Mtu("2"), Up>>)>>})

Calls(partLists, policies) ==
    {[parts |-> s, policy |-> p] : s \in partLists, p \in policies}

DeclaredParts ==
    UNION {Triples(C) : C \in {PortParts, ListParts, StanzaParts, SwitchParts,
                               ToggleParts, OddParts}}

CustomParts ==
    {<<c, d>> : c, d \in PortParts \cup ToggleParts \cup StanzaParts}

\* The lines a resolver may build: a value of the port's header, of a leaf in
\* it, and of either side of the two toggles.
CustomLines == {Cmdline(1, [port |-> "p", mode |-> "c"]),
                Cmdline(1, [port |-> "q", mode |-> "a"]),
                Cmdline(2, [mtu |-> "3"]), Cmdline(3, None), Cmdline(4, None),
                Cmdline(8, None), Cmdline(10, None)}

MergeCalls ==
    Calls(DeclaredParts, {"Declared", "Refuse"}) \cup Calls(CustomParts, {"Custom"})

CertParts == {<<c, d, e>> : c, d, e \in
    Parts({<<Cert(<<"x">>)>>, <<Cert(<<"y">>)>>, <<Other(<<"x">>)>>, <<>>})}
CertCalls == Calls(CertParts, {"Declared"})
NoLines == {}
=============================================================================
