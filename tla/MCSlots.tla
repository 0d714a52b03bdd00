------------------------------ MODULE MCSlots ------------------------------
(***************************************************************************)
(* Single-occupancy slots of one port: a toggle pair, lines that exclude   *)
(* each other, a Kind slot with two spellings, a banner with a block, and  *)
(* an unmarked slot whose definition gives Diff no way to pair its values. *)
(***************************************************************************)
EXTENDS MCConfigs

Shut       == Leaf(2, None)
NoShut     == Leaf(3, None)
Switchport == Leaf(4, None)
IpAddr(a)    == Leaf(5, [addr |-> a])
Access(v)  == Leaf(6, [vlan |-> v])
Trunk(v)   == Leaf(7, [native |-> v])
Banner(t)  == BlockLeaf(8, None, t)
Mtu(n)     == Leaf(9, [mtu |-> n])
Account(n, r) == Leaf(10, [user |-> n, role |-> r])

PortsOf(ways) == {Forest(<<Section(Cmdline(1, [port |-> "p"]), s)>>) : s \in Ways(ways)}

L2 == << <<>>, <<Switchport>>, <<IpAddr("1")>>, <<IpAddr("2")>> >>
Modes == << <<>>, <<Access("1")>>, <<Access("2")>>, <<Trunk("1")>>, <<Trunk("2")>> >>
Spellings == Modes \o << <<Access("1"), Trunk("1")>>, <<Trunk("2"), Access("2")>>,
                         <<Trunk("1"), Trunk("2")>> >>
Toggle == << <<>>, <<Shut>>, <<NoShut>> >>

Banners == << <<>>, <<Banner(<<"x">>)>>, <<Banner(<<"y">>)>> >>
Mtus == << <<>>, <<Mtu("1")>>, <<Mtu("2")>> >>
Accounts == << <<>>, <<Account("u", "r")>>, <<Account("u", "s")>> >>
LeafScenarios == {PortsOf(<<Banners, Mtus>>), PortsOf(<<Mtus, Accounts>>)}

FlagConfigs ==
    PortsOf(<<Toggle \o << <<Shut, NoShut>> >>, << <<>>, <<Switchport>> >> >>)

\* Two lines in either order, and a line spelled twice.
SpellingConfigs ==
    PortsOf(<< << <<>>, <<Account("u", "r"), Account("v", "r")>>, <<Account("v", "r"), Account("u", "r")>>,
                  <<Account("u", "r"), Account("u", "s")>> >> >>)

SlotInputs ==
    Pairs(PortsOf(<<Spellings, L2>>), PortsOf(<<Modes, L2>>), Empty)
        \cup SelfPairs({FlagConfigs})

\* Configurations that FragmentCheck refuses among them.
LeafInputs == SelfPairs(LeafScenarios \cup {SpellingConfigs})
=============================================================================
