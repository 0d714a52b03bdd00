----------------------------- MODULE MCSections -----------------------------
(***************************************************************************)
(* Sections: one that requires a feature, with a protected line; one Kind  *)
(* spelled by two definitions; a ClearOnRemove section inside another; and *)
(* objects that a baseline provides.                                       *)
(***************************************************************************)
EXTENDS MCConfigs

Feature == Leaf(11, None)
Bgp(as, trees) == Section(Cmdline(12, [as |-> as]), trees)
Peer(p, r) == Leaf(13, [peer |-> p, remote |-> r])
Timer(v) == Leaf(14, [hold |-> v])
Vrf(d, v, trees) == Section(Cmdline(d, [vrf |-> v]), trees)
Client(u) == Leaf(17, [user |-> u])
Database(trees) == Section(Cmdline(18, None), trees)
Bridge(b, trees) == Section(Cmdline(19, [bridge |-> b]), trees)
Bridged(v, s) == Leaf(20, [vlan |-> v, state |-> s])
Collector(h, a) == Leaf(21, [host |-> h, addr |-> a])
NoAgent == Leaf(22, None)
Agent(trees) == Section(Cmdline(23, None), trees)
Area(a, t, trees) == Section(Cmdline(24, [area |-> a, type |-> t]), trees)
AutoSpeed == Leaf(25, None)
Speed(n) == Leaf(26, [speed |-> n])

Configs(ways) == {Forest(s) : s \in Ways(ways)}

Neighbors ==
    << <<>>, <<Bgp("1", <<>>)>>, <<Bgp("1", <<Peer("a", "1")>>)>>,
       <<Bgp("1", <<Peer("a", "2"), Peer("b", "1")>>)>>, <<Bgp("2", <<Peer("a", "1")>>)>> >>
Timers ==
    << <<Bgp("1", <<Timer("9"), Peer("a", "1")>>)>>, <<Bgp("1", <<Timer("8")>>)>>,
       <<Bgp("2", <<Timer("9")>>)>> >>

Routed(sections) ==
    Configs(<< << <<>>, <<Feature>> >>, sections, << <<>>, <<Vrf(15, "v", <<Client("r")>>)>> >> >>)

BgpConfigs == Routed(Neighbors)
TimerConfigs == Routed(Neighbors \o Timers)

VrfConfigs ==
    Configs(<< << <<>>, <<Vrf(15, "v", <<>>)>>, <<Vrf(15, "v", <<Client("u")>>)>>,
                  <<Vrf(16, "v", <<>>)>>, <<Vrf(16, "v", <<Client("u")>>)>> >>,
               << <<>>, <<Vrf(15, "w", <<Client("u")>>)>>,
                  <<Vrf(15, "w", <<Client("x"), Client("u")>>)>> >> >>)

AreaConfigs ==
    Configs(<< << <<>>, <<Area("0", "nssa", <<Peer("a", "1")>>)>>,
                  <<Area("0", "nssa", <<>>)>>, <<Area("0", "stub", <<>>)>>,
                  <<Area("0", "stub", <<Peer("a", "2")>>)>> >> >>)

ClearConfigs ==
    Configs(<< << <<>>, <<Database(<<>>)>>, <<Database(<<Bridged("1", "on")>>)>>,
                  <<Database(<<Bridged("1", "off"), Bridge("b", <<Bridged("2", "on")>>)>>)>>,
                  <<Database(<<Bridge("b", <<Bridged("1", "on"), Bridged("2", "on")>>)>>)>> >>,
               << <<>>, <<Collector("h", "1")>>, <<Collector("h", "2")>> >> >>)

AgentConfigs ==
    Configs(<< << <<>>, <<NoAgent>>, <<Agent(<<>>)>> >>, << <<>>, <<Feature>> >> >>)

\* The baseline provides user u and the feature.
Provided == Forest(<<Vrf(15, "z", <<Client("u")>>), Feature>>)

\* Sections without the feature they require among them.
SectionInputs ==
    Pairs(TimerConfigs, {c \in TimerConfigs : Cardinality(DOMAIN c) < 3}, Empty)
        \cup Pairs(VrfConfigs, VrfConfigs, Provided)
        \cup SelfPairs({AreaConfigs, ClearConfigs, AgentConfigs})

\* A toggle section with a protected line, and its partner.
FlipInputs ==
    Pairs(Configs(<< << <<Agent(<<Timer("9")>>)>>, <<Agent(<<>>)>>, <<NoAgent>> >>,
                     << <<>>, <<Feature>> >> >>),
          AgentConfigs, Empty)

\* A toggle pair, one side of which takes an argument.
RespellInputs ==
    SelfPairs({Configs(<< << <<>>, <<AutoSpeed>>, <<Speed("1")>>, <<Speed("2")>> >>,
                          << <<>>, <<Collector("h", "1")>>, <<Collector("h", "2")>> >> >>)})
=============================================================================
