------------------------------ MODULE MCNames ------------------------------
(***************************************************************************)
(* Exclusive names: addresses that move between ports, hosts whose address *)
(* is unique but not their key, names scoped by an anchor, a name space    *)
(* shared by two definitions, and unique lists.                            *)
(***************************************************************************)
EXTENDS MCConfigs

AddrPort(p, trees) == Section(Cmdline(33, [port |-> p]), trees)
Addr(a) == Leaf(34, [addr |-> a])
Unit(d, u) == Leaf(d, [unit |-> u])
Host(h, i) == Leaf(37, [host |-> h, ip |-> i, role |-> "r"])
Server(h, i) == Leaf(37, [host |-> h, ip |-> i, role |-> "s"])
Prio(p, ids) == Leaf(38, [prio |-> p, ids |-> ids])

PortWith(p) == << <<AddrPort(p, <<>>)>>, <<AddrPort(p, <<Addr("1")>>)>>,
                  <<AddrPort(p, <<Addr("2")>>)>>, <<>> >>

AddrConfigs ==
    {Forest(s) : s \in Ways(<<PortWith("p"), Front(PortWith("q")),
        << <<AddrPort("r", <<>>)>>, <<AddrPort("r", <<Addr("1")>>)>> >> >>)}

HostWith(h, ips) == <<<<>>>> \o [k \in DOMAIN ips |-> <<Host(h, ips[k])>>]

HostConfigs ==
    {Forest(s) : s \in Ways(<<HostWith("a", <<"1", "2">>) \o << <<Server("a", "1")>> >>,
                              HostWith("b", <<"2", "1", "3">>),
                              HostWith("c", <<"3">>)>>)}

UnitConfigs ==
    {Forest(s) : s \in Ways(<<
        << <<AddrPort("p", <<Unit(35, "1")>>)>>, <<AddrPort("p", <<Unit(36, "1")>>)>>,
           <<AddrPort("p", <<Unit(35, "2"), Unit(36, "1")>>)>>,
           <<AddrPort("p", <<Unit(35, "1"), Unit(36, "2")>>)>> >>,
        << <<AddrPort("q", <<Unit(36, "1")>>)>>, <<AddrPort("q", <<Unit(35, "1")>>)>>, <<>> >> >>)}

\* Priorities whose lists of members are disjoint.
PrioConfigs ==
    {Forest(s) : s \in Ways(<<
        << <<Prio("10", <<"1">>)>>, <<Prio("10", <<"2", "1">>)>>, <<>> >>,
        << <<>>, <<Prio("20", <<"1">>)>>, <<Prio("20", <<"3", "2">>)>> >> >>)}

NameScenarios == {AddrConfigs, HostConfigs, UnitConfigs, PrioConfigs}

\* Three hosts whose addresses are permuted: a plan that exchanges two of
\* them, or rotates all three, has an ordering cycle.
RotateInputs ==
    PairsUnder("Break", {Forest(<<Host("a", "1"), Host("b", "2"), Host("c", "3")>>)},
          {Forest(<<Host("a", x), Host("b", y), Host("c", z)>>) :
              x, y, z \in {"1", "2", "3"}}, Empty)
=============================================================================
