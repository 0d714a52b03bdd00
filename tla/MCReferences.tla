---------------------------- MODULE MCReferences ----------------------------
(***************************************************************************)
(* VLANs, access lists and the interfaces that reference them: references  *)
(* by key, references out of a list, sections, moved and changed leaves.   *)
(***************************************************************************)
EXTENDS MCConfigs

Vlan(i, m) == Leaf(27, [id |-> i, note |-> m])
Acl(a, act) == Section(Cmdline(28, [acl |-> a]), <<Leaf(29, [seq |-> "10", act |-> act])>>)
Port(p, trees) == Section(Cmdline(30, [port |-> p]), trees)
Group(a) == Leaf(31, [name |-> a])
List(v) == Leaf(32, [vlans |-> v])
Remark(r) == Leaf(39, [text |-> r])
Up == Leaf(8, None)

\* VLANs 1 and 2 and one port with a list of them.
VlanConfigs ==
    {Forest(s) : s \in Ways(<<
        << <<>>, <<Vlan("1", "m")>>, <<Vlan("1", "n")>> >>,
        << <<>>, <<Vlan("2", "m")>> >>,
        << <<>>, <<Port("p", <<>>)>>, <<Port("p", <<List(<<"1">>)>>)>>,
           <<Port("p", <<List(<<"2">>)>>)>>, <<Port("p", <<List(<<"1", "2">>)>>)>>,
           <<Port("p", <<List(<<"2", "1">>)>>)>> >> >>)}

\* Two access lists and two ports that may use them.
AclConfigs ==
    {Forest(s) : s \in Ways(<<
        << <<>>, <<Acl("a", "permit")>>, <<Acl("a", "deny")>> >>,
        << <<>>, <<Acl("b", "permit")>> >>,
        << <<>>, <<Port("p", <<Group("a")>>)>>, <<Port("p", <<Group("b")>>)>>,
           <<Port("p", <<Group("a")>>), Port("q", <<Group("a")>>)>> >> >>)}

\* The same lines in another order.
OrderConfigs ==
    {Forest(s) : s \in {<<Acl("a", "permit"), Port("p", <<Group("a")>>)>>,
                        <<Port("p", <<Group("a")>>), Acl("a", "permit")>>,
                        <<Vlan("1", "m"), Acl("a", "permit"), Vlan("2", "m")>>,
                        <<Vlan("2", "m"), Vlan("1", "m"), Acl("a", "permit")>>}}

\* Full lines, of which one may stand twice.
RemarkConfigs ==
    {Forest(s) : s \in Ways(<<
        << <<>>, <<Remark("x")>>, <<Remark("x"), Remark("x")>> >>,
        << <<>>, <<Remark("y")>>, <<Remark("x")>>, <<Remark("y"), Remark("x")>> >> >>)}

\* A section whose header names the tenant it belongs to.
TenantPort(t, trees) == Section(Cmdline(40, [port |-> "p", tenant |-> t]), trees)
Tenant(i) == Leaf(41, [id |-> i])

TenantConfigs ==
    {Forest(s) : s \in Ways(<<
        << <<>>, <<Tenant("1")>> >>, << <<>>, <<Tenant("2")>> >>,
        << <<TenantPort("1", <<>>)>>, <<TenantPort("1", <<Up>>)>>,
           <<TenantPort("2", <<>>)>>, <<TenantPort("2", <<Up>>)>> >> >>)}

ReferenceScenarios == {VlanConfigs, AclConfigs, OrderConfigs, RemarkConfigs}
=============================================================================
