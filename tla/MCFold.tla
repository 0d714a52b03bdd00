------------------------------- MODULE MCFold -------------------------------
(***************************************************************************)
(* VLANs as sections and as membership lines, lists with continuations,    *)
(* and access lists in two spellings, one of which makes membership lines  *)
(* inside the section.                                                     *)
(***************************************************************************)
EXTENDS Fold

\*  1 vlan {{ id }}, with 2 name {{ text }}   3 vlan {{ ids }}, members of 1
\*  4 allow {{ dir }} {{ ids }}   5 allow {{ dir }} add {{ ids }}
\*  6 allow add {{ ids }}, both continue 4   7 vlan add {{ ids }} continues 3
\*  8 drop {{ ids }} continues itself
\*  9 acl {{ n }} {{ rule }}   10 ip acl {{ n }}, with 11 rule {{ rule }},
\* 12 permit {{ id }} {{ log }} and 13 permit {{ ids }} {{ log }}
\* 14 acl {{ n }} permit {{ ids }} {{ log }}   15 vlans {{ ids }} respells as 3
\* 16 list {{ n }} {{ rule }} respells as 9   17 stray {{ ids }}
\* 18 ip acl z, with 11
RouterRoots == <<1, 3, 4, 5, 6, 7, 8, 9, 18, 10, 14, 15, 16, 17>>
RouterChildren ==
    [d \in 1..18 |-> CASE d = 1 -> <<2>> [] d = 10 -> <<11, 12, 13>> [] d = 18 -> <<11>>
                      [] OTHER -> <<>>]
RouterCaptures ==
    <<{"id"}, {"text"}, {"ids"}, {"dir", "ids"}, {"dir", "ids"}, {"ids"}, {"ids"}, {"ids"},
      {"n", "rule"}, {"n"}, {"rule"}, {"id", "log"}, {"ids", "log"}, {"n", "ids", "log"},
      {"ids"}, {"n", "rule"}, {"ids"}, {}>>
RouterLists == [d \in {3, 4, 5, 6, 7, 8, 13, 14, 15, 17} |-> "ids"]
RouterKeys ==
    [d \in 1..18 |-> CASE d \in {1, 12} -> <<"id">> [] d = 10 -> <<"n">> [] OTHER -> <<>>]
RouterKinds ==
    [d \in 1..18 |-> CASE d = 1 -> "vlan" [] d = 12 -> "entry" [] OTHER -> ""]
RouterBases == [d \in {5, 6, 7, 8} |-> CASE d \in {5, 6} -> 4 [] d = 7 -> 3 [] d = 8 -> 8]
RouterMembers ==
    [d \in {3, 13, 17} |-> CASE d = 3 -> "vlan" [] d = 13 -> "entry" [] d = 17 -> "none"]
Spelling(header, children) == [header |-> header, children |-> children]
RouterRespells ==
    [d \in {9, 14, 15, 16} |->
        CASE d = 9 -> Spelling(10, <<11>>) [] d = 14 -> Spelling(10, <<13>>)
          [] d = 15 -> Spelling(3, <<>>) [] d = 16 -> Spelling(9, <<>>)]

N(v) == <<<<v, 0>>>>
Zero(v) == <<<<v, -1>>>>
To(lo, hi) == <<<<lo, 0>>, <<hi, 0>>>>
Toks(toks) == Value("", toks)
One(v) == Toks(<<N(v)>>)
Reversed == Toks(<<To(2, 1)>>)
None == Value("none", <<>>)

L(depth, d, args) == [depth |-> depth, def |-> d, args |-> args]
Vlan(id) == L(0, 1, [id |-> id])
Name == L(1, 2, [text |-> "t"])
Ids(d, list) == L(0, d, [ids |-> list])
Allow(d, dir, list) == L(0, d, [dir |-> dir, ids |-> list])
Acl(d, n, rule) == L(0, d, [n |-> n, rule |-> rule])
List(n) == L(0, 10, [n |-> n])
Rule(rule) == L(1, 11, [rule |-> rule])
Permit(id, log) == L(1, 12, [id |-> id, log |-> log])
Permits(list, log) == L(1, 13, [ids |-> list, log |-> log])

\* Nothing matches "vlan 3" and the union of 1 and 4, and "ip acl z" is a line of
\* 18, below which only a rule matches.
Unread == [def |-> NoDef, args |-> <<>>]
RouterReads ==
    ([def |-> 1, args |-> [id |-> <<3, 0>>]] :> Unread)
    @@ ([def |-> 4, args |-> [dir |-> "in", ids |-> Toks(<<N(1), N(4)>>)]] :> Unread)
    @@ ([def |-> 10, args |-> [n |-> "z"]] :> [def |-> 18, args |-> <<>>])

\* "allow" knows every keyword, over 1 to 4, and "vlan add" knows "none".
RouterWords ==
    [d \in DOMAIN RouterLists |->
        CASE d = 4 -> {"none", "all", "except"} [] d = 7 -> {"none"} [] OTHER -> {}]
RouterDomain == [d \in {4} |-> <<To(1, 4)>>]

VlanLines ==
    {Vlan(<<1, 0>>), Name, Ids(3, Toks(<<N(2), N(1)>>)), Ids(3, Toks(<<To(2, 3)>>)),
     Ids(3, Reversed), Ids(7, One(1)), Ids(7, None), Ids(15, Toks(<<To(1, 2), N(1)>>)),
     Ids(17, One(1))}
AllowLines ==
    {Allow(4, "in", One(1)), Allow(4, "out", Value("except", <<To(2, 3)>>)),
     Allow(4, "in", Reversed), Allow(4, "in", None), Allow(5, "in", Toks(<<N(2), N(3)>>)),
     Allow(5, "out", Toks(<<N(3), N(2)>>)), Allow(5, "in", Reversed), Allow(5, "in", One(4)),
     Ids(6, One(2))}
DropLines ==
    {Ids(8, One(1)), Ids(8, Toks(<<Zero(2)>>)), Ids(8, Toks(<<To(2, 3)>>)), Ids(8, One(4)),
     Ids(8, Toks(<<Zero(0), N(0)>>)), Ids(8, Toks(<<<<>>>>)), Ids(8, Toks(<<To(1, 9)>>)), Ids(8, Toks(<<<<<<NoNum, 1>>>>, N(3)>>))}
AclLines ==
    {Acl(9, "x", "r"), Acl(9, "x", "s"), Acl(9, "z", "r"), List("x"), Rule("r"),
     Permit(<<1, 0>>, "on"), Permits(Toks(<<To(1, 2)>>), "on"), Permits(One(1), "off"),
     L(0, 14, [n |-> "x", ids |-> One(1), log |-> "on"]),
     L(0, 14, [n |-> "z", ids |-> One(1), log |-> "on"]), Acl(16, "x", "r")}

\* A nested line follows a section that has its definition.
Placed(text) ==
    \A i \in DOMAIN text : text[i].depth = 1 =>
        \E j \in 1..(i - 1) :
            /\ \A k \in (j + 1)..i : text[k].depth = 1
            /\ text[j].depth = 0 /\ text[i].def \in ToSet(RouterChildren[text[j].def])

Texts(lines, max) == {text \in UNION {[1..n -> lines] : n \in 0..max} : Placed(text)}

RouterSources ==
    Texts(VlanLines, 4) \cup Texts(AllowLines, 4) \cup Texts(DropLines, 4) \cup Texts(AclLines, 4)
=============================================================================
