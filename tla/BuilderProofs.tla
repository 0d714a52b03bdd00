--------------------------- MODULE BuilderProofs ---------------------------
(***************************************************************************)
(* The exclusions that Builder lists hold for every number of definitions  *)
(* and captures and every sequence of accepted calls.  Together they are   *)
(* inductive: each is kept by the guards of several methods.               *)
(***************************************************************************)
EXTENDS Builder, TLAPS

IInv == TypeOK /\ Exclusions /\ GroupsPartition

\* Fresh definitions exclude nothing.
LEMMA InitIInv == Init => IInv
  <1> SUFFICES ASSUME Init PROVE IInv
    OBVIOUS
  <1> USE BuilderAssumption DEF Init
  <1>1. TypeOK
    BY DEF TypeOK
  <1>2. BlockStandsAlone /\ OneWayToRemove /\ OneRewritePerLine
    BY DEF BlockStandsAlone, OneWayToRemove, OneRewritePerLine
  <1>3. KeysStayOut /\ GroupsPartition
    BY DEF KeysStayOut, GroupsPartition
  <1>4. WordsHaveDomain /\ OneScope
    BY DEF WordsHaveDomain, OneScope
  <1> QED
    BY <1>1, <1>2, <1>3, <1>4 DEF IInv, Exclusions

\* Every method stores a value of its field's type.
LEMMA NextTyped == TypeOK /\ [Next]_vars => TypeOK'
  <1> SUFFICES ASSUME TypeOK, [Next]_vars PROVE TypeOK'
    OBVIOUS
  <1>0. package' = package
    BY DEF Next, vars
  <1> USE BuilderAssumption, <1>0 DEF TypeOK, Declared, shapeVars, removalVars,
          slotVars, groupVars, listVars, wordVars, foldVars, scopeVars
  <1>1. ASSUME NEW n \in Defs, Child(n)
        PROVE  TypeOK'
    BY <1>1 DEF Child
  <1>2. ASSUME NEW n \in Defs, Block(n)
        PROVE  TypeOK'
    BY <1>2 DEF Block, SetBlock
  <1>3. ASSUME NEW n \in Defs, SectionExit(n)
        PROVE  TypeOK'
    BY <1>3 DEF SectionExit
  <1>4. ASSUME NEW n \in Defs, ClearOnRemove(n)
        PROVE  TypeOK'
    BY <1>4 DEF ClearOnRemove
  <1>5. ASSUME NEW n \in Defs, Protect(n)
        PROVE  TypeOK'
    BY <1>5 DEF Protect
  <1>6. ASSUME NEW n \in Defs, Negate(n)
        PROVE  TypeOK'
    BY <1>6 DEF Negate
  <1>7. ASSUME NEW n \in Defs, Card(n)
        PROVE  TypeOK'
    BY <1>7 DEF Card
  <1>8. ASSUME NEW n \in Defs, Key(n)
        PROVE  TypeOK'
    BY <1>8 DEF Key
  <1>9. ASSUME NEW n \in Defs, SetMerge(n)
        PROVE  TypeOK'
    BY <1>9 DEF SetMerge
  <1>10. ASSUME NEW n \in Defs, Toggles(n)
        PROVE  TypeOK'
    BY <1>10 DEF Toggles
  <1>11. ASSUME NEW n \in Defs, List(n)
        PROVE  TypeOK'
    BY <1>11 DEF List
  <1>12. ASSUME NEW n \in Defs, ListDelta(n)
        PROVE  TypeOK'
    BY <1>12 DEF ListDelta
  <1>13. ASSUME NEW n \in Defs, ListSep(n)
        PROVE  TypeOK'
    BY <1>13 DEF ListSep
  <1>14. ASSUME NEW n \in Defs, ListKeywords(n)
        PROVE  TypeOK'
    BY <1>14 DEF ListKeywords
  <1>15. ASSUME NEW n \in Defs, ListContinues(n)
        PROVE  TypeOK'
    BY <1>15 DEF ListContinues
  <1>16. ASSUME NEW n \in Defs, Members(n)
        PROVE  TypeOK'
    BY <1>16 DEF Members
  <1>17. ASSUME NEW n \in Defs, RespellAs(n)
        PROVE  TypeOK'
    BY <1>17 DEF RespellAs
  <1>18. ASSUME NEW n \in Defs, ScopedBy(n)
        PROVE  TypeOK'
    BY <1>18 DEF ScopedBy
  <1>19. ASSUME NEW n \in Defs, ScopedByDevice(n)
        PROVE  TypeOK'
    BY <1>19 DEF ScopedByDevice
  <1>20. ASSUME NEW n \in Defs, Namespace(n)
        PROVE  TypeOK'
    BY <1>20 DEF Namespace
  <1>21. CASE UNCHANGED vars
    BY <1>21 DEF vars
  <1> QED
    BY <1>1, <1>2, <1>3, <1>4, <1>5, <1>6, <1>7, <1>8, <1>9, <1>10, <1>11, <1>12,
       <1>13, <1>14, <1>15, <1>16, <1>17, <1>18, <1>19, <1>20, <1>21 DEF Next, Call, Declared

\* A block stays alone: each method that could add to it looks at Block, and
\* setBlock looks at all they declare.
LEMMA BlockAloneStep ==
    ASSUME TypeOK, BlockStandsAlone, [Next]_vars
    PROVE  BlockStandsAlone'
  <1> USE BuilderAssumption DEF TypeOK, shapeVars, removalVars, slotVars, groupVars,
          listVars, wordVars, foldVars, scopeVars
  <1>1. ASSUME NEW n \in Defs, Child(n)
        PROVE  BlockStandsAlone'
    BY <1>1 DEF BlockStandsAlone, Child
  <1>2. ASSUME NEW n \in Defs, Block(n)
        PROVE  BlockStandsAlone'
    BY <1>2 DEF BlockStandsAlone, Block, SetBlock, BlockFree
  <1>3. ASSUME NEW n \in Defs, SectionExit(n)
        PROVE  BlockStandsAlone'
    BY <1>3 DEF BlockStandsAlone, SectionExit
  <1>4. ASSUME NEW n \in Defs, ClearOnRemove(n)
        PROVE  BlockStandsAlone'
    BY <1>4 DEF BlockStandsAlone, ClearOnRemove
  <1>5. ASSUME NEW n \in Defs, List(n)
        PROVE  BlockStandsAlone'
    BY <1>5 DEF BlockStandsAlone, List
  <1>6. ASSUME NEW n \in Defs, ListContinues(n)
        PROVE  BlockStandsAlone'
    BY <1>6 DEF BlockStandsAlone, ListContinues, Declared
  <1>7. ASSUME NEW n \in Defs, Members(n)
        PROVE  BlockStandsAlone'
    BY <1>7 DEF BlockStandsAlone, Members
  <1>8. ASSUME NEW n \in Defs, RespellAs(n)
        PROVE  BlockStandsAlone'
    BY <1>8 DEF BlockStandsAlone, RespellAs, RespellFree
  <1>9. ASSUME UNCHANGED <<block, children, exit, clear, list, base, members, respell>>
        PROVE  BlockStandsAlone'
    BY <1>9 DEF BlockStandsAlone
  <1>10. ASSUME NEW n \in Defs,
                Protect(n) \/ Negate(n) \/ Card(n) \/ Key(n) \/
                SetMerge(n) \/ Toggles(n) \/ ListDelta(n) \/ ListSep(n) \/
                ListKeywords(n) \/ ScopedBy(n) \/ ScopedByDevice(n) \/
                Namespace(n)
        PROVE  UNCHANGED <<block, children, exit, clear, list, base, members, respell>>
    BY <1>10 DEF Protect, Negate, Card, Key, SetMerge, Toggles, ListDelta,
        ListSep, ListKeywords, ScopedBy, ScopedByDevice, Namespace
  <1>11. CASE UNCHANGED vars
    BY <1>11, <1>9 DEF vars
  <1> QED
    BY <1>1, <1>2, <1>3, <1>4, <1>5, <1>6, <1>7, <1>8, <1>9, <1>10, <1>11 DEF Next, Call, Declared

\* The removal methods look at each other.
LEMMA OneRemovalStep ==
    ASSUME TypeOK, OneWayToRemove, [Next]_vars
    PROVE  OneWayToRemove'
  <1> USE BuilderAssumption DEF TypeOK, shapeVars, removalVars, slotVars, groupVars,
          listVars, wordVars, foldVars, scopeVars
  <1>1. ASSUME NEW n \in Defs, ClearOnRemove(n)
        PROVE  OneWayToRemove'
    BY <1>1 DEF OneWayToRemove, ClearOnRemove
  <1>2. ASSUME NEW n \in Defs, Protect(n)
        PROVE  OneWayToRemove'
    BY <1>2 DEF OneWayToRemove, Protect
  <1>3. ASSUME NEW n \in Defs, Negate(n)
        PROVE  OneWayToRemove'
    BY <1>3 DEF OneWayToRemove, Negate
  <1>4. ASSUME NEW n \in Defs, List(n)
        PROVE  OneWayToRemove'
    BY <1>4 DEF OneWayToRemove, List
  <1>5. ASSUME UNCHANGED <<clear, protected, negate, list>>
        PROVE  OneWayToRemove'
    BY <1>5 DEF OneWayToRemove
  <1>6. ASSUME NEW n \in Defs,
                Child(n) \/ Block(n) \/ SectionExit(n) \/ Card(n) \/
                Key(n) \/ SetMerge(n) \/ Toggles(n) \/ ListDelta(n) \/
                ListSep(n) \/ ListKeywords(n) \/ ListContinues(n) \/
                Members(n) \/ RespellAs(n) \/ ScopedBy(n) \/
                ScopedByDevice(n) \/ Namespace(n)
        PROVE  UNCHANGED <<clear, protected, negate, list>>
    BY <1>6 DEF Child, Block, SetBlock, SectionExit, Card, Key, SetMerge,
        Toggles, ListDelta, ListSep, ListKeywords, ListContinues, Members,
        RespellAs, ScopedBy, ScopedByDevice, Namespace
  <1>7. CASE UNCHANGED vars
    BY <1>7, <1>5 DEF vars
  <1> QED
    BY <1>1, <1>2, <1>3, <1>4, <1>5, <1>6, <1>7 DEF Next, Call, Declared

\* The rewrites exclude one another and the declarations they cannot read.
LEMMA OneRewriteStep ==
    ASSUME TypeOK, OneRewritePerLine, [Next]_vars
    PROVE  OneRewritePerLine'
  <1> USE BuilderAssumption DEF TypeOK, shapeVars, removalVars, slotVars, groupVars,
          listVars, wordVars, foldVars, scopeVars
  <1>1. ASSUME NEW n \in Defs, Child(n)
        PROVE  OneRewritePerLine'
    BY <1>1 DEF OneRewritePerLine, Child
  <1>2. ASSUME NEW n \in Defs, List(n)
        PROVE  OneRewritePerLine'
    BY <1>2 DEF OneRewritePerLine, List
  <1>3. ASSUME NEW n \in Defs, ListDelta(n)
        PROVE  OneRewritePerLine'
    BY <1>3 DEF OneRewritePerLine, ListDelta, DeltaFree
  <1>4. ASSUME NEW n \in Defs, ListContinues(n)
        PROVE  OneRewritePerLine'
    BY <1>4 DEF OneRewritePerLine, ListContinues, Declared
  <1>5. ASSUME NEW n \in Defs, Members(n)
        PROVE  OneRewritePerLine'
    BY <1>5 DEF OneRewritePerLine, Members
  <1>6. ASSUME NEW n \in Defs, RespellAs(n)
        PROVE  OneRewritePerLine'
    BY <1>6 DEF OneRewritePerLine, RespellAs, RespellFree
  <1>7. ASSUME UNCHANGED <<children, list, delta, base, continued, members, respell>>
        PROVE  OneRewritePerLine'
    BY <1>7 DEF OneRewritePerLine
  <1>8. ASSUME NEW n \in Defs,
                Block(n) \/ SectionExit(n) \/ ClearOnRemove(n) \/
                Protect(n) \/ Negate(n) \/ Card(n) \/ Key(n) \/
                SetMerge(n) \/ Toggles(n) \/ ListSep(n) \/ ListKeywords(n) \/
                ScopedBy(n) \/ ScopedByDevice(n) \/ Namespace(n)
        PROVE  UNCHANGED <<children, list, delta, base, continued, members, respell>>
    BY <1>8 DEF Block, SetBlock, SectionExit, ClearOnRemove, Protect, Negate,
        Card, Key, SetMerge, Toggles, ListSep, ListKeywords, ScopedBy,
        ScopedByDevice, Namespace
  <1>9. CASE UNCHANGED vars
    BY <1>9, <1>7 DEF vars
  <1> QED
    BY <1>1, <1>2, <1>3, <1>4, <1>5, <1>6, <1>7, <1>8, <1>9 DEF Next, Call, Declared

\* Key looks at every rewrite and group, and each of them looks at the keys.
LEMMA KeysOutStep ==
    ASSUME TypeOK, KeysStayOut, [Next]_vars
    PROVE  KeysStayOut'
  <1> USE BuilderAssumption DEF TypeOK, shapeVars, removalVars, slotVars, groupVars,
          listVars, wordVars, foldVars, scopeVars
  <1>1. ASSUME NEW n \in Defs, Key(n)
        PROVE  KeysStayOut'
    BY <1>1 DEF KeysStayOut, Key, KeyFree
  <1>2. ASSUME NEW n \in Defs, Toggles(n)
        PROVE  KeysStayOut'
    BY <1>2 DEF KeysStayOut, Toggles, Declared
  <1>3. ASSUME NEW n \in Defs, List(n)
        PROVE  KeysStayOut'
    BY <1>3 DEF KeysStayOut, List
  <1>4. ASSUME NEW n \in Defs, ListContinues(n)
        PROVE  KeysStayOut'
    BY <1>4 DEF KeysStayOut, ListContinues, Declared
  <1>5. ASSUME NEW n \in Defs, Members(n)
        PROVE  KeysStayOut'
    BY <1>5 DEF KeysStayOut, Members
  <1>6. ASSUME UNCHANGED <<keys, group, list, base, continued, members>>
        PROVE  KeysStayOut'
    BY <1>6 DEF KeysStayOut
  <1>7. ASSUME NEW n \in Defs,
                Child(n) \/ Block(n) \/ SectionExit(n) \/ ClearOnRemove(n) \/
                Protect(n) \/ Negate(n) \/ Card(n) \/ SetMerge(n) \/
                ListDelta(n) \/ ListSep(n) \/ ListKeywords(n) \/
                RespellAs(n) \/ ScopedBy(n) \/ ScopedByDevice(n) \/
                Namespace(n)
        PROVE  UNCHANGED <<keys, group, list, base, continued, members>>
    BY <1>7 DEF Child, Block, SetBlock, SectionExit, ClearOnRemove, Protect,
        Negate, Card, SetMerge, ListDelta, ListSep, ListKeywords, RespellAs,
        ScopedBy, ScopedByDevice, Namespace
  <1>8. CASE UNCHANGED vars
    BY <1>8, <1>6 DEF vars
  <1> QED
    BY <1>1, <1>2, <1>3, <1>4, <1>5, <1>6, <1>7, <1>8 DEF Next, Call, Declared

\* A group is fixed when it is declared; its members lose Card and Key.
LEMMA GroupsStep ==
    ASSUME TypeOK, GroupsPartition, [Next]_vars
    PROVE  GroupsPartition'
  <1> USE BuilderAssumption DEF TypeOK, shapeVars, removalVars, slotVars, groupVars,
          listVars, wordVars, foldVars, scopeVars
  <1>1. ASSUME NEW n \in Defs, Card(n)
        PROVE  GroupsPartition'
    BY <1>1 DEF GroupsPartition, Card, AtMostOneMerge
  <1>2. ASSUME NEW n \in Defs, Key(n)
        PROVE  GroupsPartition'
    BY <1>2 DEF GroupsPartition, Key, KeyFree, AtMostOneMerge
  <1>3. ASSUME NEW n \in Defs, SetMerge(n)
        PROVE  GroupsPartition'
    BY <1>3 DEF GroupsPartition, SetMerge, MergeFree, AtMostOneMerge
  <1>4. ASSUME NEW n \in Defs, Toggles(n)
        PROVE  GroupsPartition'
    <2>1. PICK partners \in SUBSET (Defs \ {n}), first \in Defs :
            LET g == partners \cup {n}
            IN  /\ first \in partners
                /\ \A m \in g : keys[m] = {} /\ card[m] = "ZeroToOne" /\ group[m] = {}
                /\ AtMostOneMerge(g)
                /\ group' = [m \in Defs |-> IF m \in g THEN g ELSE group[m]]
                /\ canon' = [m \in Defs |-> IF m \in g THEN first ELSE canon[m]]
                /\ UNCHANGED <<keys, card, merge>>
      BY <1>4 DEF Toggles, Declared
    <2> DEFINE g == partners \cup {n}
    <2>2. /\ g \subseteq Defs /\ n \in g /\ first \in g /\ first # n
          /\ \A m \in g : keys[m] = {} /\ card[m] = "ZeroToOne" /\ group[m] = {}
          /\ AtMostOneMerge(g)
      BY <2>1
    <2>3. /\ \A m \in g : group'[m] = g /\ canon'[m] = first
          /\ \A m \in Defs \ g : group'[m] = group[m] /\ canon'[m] = canon[m]
          /\ keys' = keys /\ card' = card /\ merge' = merge
      BY <2>1, <2>2
    <2> HIDE DEF g
    <2>4. ASSUME NEW l \in g
          PROVE  /\ l \in group'[l] /\ card'[l] = "ZeroToOne" /\ keys'[l] = {}
                 /\ canon'[l] \in group'[l]
                 /\ \E m \in group'[l] : m # l
                 /\ \A m \in group'[l] : group'[m] = group'[l] /\ canon'[m] = canon'[l]
                 /\ AtMostOneMerge(group[l])'
      BY <2>2, <2>3 DEF AtMostOneMerge
    <2>5. ASSUME NEW l \in Defs \ g, group'[l] # {}
          PROVE  /\ l \in group'[l] /\ card'[l] = "ZeroToOne" /\ keys'[l] = {}
                 /\ canon'[l] \in group'[l]
                 /\ \E m \in group'[l] : m # l
                 /\ \A m \in group'[l] : group'[m] = group'[l] /\ canon'[m] = canon'[l]
                 /\ AtMostOneMerge(group[l])'
      <3>1. group[l] # {} /\ group'[l] = group[l]
        BY <2>3, <2>5
      <3>2. \A m \in group[l] : m \in Defs \ g
        BY <3>1, <2>2 DEF GroupsPartition
      <3> QED
        BY <2>3, <3>1, <3>2 DEF GroupsPartition, AtMostOneMerge
    <2> QED
      BY <2>4, <2>5 DEF GroupsPartition
  <1>5. ASSUME UNCHANGED <<group, canon, card, keys, merge>>
        PROVE  GroupsPartition'
    BY <1>5 DEF GroupsPartition, AtMostOneMerge
  <1>6. ASSUME NEW n \in Defs,
                Child(n) \/ Block(n) \/ SectionExit(n) \/ ClearOnRemove(n) \/
                Protect(n) \/ Negate(n) \/ List(n) \/ ListDelta(n) \/
                ListSep(n) \/ ListKeywords(n) \/ ListContinues(n) \/
                Members(n) \/ RespellAs(n) \/ ScopedBy(n) \/
                ScopedByDevice(n) \/ Namespace(n)
        PROVE  UNCHANGED <<group, canon, card, keys, merge>>
    BY <1>6 DEF Child, Block, SetBlock, SectionExit, ClearOnRemove, Protect,
        Negate, List, ListDelta, ListSep, ListKeywords, ListContinues,
        Members, RespellAs, ScopedBy, ScopedByDevice, Namespace
  <1>7. CASE UNCHANGED vars
    BY <1>7, <1>5 DEF vars
  <1> QED
    BY <1>1, <1>2, <1>3, <1>4, <1>5, <1>6, <1>7 DEF Next, Call, Declared

\* Both methods that a domain depends on check it again.
LEMMA WordsDomainStep ==
    ASSUME TypeOK, WordsHaveDomain, [Next]_vars
    PROVE  WordsHaveDomain'
  <1> USE BuilderAssumption DEF TypeOK, shapeVars, removalVars, slotVars, groupVars,
          listVars, wordVars, foldVars, scopeVars
  <1>1. ASSUME NEW n \in Defs, ListSep(n)
        PROVE  WordsHaveDomain'
    <2>1. PICK s \in Seps :
            /\ DomainValid(domain[n], s)
            /\ sep' = [sep EXCEPT ![n] = s]
            /\ words' = words /\ domain' = domain
      BY <1>1 DEF ListSep
    <2>2. sep'[n] = s /\ \A m \in Defs \ {n} : sep'[m] = sep[m]
      BY <2>1
    <2> QED
      BY <2>1, <2>2 DEF WordsHaveDomain, DomainValid
  <1>2. ASSUME NEW n \in Defs, ListKeywords(n)
        PROVE  WordsHaveDomain'
    BY <1>2, SMTT(60) DEF WordsHaveDomain, ListKeywords, DomainValid
  <1>3. ASSUME UNCHANGED <<words, domain, sep>>
        PROVE  WordsHaveDomain'
    BY <1>3 DEF WordsHaveDomain
  <1>4. ASSUME NEW n \in Defs,
                Child(n) \/ Block(n) \/ SectionExit(n) \/ ClearOnRemove(n) \/
                Protect(n) \/ Negate(n) \/ Card(n) \/ Key(n) \/
                SetMerge(n) \/ Toggles(n) \/ List(n) \/ ListDelta(n) \/
                ListContinues(n) \/ Members(n) \/ RespellAs(n) \/
                ScopedBy(n) \/ ScopedByDevice(n) \/ Namespace(n)
        PROVE  UNCHANGED <<words, domain, sep>>
    BY <1>4 DEF Child, Block, SetBlock, SectionExit, ClearOnRemove, Protect,
        Negate, Card, Key, SetMerge, Toggles, List, ListDelta, ListContinues,
        Members, RespellAs, ScopedBy, ScopedByDevice, Namespace
  <1>5. CASE UNCHANGED vars
    BY <1>5, <1>3 DEF vars
  <1> QED
    BY <1>1, <1>2, <1>3, <1>4, <1>5 DEF Next, Call, Declared

\* The two scope methods look at each other.
LEMMA ScopeStep ==
    ASSUME TypeOK, OneScope, [Next]_vars
    PROVE  OneScope'
  <1> USE BuilderAssumption DEF TypeOK, shapeVars, removalVars, slotVars, groupVars,
          listVars, wordVars, foldVars, scopeVars
  <1>1. ASSUME NEW n \in Defs, ScopedBy(n)
        PROVE  OneScope'
    BY <1>1 DEF OneScope, ScopedBy, Declared
  <1>2. ASSUME NEW n \in Defs, ScopedByDevice(n)
        PROVE  OneScope'
    BY <1>2 DEF OneScope, ScopedByDevice, DeviceFree
  <1>3. ASSUME UNCHANGED <<anchor, device>>
        PROVE  OneScope'
    BY <1>3 DEF OneScope
  <1>4. ASSUME NEW n \in Defs,
                Child(n) \/ Block(n) \/ SectionExit(n) \/ ClearOnRemove(n) \/
                Protect(n) \/ Negate(n) \/ Card(n) \/ Key(n) \/
                SetMerge(n) \/ Toggles(n) \/ List(n) \/ ListDelta(n) \/
                ListSep(n) \/ ListKeywords(n) \/ ListContinues(n) \/
                Members(n) \/ RespellAs(n) \/ Namespace(n)
        PROVE  UNCHANGED <<anchor, device>>
    BY <1>4 DEF Child, Block, SetBlock, SectionExit, ClearOnRemove, Protect,
        Negate, Card, Key, SetMerge, Toggles, List, ListDelta, ListSep,
        ListKeywords, ListContinues, Members, RespellAs, Namespace
  <1>5. CASE UNCHANGED vars
    BY <1>5, <1>3 DEF vars
  <1> QED
    BY <1>1, <1>2, <1>3, <1>4, <1>5 DEF Next, Call, Declared

\* IInv is inductive.
LEMMA NextIInv == IInv /\ [Next]_vars => IInv'
  BY NextTyped, BlockAloneStep, OneRemovalStep, OneRewriteStep, KeysOutStep,
     GroupsStep, WordsDomainStep, ScopeStep DEF IInv, Exclusions

-----------------------------------------------------------------------------
(* Theorems.                                                               *)

\* Every accepted sequence of calls, for every schema size, leaves the values
\* that the fields of Def can hold.
THEOREM TypeCorrect == Spec => []TypeOK
  BY InitIInv, NextIInv, PTL DEF Spec, IInv

\* The exclusions between blocks, removal, rewrites, keys, keyword domains and
\* scopes that Exclusions lists survive every accepted sequence of calls, for
\* every schema size.  (That a base is no continuation is not among them.)
THEOREM ExclusionsKept == Spec => []Exclusions
  BY InitIInv, NextIInv, PTL DEF Spec, IInv

\* setBlock and the methods it excludes agree in every order of their calls.
THEOREM BlocksAlone == Spec => []BlockStandsAlone
  <1>1. IInv => BlockStandsAlone
    BY DEF IInv, Exclusions
  <1> QED
    BY <1>1, InitIInv, NextIInv, PTL DEF Spec

\* ClearOnRemove, Protect, the Negate methods and List exclude each other in
\* every order of their calls.
THEOREM RemovalIsSingle == Spec => []OneWayToRemove
  <1>1. IInv => OneWayToRemove
    BY DEF IInv, Exclusions
  <1> QED
    BY <1>1, InitIInv, NextIInv, PTL DEF Spec

\* ListContinues, Members, RespellAs and ListDelta exclude each other in every
\* order of their calls.
THEOREM RewriteIsSingle == Spec => []OneRewritePerLine
  <1>1. IInv => OneRewritePerLine
    BY DEF IInv, Exclusions
  <1> QED
    BY <1>1, InitIInv, NextIInv, PTL DEF Spec

\* Key is refused after what excludes it, and refuses it when it comes first.
THEOREM KeyedStayOut == Spec => []KeysStayOut
  <1>1. IInv => KeysStayOut
    BY DEF IInv, Exclusions
  <1> QED
    BY <1>1, InitIInv, NextIInv, PTL DEF Spec

\* Toggles, Card, Key and the Merge methods keep the groups disjoint and alike.
THEOREM TogglesPartition == Spec => []GroupsPartition
  <1>1. IInv => GroupsPartition
    BY DEF IInv, Exclusions
  <1> QED
    BY <1>1, InitIInv, NextIInv, PTL DEF Spec

\* ListSep and ListKeywords check a domain whichever comes last.
THEOREM DomainsExpand == Spec => []WordsHaveDomain
  <1>1. IInv => WordsHaveDomain
    BY DEF IInv, Exclusions
  <1> QED
    BY <1>1, InitIInv, NextIInv, PTL DEF Spec

\* ScopedBy and ScopedByDevice exclude each other in both orders.
THEOREM ScopeIsSingle == Spec => []OneScope
  <1>1. IInv => OneScope
    BY DEF IInv, Exclusions
  <1> QED
    BY <1>1, InitIInv, NextIInv, PTL DEF Spec
=============================================================================
