-------------------------- MODULE MatchCacheProofs --------------------------
(***************************************************************************)
(* Every caller goes through its own candidates, for every grammar and any *)
(* number of callers.  The strengthening is about the entries: whatever a  *)
(* cache entry says it was computed from, it holds the order of that.      *)
(*                                                                         *)
(* And MatchCache implements Matching.  Half of that argument is about     *)
(* sorting: to go through Sorted until something matches is to take the    *)
(* first of all that match.  The other half is what the walk of            *)
(* MatchChildOpener has left behind.                                       *)
(***************************************************************************)
EXTENDS MatchCache, TLAPS, FiniteSetTheorems, WellFoundedInduction

EntriesSound ==
    \A d \in Defs : matchOrder[d] # NoMemo =>
        matchOrder[d].ordered = Sorted(matchOrder[d].src)

\* A caller has a call to answer, or it is idle and no longer nested in one.
Calling ==
    \A g \in Callers :
        /\ pc[g] # "idle" => call[g] \in Calls
        /\ pc[g] = "idle" => ~nested[g]

IInv == TypeOK /\ EntriesSound /\ Calling /\ OwnOrder

\* The empty cache.
LEMMA InitIInv == Init => IInv
  BY DEF Init, MatchInit, IInv, TypeOK, EntriesSound, Calling, OwnOrder

\* A caller's lead is a definition and its order one of a level.
LEMMA CallTyped ==
    ASSUME TypeOK, Calling, NEW g \in Callers, pc[g] # "idle"
    PROVE  /\ call[g] \in Calls /\ From(g) \in Levels
           /\ Lead(g) \in Defs /\ Sorted(From(g)) \in Orders
  <1>1. call[g] \in Calls /\ From(g) \in Levels
    BY DEF Calling, Calls, From
  <1>2. From(g) \in Seq(Defs) /\ From(g) # <<>>
    BY <1>1, TemplateAssumption
  <1> QED
    BY <1>1, <1>2 DEF Lead, Orders

\* Whichever loop starts with the order o, it starts with the caller's own.
LEMMA ObtainOwn ==
    ASSUME IInv, NEW g \in Callers, pc[g] \in {"load", "store"},
           NEW o, o = Sorted(From(g)), Obtain(g, o),
           sorted' \in [Callers -> Orders \cup {<<>>}],
           \A h \in Callers \ {g} : sorted'[h] = sorted[h],
           matchOrder' \in [Defs -> Memos \cup {NoMemo}],
           EntriesSound'
    PROVE  IInv'
  <1>1. /\ call[g] \in Calls /\ From(g) \in Levels
        /\ Lead(g) \in Defs /\ Sorted(From(g)) \in Orders
    BY CallTyped DEF IInv
  <1>2. o \in Orders
    BY <1>1
  <1>3. CASE call[g].opener /\ ~nested[g]
    <2>1. /\ order' = [order EXCEPT ![g] = o]
          /\ pos' = [pos EXCEPT ![g] = 1]
          /\ pc' = [pc EXCEPT ![g] = "walk"]
          /\ UNCHANGED <<call, answer, nested, inner>>
      BY <1>3 DEF Obtain
    <2>2. TypeOK'
      BY <1>2, <2>1 DEF IInv, TypeOK
    <2>3. Calling'
      BY <1>1, <2>1 DEF IInv, TypeOK, Calling
    <2>4. OwnOrder'
      BY <1>3, <2>1 DEF IInv, TypeOK, OwnOrder, From
    <2> QED
      BY <2>2, <2>3, <2>4 DEF IInv
  <1>4. CASE ~(call[g].opener /\ ~nested[g])
    <2>1. /\ inner' = [inner EXCEPT ![g] = o]
          /\ pc' = [pc EXCEPT ![g] = "match"]
          /\ UNCHANGED <<call, answer, order, pos, nested>>
      BY <1>4 DEF Obtain
    <2>2. TypeOK'
      BY <1>2, <2>1 DEF IInv, TypeOK
    <2>3. Calling'
      BY <1>1, <2>1 DEF IInv, TypeOK, Calling
    <2>4. OwnOrder'
      BY <1>4, <2>1 DEF IInv, TypeOK, OwnOrder, From
    <2> QED
      BY <2>2, <2>3, <2>4 DEF IInv
  <1> QED
    BY <1>3, <1>4

\* A call that returns leaves nothing of itself behind.
LEMMA FinishOwn ==
    ASSUME IInv, NEW g \in Callers, NEW d, Finish(g, d)
    PROVE  IInv'
  <1>1. TypeOK'
    BY DEF IInv, TypeOK, Finish, Answer
  <1>2. EntriesSound' /\ Calling'
    BY DEF IInv, TypeOK, EntriesSound, Calling, Finish, Answer
  <1>3. OwnOrder'
    BY DEF IInv, TypeOK, OwnOrder, From, Finish, Answer
  <1> QED
    BY <1>1, <1>2, <1>3 DEF IInv

\* The outer loop goes on in the same order.
LEMMA AdvanceOwn ==
    ASSUME IInv, NEW g \in Callers, pc[g] = "walk" \/ (pc[g] = "match" /\ nested[g]),
           Advance(g)
    PROVE  IInv'
  <1>1. TypeOK'
    BY DEF IInv, TypeOK, Advance
  <1>2. EntriesSound' /\ Calling'
    BY DEF IInv, TypeOK, EntriesSound, Calling, Advance
  <1>3. OwnOrder'
    BY DEF IInv, TypeOK, OwnOrder, From, Advance
  <1> QED
    BY <1>1, <1>2, <1>3 DEF IInv

\* Every step of every caller keeps the invariant.
LEMMA NextIInv == IInv /\ [Next]_vars => IInv'
  <1> SUFFICES ASSUME IInv, [Next]_vars PROVE IInv'
    OBVIOUS
  <1>1. ASSUME NEW g \in Callers, Start(g)
        PROVE  IInv'
    <2>1. PICK c \in Calls : Call(g, c)
      BY <1>1 DEF Start
    <2>a. call[g] = NoCall /\ call' = [call EXCEPT ![g] = c]
      BY <2>1 DEF Call
    <2>b. pc[g] = "idle"
      BY <2>a, CallAssumption DEF IInv, Calling
    <2>2. call' = [call EXCEPT ![g] = c] /\ pc[g] = "idle"
      BY <2>a, <2>b
    <2>3. TypeOK'
      BY <1>1, <2>2 DEF Start, IInv, TypeOK
    <2>4. EntriesSound' /\ Calling'
      BY <1>1, <2>2 DEF Start, IInv, TypeOK, EntriesSound, Calling
    <2>5. OwnOrder'
      BY <1>1, <2>2 DEF Start, IInv, TypeOK, Calling, OwnOrder, From
    <2> QED
      BY <2>3, <2>4, <2>5 DEF IInv
  <1>2. ASSUME NEW g \in Callers, LoadHit(g)
        PROVE  IInv'
    <2>1. Lead(g) \in Defs
      BY <1>2, CallTyped DEF LoadHit, IInv
    <2>2. matchOrder[Lead(g)].ordered = Sorted(From(g))
      BY <1>2, <2>1 DEF LoadHit, Hit, IInv, EntriesSound
    <2>3. EntriesSound' /\ matchOrder' = matchOrder /\ sorted' = sorted
      BY <1>2 DEF LoadHit, IInv, EntriesSound
    <2> QED
      BY <1>2, <2>2, <2>3, ObtainOwn DEF LoadHit, IInv, TypeOK
  <1>3. ASSUME NEW g \in Callers, LoadMiss(g)
        PROVE  IInv'
    <2>1. Sorted(From(g)) \in Orders
      BY <1>3, CallTyped DEF LoadMiss, IInv
    <2>2. TypeOK'
      BY <1>3, <2>1 DEF LoadMiss, IInv, TypeOK
    <2>3. EntriesSound' /\ Calling'
      BY <1>3 DEF LoadMiss, IInv, TypeOK, EntriesSound, Calling
    <2>4. OwnOrder'
      BY <1>3 DEF LoadMiss, IInv, TypeOK, OwnOrder, From
    <2> QED
      BY <2>2, <2>3, <2>4 DEF IInv
  <1>4. ASSUME NEW g \in Callers, Store(g)
        PROVE  IInv'
    <2>1. /\ Lead(g) \in Defs /\ From(g) \in Levels /\ Sorted(From(g)) \in Orders
          /\ sorted[g] = Sorted(From(g))
      BY <1>4, CallTyped DEF Store, IInv, OwnOrder
    <2> DEFINE m == [src |-> From(g), ordered |-> sorted[g]]
    <2>2. m \in Memos /\ m.ordered = Sorted(m.src)
      BY <2>1 DEF Memos
    <2>3. matchOrder' = [matchOrder EXCEPT ![Lead(g)] = m]
      BY <1>4 DEF Store
    <2> HIDE DEF m
    <2>4. matchOrder' \in [Defs -> Memos \cup {NoMemo}] /\ EntriesSound'
      BY <2>1, <2>2, <2>3 DEF IInv, TypeOK, EntriesSound
    <2>5. /\ sorted' \in [Callers -> Orders \cup {<<>>}]
          /\ \A h \in Callers \ {g} : sorted'[h] = sorted[h]
      BY <1>4 DEF Store, IInv, TypeOK
    <2> QED
      BY <1>4, <2>1, <2>4, <2>5, ObtainOwn DEF Store, AfterStore
  <1>5. ASSUME NEW g \in Callers, Match(g)
        PROVE  IInv'
    BY <1>5, FinishOwn DEF Match
  <1>6. ASSUME NEW g \in Callers, MatchNested(g)
        PROVE  IInv'
    BY <1>6, FinishOwn, AdvanceOwn DEF MatchNested
  <1>7. ASSUME NEW g \in Callers, WalkOpener(g)
        PROVE  IInv'
    <2>1. TypeOK'
      BY <1>7 DEF WalkOpener, IInv, TypeOK
    <2>2. EntriesSound' /\ Calling'
      BY <1>7 DEF WalkOpener, IInv, TypeOK, EntriesSound, Calling
    <2>3. OwnOrder'
      BY <1>7 DEF WalkOpener, IInv, TypeOK, OwnOrder, From
    <2> QED
      BY <2>1, <2>2, <2>3 DEF IInv
  <1>8. ASSUME NEW g \in Callers, WalkExact(g) \/ WalkPast(g) \/ WalkEnd(g)
        PROVE  IInv'
    <2>1. /\ pc[g] = "walk" \/ (pc[g] = "match" /\ nested[g])
          /\ Finish(g, Candidate(g)) \/ Finish(g, NoDef) \/ Advance(g)
      BY <1>8 DEF WalkExact, WalkPast, WalkEnd
    <2>2. CASE Finish(g, Candidate(g)) \/ Finish(g, NoDef)
      BY <2>2, FinishOwn
    <2>3. CASE Advance(g)
      BY <2>1, <2>3, AdvanceOwn
    <2> QED
      BY <2>1, <2>2, <2>3
  <1>9. CASE UNCHANGED vars
    <2>1. TypeOK'
      BY <1>9 DEF vars, cacheVars, IInv, TypeOK
    <2>2. EntriesSound' /\ Calling'
      BY <1>9 DEF vars, cacheVars, IInv, EntriesSound, Calling
    <2>3. OwnOrder'
      BY <1>9 DEF vars, cacheVars, IInv, OwnOrder, From
    <2> QED
      BY <2>1, <2>2, <2>3 DEF IInv
  <1> QED
    BY <1>1, <1>2, <1>3, <1>4, <1>5, <1>6, <1>7, <1>8, <1>9 DEF Next, Step

-----------------------------------------------------------------------------
\* Concurrent callers of a shared schema, however they interleave, each match
\* against their own candidates in their own order of specificity.
THEOREM OrderIsOwn == Spec => []OwnOrder
  BY InitIInv, NextIInv, PTL DEF Spec, IInv

-----------------------------------------------------------------------------
(* The refinement.                                                         *)

\* Candidates at two positions are ordered, one way only.
LEMMA PrecedesOrders ==
    ASSUME NEW from \in Levels,
           NEW i \in DOMAIN from, NEW j \in DOMAIN from, NEW k \in DOMAIN from
    PROVE  /\ ~(Precedes(from, i, j) /\ Precedes(from, j, i))
           /\ i # j => Precedes(from, i, j) \/ Precedes(from, j, i)
           /\ Precedes(from, i, j) /\ Precedes(from, j, k) => Precedes(from, i, k)
  <1>1. from \in Seq(Defs)
    BY TemplateAssumption
  <1>2. /\ LitLen[from[i]] \in Nat /\ LitLen[from[j]] \in Nat /\ LitLen[from[k]] \in Nat
        /\ i \in Nat /\ j \in Nat /\ k \in Nat
    BY <1>1, TemplateAssumption DEF Defs
  <1> QED
    BY <1>2 DEF Precedes

\* What Rank counts.
Upto(from, i) == {j \in DOMAIN from : j = i \/ Precedes(from, j, i)}

LEMMA UptoFinite ==
    ASSUME NEW from \in Levels, NEW i \in DOMAIN from
    PROVE  /\ DOMAIN from = 1..Len(from) /\ Len(from) \in Nat
           /\ IsFiniteSet(DOMAIN from) /\ Cardinality(DOMAIN from) = Len(from)
           /\ IsFiniteSet(Upto(from, i))
           /\ Rank(from, i) = Cardinality(Upto(from, i))
           /\ Rank(from, i) \in DOMAIN from
  <1>1. from \in Seq(Defs)
    BY TemplateAssumption
  <1>2. DOMAIN from = 1..Len(from) /\ Len(from) \in Nat
    BY <1>1
  <1>3. IsFiniteSet(DOMAIN from) /\ Cardinality(DOMAIN from) = Len(from)
    <2> DEFINE n == Len(from)
    <2>1. n \in Int /\ 1 \in Int
      BY <1>2
    <2> HIDE DEF n
    <2>2. IsFiniteSet(1..n) /\ Cardinality(1..n) = IF 1 > n THEN 0 ELSE n - 1 + 1
      BY <2>1, FS_Interval
    <2> QED
      BY <1>2, <2>2 DEF n
  <1>4. Upto(from, i) \subseteq DOMAIN from /\ i \in Upto(from, i)
    BY DEF Upto
  <1>5. IsFiniteSet(Upto(from, i)) /\ Cardinality(Upto(from, i)) <= Len(from)
    BY <1>3, <1>4, FS_Subset
  <1>6. Cardinality(Upto(from, i)) \in Nat /\ Cardinality(Upto(from, i)) # 0
    BY <1>4, <1>5, FS_EmptySet, FS_CardinalityType
  <1>7. Rank(from, i) = Cardinality(Upto(from, i))
    BY DEF Rank, Upto
  <1> QED
    BY <1>2, <1>3, <1>5, <1>6, <1>7

\* What comes first has the smaller rank.
LEMMA RankMonotone ==
    ASSUME NEW from \in Levels, NEW i \in DOMAIN from, NEW j \in DOMAIN from,
           Precedes(from, i, j)
    PROVE  Rank(from, i) < Rank(from, j)
  <1>1. Upto(from, i) \subseteq Upto(from, j)
    BY PrecedesOrders DEF Upto
  <1>2. j \in Upto(from, j) /\ j \notin Upto(from, i)
    BY PrecedesOrders DEF Upto
  <1>3. /\ Cardinality(Upto(from, i)) <= Cardinality(Upto(from, j))
        /\ Cardinality(Upto(from, i)) # Cardinality(Upto(from, j))
    BY <1>1, <1>2, UptoFinite, FS_Subset
  <1>4. Cardinality(Upto(from, i)) \in Nat /\ Cardinality(Upto(from, j)) \in Nat
    BY UptoFinite, FS_CardinalityType
  <1> QED
    BY <1>3, <1>4, UptoFinite

LEMMA RankDecides ==
    ASSUME NEW from \in Levels, NEW i \in DOMAIN from, NEW j \in DOMAIN from
    PROVE  /\ Rank(from, i) = Rank(from, j) => i = j
           /\ Rank(from, i) < Rank(from, j) => Precedes(from, i, j)
  <1>1. Rank(from, i) \in Nat /\ Rank(from, j) \in Nat
    BY UptoFinite
  <1>2. i # j => Rank(from, i) < Rank(from, j) \/ Rank(from, j) < Rank(from, i)
    BY PrecedesOrders, RankMonotone
  <1>3. Precedes(from, j, i) => Rank(from, j) < Rank(from, i)
    BY RankMonotone
  <1> QED
    BY <1>1, <1>2, <1>3, PrecedesOrders

\* There is a candidate of every rank: ranks are distinct and there are as many
\* of them as candidates.
LEMMA RankOnto ==
    ASSUME NEW from \in Levels, NEW k \in DOMAIN from
    PROVE  \E i \in DOMAIN from : Rank(from, i) = k
  <1> SUFFICES ASSUME \A i \in DOMAIN from : Rank(from, i) # k PROVE FALSE
    OBVIOUS
  <1> DEFINE D == DOMAIN from
             f == [i \in D |-> Rank(from, i)]
  <1>1. f \in [D -> D \ {k}]
    BY UptoFinite
  <1>2. /\ IsFiniteSet(D) /\ IsFiniteSet(D \ {k})
        /\ Cardinality(D \ {k}) = Cardinality(D) - 1 /\ Cardinality(D) \in Nat
    BY UptoFinite, FS_RemoveElement, FS_CardinalityType
  <1>3. Cardinality(D \ {k}) < Cardinality(D)
    BY <1>2
  <1>4. \E x, y \in D : x # y /\ f[x] = f[y]
    <2> HIDE DEF f
    <2> QED
      BY <1>1, <1>2, <1>3, FS_PigeonHole
  <1> QED
    BY <1>4, RankDecides

\* The k-th candidate of the sorted slice is the one of rank k.
LEMMA SortedAt ==
    ASSUME NEW from \in Levels
    PROVE  /\ DOMAIN Sorted(from) = DOMAIN from
           /\ \A k \in DOMAIN from : \E i \in DOMAIN from :
                Rank(from, i) = k /\ Sorted(from)[k] = from[i]
           /\ \A i \in DOMAIN from : Sorted(from)[Rank(from, i)] = from[i]
  <1>1. DOMAIN Sorted(from) = DOMAIN from
    BY DEF Sorted
  <1>2. ASSUME NEW k \in DOMAIN from
        PROVE  \E i \in DOMAIN from : Rank(from, i) = k /\ Sorted(from)[k] = from[i]
    BY RankOnto DEF Sorted
  <1>3. ASSUME NEW i \in DOMAIN from
        PROVE  Sorted(from)[Rank(from, i)] = from[i]
    <2>1. Rank(from, i) \in DOMAIN from
      BY UptoFinite
    <2>2. PICK j \in DOMAIN from :
            Rank(from, j) = Rank(from, i) /\ Sorted(from)[Rank(from, i)] = from[j]
      BY <1>2, <2>1
    <2> QED
      BY <2>2, RankDecides
  <1> QED
    BY <1>1, <1>2, <1>3

-----------------------------------------------------------------------------
\* The first definition of A in the sorted slice is the one FirstOf takes.
LEMMA FirstTaken ==
    ASSUME NEW from \in Levels, NEW A, NEW k \in DOMAIN from,
           Sorted(from)[k] \in A,
           \A j \in DOMAIN from : j < k => Sorted(from)[j] \notin A
    PROVE  FirstOf(from, {i \in DOMAIN from : from[i] \in A}) = Sorted(from)[k]
  <1> DEFINE S == {i \in DOMAIN from : from[i] \in A}
             First(i) == \A j \in S \ {i} : Precedes(from, i, j)
  <1>1. PICK i \in DOMAIN from : Rank(from, i) = k /\ Sorted(from)[k] = from[i]
    BY SortedAt
  <1>2. i \in S
    BY <1>1
  <1>3. First(i)
    <2> SUFFICES ASSUME NEW j \in S \ {i} PROVE Precedes(from, i, j)
      OBVIOUS
    <2>1. j \in DOMAIN from /\ Sorted(from)[Rank(from, j)] \in A
      BY SortedAt
    <2>2. Rank(from, j) \in DOMAIN from /\ ~(Rank(from, j) < k)
      BY <2>1, UptoFinite
    <2>3. Rank(from, j) \in Nat /\ k \in Nat /\ Rank(from, j) # k
      BY <1>1, <2>1, UptoFinite, RankDecides
    <2> QED
      BY <1>1, <2>1, <2>2, <2>3, RankDecides
  <1>4. \A j \in S : First(j) => j = i
    <2> SUFFICES ASSUME NEW j \in S, First(j), j # i PROVE FALSE
      OBVIOUS
    <2> QED
      BY <1>2, <1>3, PrecedesOrders
  <1>5. FirstOf(from, S) = from[CHOOSE j \in S : First(j)]
    BY <1>2, <1>3 DEF FirstOf
  <1> HIDE DEF S, First
  <1>6. (CHOOSE j \in S : First(j)) = i
    BY <1>2, <1>3, <1>4
  <1> QED
    BY <1>1, <1>5, <1>6 DEF S

\* If the sorted slice has none of A then FirstOf finds none.
LEMMA NoneTaken ==
    ASSUME NEW from \in Levels, NEW A,
           \A j \in DOMAIN from : Sorted(from)[j] \notin A
    PROVE  FirstOf(from, {i \in DOMAIN from : from[i] \in A}) = NoDef
  <1>1. \A i \in DOMAIN from : from[i] \notin A
    BY SortedAt, UptoFinite
  <1> QED
    BY <1>1 DEF FirstOf

LEMMA LeastOf ==
    ASSUME NEW S \in SUBSET Nat, S # {}
    PROVE  \E k \in S : \A j \in S : k <= j
  <1> DEFINE Below == {ss \in Nat \X Nat : ss[1] < ss[2]}
  <1>1. IsWellFoundedOn(Below, Nat)
    BY NatLessThanWellFounded DEF OpToRel
  <1>2. \E k \in S : \A j \in S : <<j, k>> \notin Below
    <2> HIDE DEF Below
    <2> QED
      BY <1>1, WFMin
  <1>3. PICK k \in S : \A j \in S : <<j, k>> \notin Below
    BY <1>2
  <1>4. ASSUME NEW j \in S PROVE k <= j
    <2>1. <<j, k>> \in Nat \X Nat /\ ~(<<j, k>>[1] < <<j, k>>[2])
      BY <1>3
    <2> QED
      BY <2>1
  <1> QED
    BY <1>4

\* The loop of MatchChild is MatchChild as Templates defines it.
LEMMA LoopIsMatchChild ==
    ASSUME NEW from \in Levels, NEW line
    PROVE  FirstIn(Sorted(from), line) = MatchChild(from, line)
  <1> DEFINE A == {d \in Defs : <<d, line>> \in Exact}
             o == Sorted(from)
             hits == {k \in DOMAIN o : <<o[k], line>> \in Exact}
  <1>1. \A i \in DOMAIN from : from[i] \in Defs
    BY TemplateAssumption
  <1>2. DOMAIN o = DOMAIN from /\ DOMAIN from \subseteq Nat
    BY SortedAt, TemplateAssumption
  <1>3. \A k \in DOMAIN from : o[k] \in A <=> k \in hits
    BY <1>1, <1>2, SortedAt
  <1>4. MatchChild(from, line) = FirstOf(from, {i \in DOMAIN from : from[i] \in A})
    <2>1. {i \in DOMAIN from : <<from[i], line>> \in Exact} = {i \in DOMAIN from : from[i] \in A}
      BY <1>1
    <2> QED
      BY <2>1 DEF MatchChild
  <1> HIDE DEF A
  <1>5. CASE hits = {}
    <2>1. \A j \in DOMAIN from : Sorted(from)[j] \notin A
      BY <1>3, <1>5
    <2> QED
      BY <1>4, <1>5, <2>1, NoneTaken DEF FirstIn
  <1>6. CASE hits # {}
    <2>1. \E k \in hits : \A j \in hits : k <= j
      BY <1>2, <1>6, LeastOf
    <2> DEFINE k == CHOOSE x \in hits : \A j \in hits : x <= j
    <2>2. k \in hits /\ \A j \in hits : k <= j
      BY <2>1
    <2>3. FirstIn(o, line) = o[k]
      BY <1>6 DEF FirstIn
    <2> HIDE DEF k
    <2>4. k \in DOMAIN from /\ o[k] \in A
      BY <1>2, <1>3, <2>2
    <2>5. ASSUME NEW j \in DOMAIN from, j < k PROVE o[j] \notin A
      <3>1. j \in Nat /\ k \in Nat /\ ~(k <= j)
        BY <1>2, <2>4, <2>5
      <3>2. j \notin hits
        BY <2>2, <3>1
      <3> QED
        BY <1>3, <3>2
    <2> QED
      BY <1>4, <2>3, <2>4, <2>5, FirstTaken
  <1> QED
    BY <1>5, <1>6

-----------------------------------------------------------------------------
\* MatchChildOpener binds the line to this definition when it gets there.
Takes(c, d) ==
    IF d \in Openers
    THEN /\ <<d, c.line>> \in DOMAIN Prefix
         /\ MatchChild(c.from, Prefix[<<d, c.line>>]) = d
    ELSE <<d, c.line>> \in Exact

\* The walk has passed no candidate that it should have taken, and a nested
\* call is about the block opener the walk stands on.
Walked ==
    \A g \in Callers :
        /\ pc[g] = "walk" \/ nested[g] =>
            /\ call[g].opener
            /\ \A k \in DOMAIN order[g] : k < pos[g] => ~Takes(call[g], order[g][k])
        /\ nested[g] =>
            /\ pos[g] \in DOMAIN order[g]
            /\ Candidate(g) \in Openers /\ Opening(g) \in DOMAIN Prefix
        /\ pc[g] = "match" /\ ~nested[g] => ~call[g].opener

\* The empty cache.
LEMMA InitWalked == Init => Walked
  BY DEF Init, Walked

\* A walk or a nested call has positions.
LEMMA OrderDomain ==
    ASSUME IInv, NEW g \in Callers
    PROVE  DOMAIN order[g] \subseteq Nat /\ pos[g] \in Nat
  <1>1. order[g] \in Orders \cup {<<>>} /\ pos[g] \in Nat
    BY DEF IInv, TypeOK
  <1>2. ASSUME order[g] \in Orders PROVE DOMAIN order[g] \subseteq Nat
    <2>1. PICK from \in Levels : order[g] = Sorted(from)
      BY <1>2 DEF Orders
    <2> QED
      BY <2>1, SortedAt, TemplateAssumption
  <1> QED
    BY <1>1, <1>2

\* The nested call decides whether the block opener is taken.
LEMMA NestedTakes ==
    ASSUME IInv, Walked, NEW g \in Callers, MatchNested(g)
    PROVE  BindsAgain(g) <=> Takes(call[g], Candidate(g))
  <1>1. /\ From(g) \in Levels /\ inner[g] = Sorted(From(g))
        /\ Candidate(g) \in Openers /\ Opening(g) \in DOMAIN Prefix
    BY CallTyped DEF MatchNested, IInv, OwnOrder, Walked
  <1>2. FirstIn(inner[g], Prefix[Opening(g)]) = MatchChild(From(g), Prefix[Opening(g)])
    BY <1>1, LoopIsMatchChild
  <1> QED
    BY <1>1, <1>2 DEF BindsAgain, Takes, Opening, From

\* A loop that starts has passed nobody.
LEMMA ObtainWalked ==
    ASSUME IInv, Walked, NEW g \in Callers, pc[g] # "idle",
           NEW o, o = Sorted(From(g)), Obtain(g, o)
    PROVE  Walked'
  <1>1. DOMAIN o = DOMAIN From(g) /\ DOMAIN From(g) \subseteq Nat \ {0}
    BY CallTyped, SortedAt, TemplateAssumption DEF IInv
  <1>2. CASE call[g].opener /\ ~nested[g]
    <2>1. /\ order' = [order EXCEPT ![g] = o]
          /\ pos' = [pos EXCEPT ![g] = 1]
          /\ pc' = [pc EXCEPT ![g] = "walk"]
          /\ UNCHANGED <<call, nested>>
      BY <1>2 DEF Obtain
    <2>2. \A k \in DOMAIN order'[g] : ~(k < pos'[g])
      BY <1>1, <2>1 DEF IInv, TypeOK
    <2> QED
      BY <1>2, <2>1, <2>2 DEF IInv, TypeOK, Walked, Candidate, Opening
  <1>3. CASE ~(call[g].opener /\ ~nested[g])
    <2>1. /\ pc' = [pc EXCEPT ![g] = "match"]
          /\ UNCHANGED <<call, order, pos, nested>>
      BY <1>3 DEF Obtain
    <2> QED
      BY <1>3, <2>1 DEF IInv, TypeOK, Walked, Candidate, Opening
  <1> QED
    BY <1>2, <1>3

\* A call that returns has no walk.
LEMMA FinishWalked ==
    ASSUME IInv, Walked, NEW g \in Callers, NEW d, Finish(g, d)
    PROVE  Walked'
  BY DEF IInv, TypeOK, Walked, Candidate, Opening, Finish, Answer

\* The walk only passes what it does not take.
LEMMA AdvanceWalked ==
    ASSUME IInv, Walked, NEW g \in Callers, pc[g] = "walk" \/ nested[g],
           ~Takes(call[g], Candidate(g)), Advance(g)
    PROVE  Walked'
  <1>1. /\ pos' = [pos EXCEPT ![g] = @ + 1]
        /\ pc' = [pc EXCEPT ![g] = "walk"]
        /\ nested' = [nested EXCEPT ![g] = FALSE]
        /\ UNCHANGED <<call, order>>
    BY DEF Advance
  <1>2. \A k \in DOMAIN order[g] : k < pos[g] + 1 => ~Takes(call[g], order[g][k])
    <2> SUFFICES ASSUME NEW k \in DOMAIN order[g], k < pos[g] + 1
                 PROVE  ~Takes(call[g], order[g][k])
      OBVIOUS
    <2>1. k \in Nat /\ pos[g] \in Nat
      BY OrderDomain
    <2>2. k < pos[g] \/ k = pos[g]
      BY <2>1
    <2> QED
      BY <2>2 DEF Walked, Candidate
  <1>3. pos'[g] = pos[g] + 1 /\ order'[g] = order[g] /\ call'[g].opener
    BY <1>1 DEF IInv, TypeOK, Walked
  <1> QED
    BY <1>1, <1>2, <1>3 DEF IInv, TypeOK, Walked, Candidate, Opening

\* Every step keeps what the walk has left behind.
LEMMA NextWalked == IInv /\ Walked /\ [Next]_vars => Walked'
  <1> SUFFICES ASSUME IInv, Walked, [Next]_vars PROVE Walked'
    OBVIOUS
  <1>1. ASSUME NEW g \in Callers, Start(g)
        PROVE  Walked'
    <2>1. PICK c \in Calls : Call(g, c)
      BY <1>1 DEF Start
    <2>2. call' = [call EXCEPT ![g] = c] /\ pc[g] = "idle"
      BY <2>1, CallAssumption DEF Call, IInv, Calling
    <2> QED
      BY <1>1, <2>2 DEF Start, IInv, TypeOK, Calling, Walked, Candidate, Opening
  <1>2. ASSUME NEW g \in Callers, LoadHit(g)
        PROVE  Walked'
    <2>1. Lead(g) \in Defs
      BY <1>2, CallTyped DEF LoadHit, IInv
    <2>2. matchOrder[Lead(g)].ordered = Sorted(From(g))
      BY <1>2, <2>1 DEF LoadHit, Hit, IInv, EntriesSound
    <2> QED
      BY <1>2, <2>2, ObtainWalked DEF LoadHit
  <1>3. ASSUME NEW g \in Callers, LoadMiss(g)
        PROVE  Walked'
    BY <1>3 DEF LoadMiss, IInv, TypeOK, Walked, Candidate, Opening
  <1>4. ASSUME NEW g \in Callers, Store(g)
        PROVE  Walked'
    BY <1>4, ObtainWalked DEF Store, AfterStore, IInv, OwnOrder
  <1>5. ASSUME NEW g \in Callers, Match(g)
        PROVE  Walked'
    BY <1>5, FinishWalked DEF Match
  <1>6. ASSUME NEW g \in Callers, MatchNested(g)
        PROVE  Walked'
    <2>1. CASE BindsAgain(g)
      BY <1>6, <2>1, FinishWalked DEF MatchNested
    <2>2. CASE ~BindsAgain(g)
      <3>1. ~Takes(call[g], Candidate(g))
        BY <1>6, <2>2, NestedTakes
      <3> QED
        BY <1>6, <2>2, <3>1, AdvanceWalked DEF MatchNested
    <2> QED
      BY <2>1, <2>2
  <1>7. ASSUME NEW g \in Callers, WalkOpener(g)
        PROVE  Walked'
    <2>1. Candidate(g) \in Openers
      <3>1. Opening(g) \in DOMAIN Prefix /\ Opening(g)[1] = Candidate(g)
        BY <1>7 DEF WalkOpener, Opening
      <3> QED
        BY <3>1 DEF Openers
    <2>2. /\ pc[g] = "walk" /\ pos[g] \in DOMAIN order[g] /\ Opening(g) \in DOMAIN Prefix
          /\ nested' = [nested EXCEPT ![g] = TRUE]
          /\ pc' = [pc EXCEPT ![g] = "load"]
          /\ UNCHANGED <<call, order, pos>>
      BY <1>7 DEF WalkOpener
    <2> QED
      BY <2>1, <2>2 DEF IInv, TypeOK, Walked, Candidate, Opening
  <1>8. ASSUME NEW g \in Callers, WalkExact(g)
        PROVE  Walked'
    <2>1. CASE Opening(g) \in Exact
      BY <1>8, <2>1, FinishWalked DEF WalkExact
    <2>2. CASE Opening(g) \notin Exact
      BY <1>8, <2>2, AdvanceWalked DEF WalkExact, Takes, Opening
    <2> QED
      BY <2>1, <2>2
  <1>9. ASSUME NEW g \in Callers, WalkPast(g)
        PROVE  Walked'
    BY <1>9, AdvanceWalked DEF WalkPast, Takes, Opening
  <1>10. ASSUME NEW g \in Callers, WalkEnd(g)
         PROVE  Walked'
    BY <1>10, FinishWalked DEF WalkEnd
  <1>11. CASE UNCHANGED vars
    BY <1>11 DEF vars, cacheVars, Walked, Candidate, Opening
  <1> QED
    BY <1>1, <1>2, <1>3, <1>4, <1>5, <1>6, <1>7, <1>8, <1>9, <1>10, <1>11 DEF Next, Step

-----------------------------------------------------------------------------
\* What the walk takes first is what MatchChildOpener binds.
LEMMA WalkTakes ==
    ASSUME IInv, Walked, NEW g \in Callers, pc[g] = "walk" \/ nested[g], pc[g] # "idle"
    PROVE  /\ pos[g] \in DOMAIN order[g] /\ Takes(call[g], Candidate(g)) =>
                Bound(call[g]) = Candidate(g)
           /\ pos[g] \notin DOMAIN order[g] => Bound(call[g]) = NoDef
  <1> DEFINE c == call[g]
             from == c.from
             A == {d \in Defs : Takes(c, d)}
  <1>1. /\ c \in Calls /\ from \in Levels /\ From(g) = from /\ c.opener
        /\ order[g] = Sorted(from)
    BY CallTyped DEF IInv, OwnOrder, Walked, From
  <1>2. \A i \in DOMAIN from : from[i] \in Defs
    BY <1>1, TemplateAssumption
  <1>3. Bound(c) = FirstOf(from, {i \in DOMAIN from : from[i] \in A})
    <2>1. {i \in DOMAIN from : from[i] \in A} =
            {i \in DOMAIN from :
                IF from[i] \in Openers
                THEN /\ <<from[i], c.line>> \in DOMAIN Prefix
                     /\ MatchChild(from, Prefix[<<from[i], c.line>>]) = from[i]
                ELSE <<from[i], c.line>> \in Exact}
      BY <1>2 DEF Takes
    <2> QED
      BY <1>1, <2>1 DEF Bound, MatchChildOpener
  <1>4. DOMAIN order[g] = DOMAIN from /\ DOMAIN from = 1..Len(from) /\ Len(from) \in Nat
    BY <1>1, SortedAt, TemplateAssumption
  <1>5. \A k \in DOMAIN from : k < pos[g] => Sorted(from)[k] \notin A
    BY <1>1, <1>4 DEF Walked
  <1>6. ASSUME pos[g] \in DOMAIN order[g], Takes(c, Candidate(g))
        PROVE  Bound(c) = Candidate(g)
    <2>1. pos[g] \in DOMAIN from /\ Candidate(g) = Sorted(from)[pos[g]]
      BY <1>1, <1>4, <1>6 DEF Candidate
    <2>2. Candidate(g) \in A
      BY <1>1, <1>2, <1>6, <2>1, SortedAt
    <2> HIDE DEF A
    <2> QED
      BY <1>1, <1>3, <1>5, <2>1, <2>2, FirstTaken
  <1>7. ASSUME pos[g] \notin DOMAIN order[g]
        PROVE  Bound(c) = NoDef
    <2>1. pos[g] \in Nat \ {0}
      BY DEF IInv, TypeOK
    <2>2. \A k \in DOMAIN from : k < pos[g]
      BY <1>4, <1>7, <2>1
    <2> HIDE DEF A
    <2> QED
      BY <1>1, <1>3, <1>5, <2>2, NoneTaken
  <1> QED
    BY <1>6, <1>7

\* Every step answers a call as Matching does, or changes no call and no answer.
LEMMA StepMatches == IInv /\ Walked /\ [Next]_vars => [MatchNext]_<<call, answer>>
  <1> SUFFICES ASSUME IInv, Walked, [Next]_vars PROVE [MatchNext]_<<call, answer>>
    OBVIOUS
  <1>1. ASSUME NEW g \in Callers, Start(g)
        PROVE  MatchNext
    BY <1>1 DEF Start, MatchNext
  <1>2. ASSUME NEW g \in Callers, LoadHit(g) \/ LoadMiss(g) \/ Store(g)
        PROVE  UNCHANGED <<call, answer>>
    BY <1>2 DEF LoadHit, LoadMiss, Store, AfterStore, Obtain
  <1>3. ASSUME NEW g \in Callers, Match(g)
        PROVE  MatchNext
    <2>1. call[g] \in Calls /\ From(g) \in Levels /\ ~call[g].opener
      BY <1>3, CallTyped DEF Match, IInv, Walked
    <2>2. inner[g] = Sorted(From(g))
      BY <1>3 DEF Match, IInv, OwnOrder
    <2>3. FirstIn(inner[g], call[g].line) = Bound(call[g])
      BY <2>1, <2>2, LoopIsMatchChild DEF Bound, From
    <2> QED
      BY <1>3, <2>3 DEF Match, Finish, MatchNext
  <1>4. ASSUME NEW g \in Callers, MatchNested(g)
        PROVE  MatchNext \/ UNCHANGED <<call, answer>>
    <2>1. CASE BindsAgain(g)
      <3>1. Takes(call[g], Candidate(g)) /\ pos[g] \in DOMAIN order[g]
        BY <1>4, <2>1, NestedTakes DEF MatchNested, Walked
      <3>2. Bound(call[g]) = Candidate(g)
        BY <1>4, <3>1, WalkTakes DEF MatchNested
      <3> QED
        BY <1>4, <2>1, <3>2 DEF MatchNested, Finish, MatchNext
    <2>2. CASE ~BindsAgain(g)
      BY <1>4, <2>2 DEF MatchNested, Advance
    <2> QED
      BY <2>1, <2>2
  <1>5. ASSUME NEW g \in Callers, WalkOpener(g) \/ WalkPast(g)
        PROVE  UNCHANGED <<call, answer>>
    BY <1>5 DEF WalkOpener, WalkPast, Advance
  <1>6. ASSUME NEW g \in Callers, WalkExact(g)
        PROVE  MatchNext \/ UNCHANGED <<call, answer>>
    <2>1. CASE Opening(g) \in Exact
      <3>1. Takes(call[g], Candidate(g))
        BY <1>6, <2>1 DEF WalkExact, Takes, Opening
      <3>2. Bound(call[g]) = Candidate(g)
        BY <1>6, <3>1, WalkTakes DEF WalkExact
      <3> QED
        BY <1>6, <2>1, <3>2 DEF WalkExact, Finish, MatchNext
    <2>2. CASE Opening(g) \notin Exact
      BY <1>6, <2>2 DEF WalkExact, Advance
    <2> QED
      BY <2>1, <2>2
  <1>7. ASSUME NEW g \in Callers, WalkEnd(g)
        PROVE  MatchNext
    <2>1. Bound(call[g]) = NoDef
      BY <1>7, WalkTakes DEF WalkEnd
    <2> QED
      BY <1>7, <2>1 DEF WalkEnd, Finish, MatchNext
  <1>8. CASE UNCHANGED vars
    BY <1>8 DEF vars
  <1> QED
    BY <1>1, <1>2, <1>3, <1>4, <1>5, <1>6, <1>7, <1>8 DEF Next, Step

\* Matching is linearizable: every call is answered as if it were the only one,
\* whatever the goroutines that share the cache store in between.
THEOREM Refinement == Spec => MatchSpec
  <1>1. Init => MatchInit
    BY DEF Init
  <1> QED
    BY <1>1, InitIInv, NextIInv, InitWalked, NextWalked, StepMatches, PTL DEF Spec, MatchSpec
=============================================================================
