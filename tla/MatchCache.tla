----------------------------- MODULE MatchCache -----------------------------
(***************************************************************************)
(* orderedCandidates, MatchChild and MatchChildOpener as goroutines that   *)
(* share a schema run them.  The order of a candidate slice is cached in   *)
(* the definition that leads the slice; slices that share their first      *)
(* definition, by Adopt or because a slice has grown since, share the one  *)
(* cache entry and replace each other's.                                   *)
(*                                                                         *)
(* One step is one access to the cache or one turn of a loop.  An entry is *)
(* written once, before its pointer is stored, so a load sees it whole.    *)
(***************************************************************************)
EXTENDS Matching, FiniteSets

CONSTANT NoMemo

\* The number of candidates up to and with the i-th, in descending literal
\* length and in declaration order among equals.
Rank(from, i) == Cardinality({j \in DOMAIN from : j = i \/ Precedes(from, j, i)})

\* slices.SortStableFunc of a copy.
Sorted(from) ==
    [k \in DOMAIN from |-> from[CHOOSE i \in DOMAIN from : Rank(from, i) = k]]

Orders == {Sorted(from) : from \in Levels}

Memos == [src : Levels, ordered : Orders]

ASSUME MemoAssumption == NoMemo \notin Memos

VARIABLES
    matchOrder,   \* per definition, its cached order or NoMemo
    pc,           \* per caller: "idle", "load", "store", "match" or "walk"
    sorted,       \* per caller: the order it computed and has yet to store
    order,        \* per caller: the candidates MatchChildOpener goes through
    pos,          \* per caller: its position among them
    nested,       \* per caller: whether it checks a retained prefix
    inner         \* per caller: the candidates MatchChild goes through

cacheVars == <<matchOrder, pc, sorted, order, pos, nested, inner>>
vars == <<call, answer, cacheVars>>

\* What an answer may be is what MatchSpec says.
TypeOK ==
    /\ call \in [Callers -> Calls \cup {NoCall}]
    /\ matchOrder \in [Defs -> Memos \cup {NoMemo}]
    /\ pc \in [Callers -> {"idle", "load", "store", "match", "walk"}]
    /\ sorted \in [Callers -> Orders \cup {<<>>}]
    /\ order \in [Callers -> Orders \cup {<<>>}]
    /\ pos \in [Callers -> Nat \ {0}]
    /\ nested \in [Callers -> BOOLEAN]
    /\ inner \in [Callers -> Orders \cup {<<>>}]

Init ==
    /\ MatchInit
    /\ matchOrder = [d \in Defs |-> NoMemo]
    /\ pc = [g \in Callers |-> "idle"]
    /\ sorted = [g \in Callers |-> <<>>]
    /\ order = [g \in Callers |-> <<>>]
    /\ pos = [g \in Callers |-> 1]
    /\ nested = [g \in Callers |-> FALSE]
    /\ inner = [g \in Callers |-> <<>>]

-----------------------------------------------------------------------------
(* orderedCandidates.                                                      *)

From(g) == call[g].from
Lead(g) == From(g)[1]

\* Seeded fault: any entry of the lead is taken.
HitAnyMemo(memo, from) == memo # NoMemo

\* An entry serves only the candidates it was computed from.
Hit(memo, from) == memo # NoMemo /\ memo.src = from

\* The caller has an order: the outer loop of MatchChildOpener starts, or the
\* loop of a MatchChild, its own or the nested one.
Obtain(g, o) ==
    IF call[g].opener /\ ~nested[g]
    THEN /\ order' = [order EXCEPT ![g] = o]
         /\ pos' = [pos EXCEPT ![g] = 1]
         /\ pc' = [pc EXCEPT ![g] = "walk"]
         /\ UNCHANGED <<call, answer, nested, inner>>
    ELSE /\ inner' = [inner EXCEPT ![g] = o]
         /\ pc' = [pc EXCEPT ![g] = "match"]
         /\ UNCHANGED <<call, answer, order, pos, nested>>

\* lead.matchOrder.Load() and the comparison with the caller's candidates.
LoadHit(g) ==
    /\ pc[g] = "load" /\ Hit(matchOrder[Lead(g)], From(g))
    /\ Obtain(g, matchOrder[Lead(g)].ordered)
    /\ UNCHANGED <<matchOrder, sorted>>

LoadMiss(g) ==
    /\ pc[g] = "load" /\ ~Hit(matchOrder[Lead(g)], From(g))
    /\ sorted' = [sorted EXCEPT ![g] = Sorted(From(g))]
    /\ pc' = [pc EXCEPT ![g] = "store"]
    /\ UNCHANGED <<call, answer, matchOrder, order, pos, nested, inner>>

\* Seeded fault: the order is read back from the cache.
StoreAndReload(g) ==
    /\ pc' = [pc EXCEPT ![g] = "load"]
    /\ UNCHANGED <<call, answer, order, pos, nested, inner>>

\* The caller goes on with the order it computed, whoever replaces the entry.
AfterStore(g) == Obtain(g, sorted[g])

\* lead.matchOrder.Store(memo)
Store(g) ==
    /\ pc[g] = "store"
    /\ matchOrder' = [matchOrder EXCEPT
            ![Lead(g)] = [src |-> From(g), ordered |-> sorted[g]]]
    /\ AfterStore(g)
    /\ sorted' = [sorted EXCEPT ![g] = <<>>]

-----------------------------------------------------------------------------
(* MatchChild and MatchChildOpener.                                        *)

Start(g) ==
    /\ \E c \in Calls : Call(g, c)
    /\ pc' = [pc EXCEPT ![g] = "load"]
    /\ UNCHANGED <<matchOrder, sorted, order, pos, nested, inner>>

\* The call returns d, and its local variables are gone.
Finish(g, d) ==
    /\ Answer(g, d)
    /\ pc' = [pc EXCEPT ![g] = "idle"]
    /\ order' = [order EXCEPT ![g] = <<>>]
    /\ pos' = [pos EXCEPT ![g] = 1]
    /\ nested' = [nested EXCEPT ![g] = FALSE]
    /\ inner' = [inner EXCEPT ![g] = <<>>]
    /\ UNCHANGED <<matchOrder, sorted>>

\* The first definition of an ordered slice that matches the line.
FirstIn(o, line) ==
    LET hits == {k \in DOMAIN o : <<o[k], line>> \in Exact}
    IN  IF hits = {} THEN NoDef
        ELSE o[CHOOSE k \in hits : \A j \in hits : k <= j]

\* The loop of a MatchChild that was called directly.
Match(g) ==
    /\ pc[g] = "match" /\ ~nested[g]
    /\ Finish(g, FirstIn(inner[g], call[g].line))

Candidate(g) == order[g][pos[g]]
Opening(g) == <<Candidate(g), call[g].line>>

\* The next candidate of the outer loop.
Advance(g) ==
    /\ pos' = [pos EXCEPT ![g] = @ + 1]
    /\ pc' = [pc EXCEPT ![g] = "walk"]
    /\ nested' = [nested EXCEPT ![g] = FALSE]
    /\ inner' = [inner EXCEPT ![g] = <<>>]
    /\ UNCHANGED <<call, answer, matchOrder, sorted, order>>

\* Seeded fault: it is enough that the prefix binds some definition.
BindsSomething(g) == FirstIn(inner[g], Prefix[Opening(g)]) # NoDef

\* The retained prefix binds the opener again.
BindsAgain(g) == FirstIn(inner[g], Prefix[Opening(g)]) = Candidate(g)

\* The loop of the nested MatchChild.
MatchNested(g) ==
    /\ pc[g] = "match" /\ nested[g]
    /\ \/ BindsAgain(g) /\ Finish(g, Candidate(g))
       \/ ~BindsAgain(g) /\ Advance(g)

\* A block opener that matches a prefix: does the prefix bind it?
WalkOpener(g) ==
    /\ pc[g] = "walk" /\ pos[g] \in DOMAIN order[g]
    /\ Opening(g) \in DOMAIN Prefix
    /\ nested' = [nested EXCEPT ![g] = TRUE]
    /\ pc' = [pc EXCEPT ![g] = "load"]
    /\ UNCHANGED <<call, answer, matchOrder, sorted, order, pos, inner>>

WalkExact(g) ==
    /\ pc[g] = "walk" /\ pos[g] \in DOMAIN order[g]
    /\ Candidate(g) \notin Openers
    /\ \/ Opening(g) \in Exact /\ Finish(g, Candidate(g))
       \/ Opening(g) \notin Exact /\ Advance(g)

\* A block opener that matches no prefix.
WalkPast(g) ==
    /\ pc[g] = "walk" /\ pos[g] \in DOMAIN order[g]
    /\ Candidate(g) \in Openers /\ Opening(g) \notin DOMAIN Prefix
    /\ Advance(g)

WalkEnd(g) ==
    /\ pc[g] = "walk" /\ pos[g] \notin DOMAIN order[g]
    /\ Finish(g, NoDef)

-----------------------------------------------------------------------------
Step(g) ==
    \/ LoadHit(g) \/ LoadMiss(g) \/ Store(g)
    \/ Match(g) \/ MatchNested(g)
    \/ WalkOpener(g) \/ WalkExact(g) \/ WalkPast(g) \/ WalkEnd(g)

Next == \E g \in Callers : Start(g) \/ Step(g)

Spec == Init /\ [][Next]_vars

\* The scheduler runs every goroutine that can take a step.
FairSpec == Spec /\ \A g \in Callers : WF_vars(Step(g))

-----------------------------------------------------------------------------
\* A caller goes through its own candidates, most specific first, whatever
\* slice the shared entry holds at that moment: orderedCandidates compares the
\* entry's source and keeps the order it computed.
OwnOrder ==
    \A g \in Callers :
        /\ pc[g] = "match" => inner[g] = Sorted(From(g))
        /\ pc[g] = "walk" \/ nested[g] => order[g] = Sorted(From(g))
        /\ pc[g] = "store" => sorted[g] = Sorted(From(g))

\* Callers that replace each other's entry do not keep each other from
\* finishing: nobody waits for the cache to hold what it stored.
EveryCallReturns ==
    \A g \in Callers : (call[g] # NoCall) ~> (call[g] = NoCall)
=============================================================================
