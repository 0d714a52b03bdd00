----------------------------- MODULE Templates ------------------------------
(***************************************************************************)
(* Which definition a configuration line binds to: the rule of             *)
(* schema.MatchChild and schema.MatchChildOpener as functions of the       *)
(* candidates and the line.                                                *)
(*                                                                         *)
(* A template is what it does to lines: its literal length, the lines it   *)
(* matches exactly, and for a definition that opens a delimited block the  *)
(* prefix of a line that ends at the delimiter.                            *)
(***************************************************************************)
EXTENDS Integers, Sequences

CONSTANTS
    Levels,       \* the candidate slices: the roots and the children of sections
    Lines,
    LitLen,       \* per definition, the literal length of its template
    Exact,        \* the pairs of a definition and a line it matches
    Prefix,       \* for pairs of a block opener and a line, the retained prefix
    NoDef         \* no definition matches

Defs == DOMAIN LitLen

ASSUME TemplateAssumption ==
    /\ Levels \subseteq Seq(Defs) /\ <<>> \notin Levels
    /\ LitLen \in [Defs -> Nat] /\ NoDef \notin Defs
    /\ Exact \subseteq Defs \X Lines
    /\ DOMAIN Prefix \subseteq Defs \X Lines
    /\ \A dl \in DOMAIN Prefix : Prefix[dl] \in Lines

\* The definitions that open a delimited block.
Openers == {dl[1] : dl \in DOMAIN Prefix}

\* i comes before j in a candidate slice: the longer literal, then the earlier.
Precedes(from, i, j) ==
    \/ LitLen[from[i]] > LitLen[from[j]]
    \/ LitLen[from[i]] = LitLen[from[j]] /\ i < j

\* The candidate of S that precedes all others; there is one unless S is empty.
FirstOf(from, S) ==
    LET First(i) == \A j \in S \ {i} : Precedes(from, i, j)
    IN  IF \E i \in S : First(i) THEN from[CHOOSE i \in S : First(i)] ELSE NoDef

\* MatchChild binds the most specific candidate that matches.
MatchChild(from, line) ==
    FirstOf(from, {i \in DOMAIN from : <<from[i], line>> \in Exact})

\* MatchChildOpener also takes a block opener that matches a prefix, if the
\* prefix, which is all the node keeps, binds the opener again.
MatchChildOpener(from, line) ==
    FirstOf(from,
        {i \in DOMAIN from :
            IF from[i] \in Openers
            THEN /\ <<from[i], line>> \in DOMAIN Prefix
                 /\ MatchChild(from, Prefix[<<from[i], line>>]) = from[i]
            ELSE <<from[i], line>> \in Exact})
=============================================================================
