------------------------------ MODULE Matching ------------------------------
(***************************************************************************)
(* What the callers of schema.MatchChild and schema.MatchChildOpener may   *)
(* rely on.  A call is answered in one step from its own candidates, as if *)
(* no other call existed.                                                  *)
(***************************************************************************)
EXTENDS Templates

CONSTANTS
    Callers,      \* the goroutines that match lines
    NoCall        \* a caller that is not matching a line

Calls == [opener : BOOLEAN, from : Levels, line : Lines]

ASSUME CallAssumption == NoCall \notin Calls

VARIABLES call, answer     \* per caller: its pending call, its last answer

Bound(c) ==
    IF c.opener THEN MatchChildOpener(c.from, c.line) ELSE MatchChild(c.from, c.line)

-----------------------------------------------------------------------------
MatchInit ==
    /\ call = [g \in Callers |-> NoCall]
    /\ answer = [g \in Callers |-> NoDef]

Call(g, c) ==
    /\ call[g] = NoCall
    /\ call' = [call EXCEPT ![g] = c]
    /\ answer' = [answer EXCEPT ![g] = NoDef]

Answer(g, d) ==
    /\ call[g] # NoCall
    /\ answer' = [answer EXCEPT ![g] = d]
    /\ call' = [call EXCEPT ![g] = NoCall]

MatchNext ==
    \E g \in Callers :
        \/ \E c \in Calls : Call(g, c)
        \/ Answer(g, Bound(call[g]))

\* Every answer is the one the call's own candidates give.
MatchSpec == MatchInit /\ [][MatchNext]_<<call, answer>>
=============================================================================
