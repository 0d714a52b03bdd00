----------------------------- MODULE MCSchedule -----------------------------
(***************************************************************************)
(* Instances of the scheduler: operations of a small section tree.  S and T  *)
(* are root sections, U a section inside S.  Every key extends the key of  *)
(* its section, as collect builds them.                                    *)
(***************************************************************************)
EXTENDS Schedule

Leaf    == [key |-> <<1>>,       secs |-> <<>>]
HeaderS == [key |-> <<2>>,       secs |-> <<>>]
InS     == [key |-> <<2, 1>>,    secs |-> <<"S">>]
InU     == [key |-> <<2, 3, 1>>, secs |-> <<"S", "U">>]
LateInS == [key |-> <<2, 4>>,    secs |-> <<"S">>]
InT     == [key |-> <<3, 1>>,    secs |-> <<"T">>]

Templates == {Leaf, HeaderS, InS, InU, LateInS, InT}

Distinct(l) == \A i, j \in DOMAIN l : l[i] = l[j] => i = j

\* Every way to collect up to three of the operations.
ShortLayouts ==
    {l \in UNION {[1..n -> Templates] : n \in 0..3} : Distinct(l)}

\* Two collections of four operations, in key order and against it.
LongLayouts == {<<InS, InU, LateInS, InT>>, <<InT, LateInS, HeaderS, InU>>}

AllLayouts == ShortLayouts \cup LongLayouts
=============================================================================
