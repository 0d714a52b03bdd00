------------------------------- MODULE Import -------------------------------
(***************************************************************************)
(* confetti.applyTextOutsideBlocks in front of the parser: text rules must *)
(* not touch the body of a block, but where the blocks are depends on the  *)
(* text.  Two BlockSpans walks, one over the source and one over the text  *)
(* with every rule applied everywhere, say which lines keep their source.  *)
(* Parse then reads the mixture.                                           *)
(*                                                                         *)
(* All three walks go through the lines in order and a line is mixed from  *)
(* what the two walks say of it, so one step reads one line with all       *)
(* three.                                                                  *)
(***************************************************************************)
EXTENDS Parse

CONSTANT Rule(_)  \* transform.ApplyText on a line: what all the rules make of it

ASSUME ImportAssumption ==
    \A raw \in RawLines : Rule(raw) \in [indent : Nat, words : Lines \cup {<<>>}]

VARIABLES
    source,       \* the lines before the rules
    rawSc,        \* the walk over the source
    cookedSc      \* the walk over the rules applied everywhere

importVars == <<vars, source, rawSc, cookedSc>>

ImportInit ==
    /\ Init
    /\ source = <<>>
    /\ rawSc = NewScanner /\ cookedSc = NewScanner

\* Seeded fault: only the blocks of the source are kept.
ProtectedRaw(raw) == InSpan(rawSc, raw)

\* The union of the two span maps.
Protected(raw) == InSpan(rawSc, raw) \/ InSpan(cookedSc, Rule(raw))

Mixed(raw) == IF Protected(raw) THEN raw ELSE Rule(raw)

ImportLine(raw) ==
    /\ ParseLine(Mixed(raw))
    /\ source' = Append(source, raw)
    /\ rawSc' = Scanned(rawSc, raw)
    /\ cookedSc' = Scanned(cookedSc, Rule(raw))

ImportEnd == EndOfText /\ UNCHANGED <<source, rawSc, cookedSc>>

ImportNext ==
    \/ ImportEnd
    \/ Len(text) < MaxLines /\ \E raw \in RawLines : ImportLine(raw)

ImportSpec == ImportInit /\ [][ImportNext]_importVars

-----------------------------------------------------------------------------
\* A rule has changed line j, which has the delimiter of line n in it.
DelimiterDropped(n, j) ==
    /\ text[j] # source[j]
    /\ \E d \in Openers :
        /\ <<d, text[n].words>> \in DOMAIN Prefix
        /\ Has(source[j].words, Term(d, Kept(d, text[n].words)))

\* Text rules do not alter block content: a line that the parser takes into a
\* block is the line of the source, although the blocks it finds are those of
\* a third text.  The exception are texts in which the rules take away a
\* delimiter: there Parse can find a block that neither walk has seen.
BlocksAreVerbatim ==
    \A i \in DOMAIN kinds : kinds[i] \in {"body", "end"} =>
        \/ text[i] = source[i]
        \/ \E n, j \in 1..i : DelimiterDropped(n, j)
=============================================================================
