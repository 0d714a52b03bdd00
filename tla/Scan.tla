-------------------------------- MODULE Scan --------------------------------
(***************************************************************************)
(* The scanner of package parse: the stack of sections that indentation    *)
(* opens and closes, and the raw blocks that hide lines from it.  Parse    *)
(* and BlockSpans drive one scanner each and must see the same lines.      *)
(*                                                                         *)
(* A raw line is its indentation and its words.  Delimiters are words, and *)
(* spaces next to them are not told apart.                                 *)
(***************************************************************************)
EXTENDS Templates

CONSTANTS
    Roots,        \* the definitions a schema declares at the top level
    Children,     \* per definition, the definitions below it
    BlockKind,    \* per definition, "none", "until" or "delim"
    Terminator,   \* per BlockUntil definition, the word that ends its block
    RawLines,     \* the lines a text may have
    NoTerm        \* no block is open

Words == UNION {{l[i] : i \in DOMAIN l} : l \in Lines}

ASSUME ScanAssumption ==
    /\ Lines \subseteq Seq(Words) /\ <<>> \notin Lines
    /\ Roots \in Seq(Defs) /\ Children \in [Defs -> Seq(Defs)]
    /\ BlockKind \in [Defs -> {"none", "until", "delim"}]
    /\ Openers = {d \in Defs : BlockKind[d] = "delim"}
    /\ \A d \in Defs : BlockKind[d] = "until" => Terminator[d] \in Words
    /\ RawLines \subseteq [indent : Nat, words : Lines \cup {<<>>}]
    /\ NoTerm \notin Words

\* setBlock refuses a block below which something is declared, and a child of
\* a block (BlockStandsAlone of Builder).
ASSUME BlockAssumption == \A d \in Defs : BlockKind[d] # "none" => Children[d] = <<>>

Frame(indent, children) == [indent |-> indent, children |-> children]

\* newScanner
NewScanner ==
    [stack |-> <<Frame(-1, Roots)>>, term |-> NoTerm, delim |-> FALSE]

InBlock(sc) == sc.term # NoTerm

Blank(raw) == raw.words = <<>>

-----------------------------------------------------------------------------
(* The end of a block.                                                     *)

Has(words, term) == \E i \in DOMAIN words : words[i] = term

\* splitAtTerm cuts at the first terminator.
CutAt(words, term) ==
    CHOOSE i \in DOMAIN words :
        words[i] = term /\ \A j \in 1..(i - 1) : words[j] # term
Before(words, term) == SubSeq(words, 1, CutAt(words, term) - 1)
After(words, term) == SubSeq(words, CutAt(words, term) + 1, Len(words))

\* A delimiter ends its block anywhere in a line, a BlockUntil terminator only
\* as a line of its own that is not indented.
Closes(sc, raw) ==
    IF sc.delim THEN Has(raw.words, sc.term)
    ELSE raw = [indent |-> 0, words |-> <<sc.term>>]

-----------------------------------------------------------------------------
(* The sections.                                                           *)

\* Seeded fault: a line on the level of a section stays inside it.
KeepsLine(frame, indent) == frame.indent <= indent

\* A section stays open for deeper lines.
Encloses(frame, indent) == frame.indent < indent

\* Sections at or below the line's indentation are popped: the topmost that
\* encloses the line stays on top, or the root.
Open(stack, indent) ==
    LET Topmost(k) ==
            /\ Encloses(stack[k], indent)
            /\ \A j \in (k + 1)..Len(stack) : ~Encloses(stack[j], indent)
    IN  IF \E k \in 2..Len(stack) : Topmost(k)
        THEN CHOOSE k \in 2..Len(stack) : Topmost(k)
        ELSE 1
Popped(sc, raw) == SubSeq(sc.stack, 1, Open(sc.stack, raw.indent))

\* The definition of a line that is neither blank nor in a block.
BoundDef(sc, raw) ==
    MatchChildOpener(sc.stack[Open(sc.stack, raw.indent)].children, raw.words)

\* What the node of a line keeps of it, and what is left for the block.
Kept(d, words) == IF d \in Openers THEN Prefix[<<d, words>>] ELSE words
Rest(d, words) == SubSeq(words, Len(Kept(d, words)) + 1, Len(words))

\* Block.Term: the captured delimiter, which ends what the node keeps, or the
\* declared terminator.
Term(d, kept) == IF BlockKind[d] = "delim" THEN kept[Len(kept)] ELSE Terminator[d]

\* A delimited block that ends on the line that opens it.
ClosedAtOnce(d, words) ==
    BlockKind[d] = "delim" /\ Has(Rest(d, words), Term(d, Kept(d, words)))

OpensBlock(d) == BlockKind[d] # "none"

-----------------------------------------------------------------------------
(* scanner.line: what each kind of line leaves of the scanner.  Without an *)
(* open block delim means nothing and is FALSE.                            *)

AfterBody(sc) == sc
AfterBlockEnd(sc) == [sc EXCEPT !.term = NoTerm, !.delim = FALSE]

\* Seeded fault: an unknown line does not isolate the deeper lines.
AfterUnknownFlat(sc, raw) == [sc EXCEPT !.stack = Popped(sc, raw)]

\* The frame of an unknown line has no children, so nothing matches below it.
AfterUnknown(sc, raw) ==
    [sc EXCEPT !.stack = Append(Popped(sc, raw), Frame(raw.indent, <<>>))]

\* Seeded fault: a block that ends on its first line stays open.
AfterMatchedOpen(sc, raw, d) ==
    [stack |-> Append(Popped(sc, raw), Frame(raw.indent, Children[d])),
     term |-> IF OpensBlock(d) THEN Term(d, Kept(d, raw.words)) ELSE NoTerm,
     delim |-> BlockKind[d] = "delim"]

AfterMatched(sc, raw, d) ==
    LET leftOpen == OpensBlock(d) /\ ~ClosedAtOnce(d, raw.words)
    IN  [stack |-> Append(Popped(sc, raw), Frame(raw.indent, Children[d])),
         term |-> IF leftOpen THEN Term(d, Kept(d, raw.words)) ELSE NoTerm,
         delim |-> leftOpen /\ BlockKind[d] = "delim"]

Kind(sc, raw) ==
    IF InBlock(sc) THEN IF Closes(sc, raw) THEN "end" ELSE "body"
    ELSE IF Blank(raw) THEN "blank"
    ELSE IF BoundDef(sc, raw) = NoDef THEN "unknown"
    ELSE "matched"

Scanned(sc, raw) ==
    CASE Kind(sc, raw) = "blank" -> sc
      [] Kind(sc, raw) = "body" -> AfterBody(sc)
      [] Kind(sc, raw) = "end" -> AfterBlockEnd(sc)
      [] Kind(sc, raw) = "unknown" -> AfterUnknown(sc, raw)
      [] Kind(sc, raw) = "matched" -> AfterMatched(sc, raw, BoundDef(sc, raw))

\* BlockSpans marks a block from its opener to its terminator.
InSpan(sc, raw) ==
    \/ Kind(sc, raw) \in {"body", "end"}
    \/ Kind(sc, raw) = "matched" /\ OpensBlock(BoundDef(sc, raw))
=============================================================================
