----------------------------- MODULE RoundTrip ------------------------------
(***************************************************************************)
(* render.Render and its contract with the import: a tree that has been    *)
(* imported, rendered and imported again is the same tree.                 *)
(*                                                                         *)
(* A behaviour reads any text, renders the tree and reads the rendering,   *)
(* both times with the rules of the platform.                              *)
(***************************************************************************)
EXTENDS Import

LOCAL INSTANCE FiniteSets
LOCAL INSTANCE SequencesExt

CONSTANTS
    ExitToken,    \* per definition, the words that close its section, if any
    Vocabularies, \* bound: the [lines, max] of the texts, their lines and length
    NoTree        \* the first text is still being read

ASSUME RoundTripAssumption ==
    /\ \A d \in DOMAIN ExitToken : d \in Defs /\ BlockKind[d] = "none"
    /\ \A v \in Vocabularies : v.lines \subseteq RawLines /\ v.max <= MaxLines

VARIABLES
    first,        \* the tree of the first text
    pending       \* the lines of the rendering still to be read

rtVars == <<importVars, first, pending>>

RTInit == ImportInit /\ first = NoTree /\ pending = <<>>

-----------------------------------------------------------------------------
(* Rendering.                                                              *)

Depth[n \in DOMAIN cfg] == IF cfg[n].parent = Root THEN 0 ELSE Depth[cfg[n].parent] + 1

Indented(n, words) == [indent |-> 2 * Depth[n], words |-> words]

Joined(raw, words) == [raw EXCEPT !.words = @ \o words]

\* Seeded fault: the body starts on a line of its own.
DelimLinesApart(n) ==
    LET node == cfg[n]
        last == Len(node.body)
    IN  <<Indented(n, node.words)>> \o SubSeq(node.body, 1, last - 1)
            \o <<Joined(node.body[last], <<Term(node.def, node.words)>>)>>

\* Node.DelimLines: the opener runs into the first piece of the body and the
\* last piece into the delimiter; an empty body renders to nothing.
DelimLines(n) ==
    LET node == cfg[n]
        last == Len(node.body)
        term == <<Term(node.def, node.words)>>
    IN  IF EmptyDelimBody(node.body) THEN <<>>
        ELSE IF last = 1
        THEN <<Indented(n, node.words \o node.body[1].words \o term)>>
        ELSE <<Indented(n, node.words \o node.body[1].words)>>
                \o SubSeq(node.body, 2, last - 1) \o <<Joined(node.body[last], term)>>

\* A BlockUntil block: the body at column zero and the terminator below it.
UntilLines(n) ==
    <<Indented(n, cfg[n].words)>> \o cfg[n].body
        \o <<[indent |-> 0, words |-> <<Terminator[cfg[n].def]>>]>>

ChildNodes(n) == SetToSortSeq({m \in DOMAIN cfg : cfg[m].parent = n}, <)

Exit(n) ==
    IF cfg[n].def \in DOMAIN ExitToken
    THEN <<Indented(n, ExitToken[cfg[n].def])>> ELSE <<>>

\* renderNode
NodeLines[n \in DOMAIN cfg] ==
    CASE BlockKind[cfg[n].def] = "delim" -> DelimLines(n)
      [] BlockKind[cfg[n].def] = "until" -> UntilLines(n)
      [] BlockKind[cfg[n].def] = "none" ->
            <<Indented(n, cfg[n].words)>>
                \o FlattenSeq([i \in DOMAIN ChildNodes(n) |-> NodeLines[ChildNodes(n)[i]]])
                \o Exit(n)

\* The text ends with a newline, so its last item is empty.
Rendered ==
    FlattenSeq([i \in DOMAIN ChildNodes(Root) |-> NodeLines[ChildNodes(Root)[i]]])
        \o <<EmptyLine>>

-----------------------------------------------------------------------------
\* The lines of the source come from one of the vocabularies.
ReadFirst ==
    /\ first = NoTree
    /\ \E v \in Vocabularies : \E raw \in v.lines :
        /\ Len(source) < v.max /\ ToSet(source) \subseteq v.lines
        /\ ImportLine(raw)
    /\ UNCHANGED <<first, pending>>

EndFirst == first = NoTree /\ ImportEnd /\ UNCHANGED <<first, pending>>

Rerender ==
    /\ done /\ first = NoTree
    /\ first' = cfg
    /\ pending' = Rendered
    /\ text' = <<>> /\ kinds' = <<>> /\ sc' = NewScanner /\ nodes' = <<Root>>
    /\ cfg' = <<>> /\ blk' = NoBlock /\ errors' = {} /\ warnings' = {}
    /\ source' = <<>> /\ rawSc' = NewScanner /\ cookedSc' = NewScanner
    /\ done' = FALSE

ReadRendered ==
    /\ first # NoTree /\ pending # <<>>
    /\ ImportLine(Head(pending))
    /\ pending' = Tail(pending)
    /\ UNCHANGED first

EndRendered ==
    /\ first # NoTree /\ pending = <<>>
    /\ ImportEnd
    /\ UNCHANGED <<first, pending>>

RTNext == ReadFirst \/ EndFirst \/ Rerender \/ ReadRendered \/ EndRendered

RTSpec == RTInit /\ [][RTNext]_rtVars

-----------------------------------------------------------------------------
\* A tree without its line numbers: the nodes in order, each with the position
\* of its parent.
Shape(tree) ==
    LET order == SetToSortSeq(DOMAIN tree, <)
        Position(n) == Cardinality({m \in DOMAIN tree : m <= n /\ n # Root})
    IN  [i \in DOMAIN order |->
            [tree[order[i]] EXCEPT !.parent = Position(tree[order[i]].parent)]]

\* Rendering is canonical: whatever text was imported, its tree is imported
\* again from its rendering without a word, with every block body as it was.
\* The tokens that close sections are noise to the platform's rules.
ReadsBack ==
    done /\ first # NoTree => Shape(cfg) = Shape(first) /\ warnings = {} /\ errors = {}
=============================================================================
