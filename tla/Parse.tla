------------------------------- MODULE Parse --------------------------------
(***************************************************************************)
(* parse.Parse: the tree that a text becomes, line by line.  The parser    *)
(* keeps a stack of nodes beside the scanner's stack of sections and a     *)
(* pointer to the node whose raw block is open.                            *)
(*                                                                         *)
(* A node is the number of the line it was read from, 0 is the root.       *)
(***************************************************************************)
EXTENDS Scan

CONSTANTS
    MaxLines,     \* bound: how long a text gets
    Nil,          \* the stack entry of an unknown line
    NoBlock       \* the body of an ordinary node, no open block

\* Raw text inside a block.
Pieces == [indent : Nat, words : Seq(Words)]

ASSUME ParseAssumption ==
    /\ MaxLines \in Nat \ {0} /\ Nil \notin Nat
    /\ NoBlock \notin Seq(Pieces) /\ NoBlock \notin [node : Nat, body : Seq(Pieces)]

VARIABLES
    text,         \* the lines read
    kinds,        \* what the scanner made of each
    sc,           \* the scanner
    nodes,        \* the stack of nodes, beside sc.stack
    cfg,          \* the tree: per node its definition, line, parent and body
    blk,          \* the open block: its node and the body so far
    errors,       \* the lines an Error names
    warnings,     \* the lines a Warning names
    done          \* Parse has returned

vars == <<text, kinds, sc, nodes, cfg, blk, errors, warnings, done>>

Root == 0
LineNo == Len(text) + 1

Init ==
    /\ text = <<>> /\ kinds = <<>>
    /\ sc = NewScanner
    /\ nodes = <<Root>>
    /\ cfg = <<>>
    /\ blk = NoBlock
    /\ errors = {} /\ warnings = {}
    /\ done = FALSE

\* scanner.line moves on with every line.
Read(raw, kind) ==
    /\ ~done /\ Kind(sc, raw) = kind
    /\ text' = Append(text, raw)
    /\ kinds' = Append(kinds, kind)
    /\ sc' = Scanned(sc, raw)
    /\ UNCHANGED done

-----------------------------------------------------------------------------
(* The tree.                                                               *)

\* AddChild appends: the children of a node are in the order of their lines.
AddNode(c, n, node) == [m \in DOMAIN c \cup {n} |-> IF m = n THEN node ELSE c[m]]

\* ReplaceChild with nothing; a block has no children that would go with it.
RemoveNode(c, n) == [m \in DOMAIN c \ {n} |-> c[m]]

\* liveParent: the nearest entry that is not an unknown line's.
LiveParent(stack) ==
    LET live == {k \in DOMAIN stack : stack[k] # Nil}
    IN  stack[CHOOSE k \in live : \A j \in live : j <= k]

\* A delimited body that is empty once its lines are joined.
EmptyDelimBody(body) ==
    body = <<>> \/ (Len(body) = 1 /\ body[1].words = <<>>)

\* What dropEmptyBlock drops.
DropsBlock(d, body) == BlockKind[d] = "delim" /\ EmptyDelimBody(body)

-----------------------------------------------------------------------------
(* One action per kind of line.                                            *)

BlankLine(raw) ==
    /\ Read(raw, "blank")
    /\ UNCHANGED <<nodes, cfg, blk, errors, warnings>>

\* Seeded fault: blank lines are skipped inside a block too.
CapturedText(raw) == IF Blank(raw) THEN blk.body ELSE Append(blk.body, raw)

Captured(raw) == Append(blk.body, raw)

BodyLine(raw) ==
    /\ Read(raw, "body")
    /\ blk' = [blk EXCEPT !.body = Captured(raw)]
    /\ UNCHANGED <<nodes, cfg, errors, warnings>>

\* The last piece of a delimited body, before the delimiter.
LastPiece(raw) == [raw EXCEPT !.words = Before(raw.words, sc.term)]

ClosedBody(raw) == IF sc.delim THEN Append(blk.body, LastPiece(raw)) ELSE blk.body

BlockEnd(raw) ==
    /\ Read(raw, "end")
    /\ LET n == blk.node
           body == ClosedBody(raw)
           dropped == DropsBlock(cfg[n].def, body)
           tail == sc.delim /\ After(raw.words, sc.term) # <<>>
       IN  /\ cfg' = IF dropped THEN RemoveNode(cfg, n) ELSE [cfg EXCEPT ![n].body = body]
           /\ nodes' = IF dropped THEN [nodes EXCEPT ![Len(nodes)] = Nil] ELSE nodes
           /\ warnings' = IF dropped THEN warnings \cup {LineNo} ELSE warnings
           /\ errors' = IF tail THEN errors \cup {LineNo} ELSE errors
    /\ blk' = NoBlock

\* Whether unknown lines are Errors or Warnings is the engine's choice; the
\* tree is the same.
UnknownLine(raw) ==
    /\ Read(raw, "unknown")
    /\ errors' = errors \cup {LineNo}
    /\ nodes' = Append(SubSeq(nodes, 1, Len(sc'.stack) - 1), Nil)
    /\ UNCHANGED <<cfg, blk, warnings>>

\* The node of a matched line, below the nearest live section.
NodeOf(raw, d, body) ==
    [def |-> d, words |-> Kept(d, raw.words), body |-> body,
     parent |-> LiveParent(SubSeq(nodes, 1, Len(sc'.stack) - 1))]

Push(n) == nodes' = Append(SubSeq(nodes, 1, Len(sc'.stack) - 1), n)

\* A line without a block, or one that only opens it.  A BlockUntil body
\* starts below the opener, a delimited one on its line.
MatchedLine(raw) ==
    /\ Read(raw, "matched")
    /\ LET d == BoundDef(sc, raw)
       IN  /\ ~ClosedAtOnce(d, raw.words)
           /\ cfg' = AddNode(cfg, LineNo, NodeOf(raw, d, NoBlock))
           /\ blk' = CASE BlockKind[d] = "none" -> NoBlock
                       [] BlockKind[d] = "until" -> [node |-> LineNo, body |-> <<>>]
                       [] BlockKind[d] = "delim" ->
                            [node |-> LineNo,
                             body |-> <<[indent |-> 0, words |-> Rest(d, raw.words)]>>]
    /\ Push(LineNo)
    /\ UNCHANGED <<errors, warnings>>

\* A delimited block on one line.
OneLineBlock(raw) ==
    /\ Read(raw, "matched")
    /\ LET d == BoundDef(sc, raw)
           rest == Rest(d, raw.words)
           term == Term(d, Kept(d, raw.words))
           body == <<[indent |-> 0, words |-> Before(rest, term)]>>
       IN  /\ ClosedAtOnce(d, raw.words)
           /\ errors' = IF After(rest, term) # <<>> THEN errors \cup {LineNo} ELSE errors
           /\ IF DropsBlock(d, body)
              THEN /\ warnings' = warnings \cup {LineNo}
                   /\ Push(Nil)
                   /\ UNCHANGED cfg
              ELSE /\ cfg' = AddNode(cfg, LineNo, NodeOf(raw, d, body))
                   /\ Push(LineNo)
                   /\ UNCHANGED warnings
    /\ UNCHANGED blk

ParseLine(raw) ==
    \/ BlankLine(raw) \/ BodyLine(raw) \/ BlockEnd(raw)
    \/ UnknownLine(raw) \/ MatchedLine(raw) \/ OneLineBlock(raw)

-----------------------------------------------------------------------------
(* The end of the text.                                                    *)

\* The empty last item of a text that ends with a newline.
EmptyLine == [indent |-> 0, words |-> <<>>]

Trimmed(body) ==
    IF Len(text) > 1 /\ body # <<>> /\ body[Len(body)] = EmptyLine
    THEN SubSeq(body, 1, Len(body) - 1) ELSE body

\* An unterminated block is an Error; a delimited one is dropped.
EndOfText ==
    /\ ~done /\ text # <<>>
    /\ done' = TRUE
    /\ IF InBlock(sc)
       THEN /\ cfg' = IF BlockKind[cfg[blk.node].def] = "delim"
                      THEN RemoveNode(cfg, blk.node)
                      ELSE [cfg EXCEPT ![blk.node].body = Trimmed(blk.body)]
            /\ errors' = errors \cup {blk.node}
       ELSE UNCHANGED <<cfg, errors>>
    /\ UNCHANGED <<text, kinds, sc, nodes, blk, warnings>>

Next ==
    \/ EndOfText
    \/ Len(text) < MaxLines /\ \E raw \in RawLines : ParseLine(raw)

Spec == Init /\ [][Next]_vars

-----------------------------------------------------------------------------
Node == [def : Defs, words : Lines, parent : Nat, body : Seq(Pieces) \cup {NoBlock}]

TypeOK ==
    /\ text \in Seq(RawLines)
    /\ kinds \in [DOMAIN text -> {"blank", "body", "end", "unknown", "matched"}]
    /\ sc.stack \in Seq([indent : Int, children : Seq(Defs)])
    /\ nodes \in Seq(Nat \cup {Nil})
    /\ DOMAIN cfg \subseteq DOMAIN text
    /\ \A n \in DOMAIN cfg : cfg[n] \in Node
    /\ blk \in [node : Nat, body : Seq(Pieces)] \cup {NoBlock}
    /\ errors \subseteq DOMAIN text /\ warnings \subseteq DOMAIN text
    /\ done \in BOOLEAN

\* The two stacks describe the same sections at every line: an entry is a node
\* of the tree, below the entry under it, with the children its definition
\* declares, or an unknown or dropped line below which nothing can match.  So
\* a matched line always lands on the top of the stack, and no line on a node
\* that closeBlock has detached.
StacksAgree ==
    ~done =>
        /\ Len(nodes) = Len(sc.stack)
        /\ nodes[1] = Root /\ sc.stack[1] = Frame(-1, Roots)
        /\ \A k \in 2..Len(nodes) :
            /\ sc.stack[k - 1].indent < sc.stack[k].indent
            /\ IF nodes[k] = Nil THEN sc.stack[k].children = <<>>
               ELSE /\ nodes[k] \in DOMAIN cfg
                    /\ cfg[nodes[k]].parent = nodes[k - 1]
                    /\ sc.stack[k].children = Children[cfg[nodes[k]].def]

\* The scanner has a block open exactly while the parser collects one, and it
\* is the block of the node on top of the stack, by its own terminator.
OpenBlockIsTop ==
    ~done =>
        /\ InBlock(sc) <=> blk # NoBlock
        /\ InBlock(sc) =>
            /\ blk.node = nodes[Len(nodes)] /\ blk.node # Nil
            /\ sc.delim <=> BlockKind[cfg[blk.node].def] = "delim"
            /\ sc.term = Term(cfg[blk.node].def, cfg[blk.node].words)

Commands == {i \in DOMAIN kinds : kinds[i] \in {"unknown", "matched"}}

\* The section of a line by indentation alone: the nearest earlier command
\* that is indented less.
Enclosing(i) ==
    LET outer == {j \in Commands : j < i /\ text[j].indent < text[i].indent}
    IN  IF outer = {} THEN Root ELSE CHOOSE j \in outer : \A k \in outer : k <= j

ChildrenOf(i) ==
    IF i = Root THEN Roots
    ELSE IF i \in DOMAIN cfg THEN Children[cfg[i].def]
    ELSE <<>>

\* Indentation alone decides where a line belongs, and the section it belongs
\* to decides what it means: below an unknown line everything is unknown.
IndentDecides ==
    \A i \in Commands :
        LET d == MatchChildOpener(ChildrenOf(Enclosing(i)), text[i].words)
        IN  /\ kinds[i] = "unknown" <=> d = NoDef
            /\ i \in DOMAIN cfg => cfg[i].parent = Enclosing(i) /\ cfg[i].def = d

\* The line that opened the block of line i.
OpenerOf(i) ==
    CHOOSE n \in Commands : n < i /\ \A j \in (n + 1)..(i - 1) : j \notin Commands

\* Every line is accounted for: a command is in the tree or a diagnostic names
\* it, and a line of a block is in the body of its node, unchanged and in its
\* place, or a diagnostic names the opener.
NoLineLost ==
    done =>
        /\ \A i \in Commands : i \in DOMAIN cfg \cup errors \cup warnings
        /\ \A i \in DOMAIN kinds : kinds[i] = "body" =>
            LET n == OpenerOf(i)
                at == IF n \in DOMAIN cfg /\ BlockKind[cfg[n].def] = "delim"
                      THEN i - n + 1 ELSE i - n
            IN  \/ n \in errors
                \/ /\ n \in DOMAIN cfg /\ at \in DOMAIN cfg[n].body
                   /\ cfg[n].body[at] = text[i]
=============================================================================
