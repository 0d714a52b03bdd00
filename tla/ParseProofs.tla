----------------------------- MODULE ParseProofs ----------------------------
(***************************************************************************)
(* The parser, for every grammar and every text.                           *)
(*                                                                         *)
(* Its stacks agree with the scanner's.  Beside the agreement the          *)
(* induction needs that the nodes on the stack are in the order of their   *)
(* lines, so that dropping the node of a block takes none of the others    *)
(* away, and that the open block's node is in the tree.                    *)
(*                                                                         *)
(* Indentation alone decides where a line belongs and what it means: the   *)
(* parser answers from its stacks, the property from all the lines read;   *)
(* the invariant says that the stacks know the section of a line at every  *)
(* indentation that may come next.                                         *)
(*                                                                         *)
(* And no line is lost: the invariant says what of a raw block that is     *)
(* still open has been collected.                                          *)
(***************************************************************************)
EXTENDS Parse, WellFoundedInduction, SequenceTheorems, TLAPS

FrameType == [indent : Int, children : Seq(Defs)]

\* The root stays, and the live entries go up the stack in the order of their
\* lines.
Ordered ==
    /\ nodes # <<>>
    /\ \A j, k \in DOMAIN nodes :
        j < k /\ nodes[j] # Nil /\ nodes[k] # Nil => nodes[j] < nodes[k]

BlockInTree == InBlock(sc) => Len(nodes) > 1 /\ blk.node \in DOMAIN cfg

IInv ==
    /\ TypeOK
    /\ StacksAgree
    /\ OpenBlockIsTop
    /\ ~done => Ordered /\ BlockInTree

-----------------------------------------------------------------------------
(* The scanner's helpers.                                                  *)

\* Popping leaves the root or a section that encloses the line.
LEMMA OpenStays ==
    ASSUME NEW stack \in Seq(FrameType), stack # <<>>, NEW indent \in Nat
    PROVE  /\ Open(stack, indent) \in 1..Len(stack)
           /\ Open(stack, indent) # 1 => stack[Open(stack, indent)].indent < indent
  BY DEF Open, Encloses

\* The first of some candidates is one of them.
LEMMA FirstIn ==
    ASSUME NEW from, NEW S, FirstOf(from, S) # NoDef
    PROVE  \E i \in S : FirstOf(from, S) = from[i]
  BY DEF FirstOf

\* A line binds to one of the definitions of its section, or to none.
LEMMA BoundIsChild ==
    ASSUME NEW from \in Seq(Defs), NEW line, MatchChildOpener(from, line) # NoDef
    PROVE  /\ MatchChildOpener(from, line) \in Defs
           /\ from # <<>>
           /\ MatchChildOpener(from, line) \in Openers =>
                <<MatchChildOpener(from, line), line>> \in DOMAIN Prefix
  <1> DEFINE S ==
        {i \in DOMAIN from :
            IF from[i] \in Openers
            THEN /\ <<from[i], line>> \in DOMAIN Prefix
                 /\ MatchChild(from, Prefix[<<from[i], line>>]) = from[i]
            ELSE <<from[i], line>> \in Exact}
  <1>1. MatchChildOpener(from, line) = FirstOf(from, S)
    BY DEF MatchChildOpener
  <1>2. PICK i \in S : FirstOf(from, S) = from[i]
    BY <1>1, FirstIn
  <1>3. from[i] \in Defs /\ from # <<>>
    BY <1>2
  <1> QED
    BY <1>1, <1>2, <1>3

\* What a node keeps of a line is a line that ends with a word.
LEMMA KeptIsLine ==
    ASSUME NEW d \in Defs, NEW line \in Lines,
           d \in Openers => <<d, line>> \in DOMAIN Prefix
    PROVE  /\ Kept(d, line) \in Lines
           /\ Kept(d, line)[Len(Kept(d, line))] \in Words
  <1>1. Kept(d, line) \in Lines
    BY TemplateAssumption DEF Kept
  <1>2. /\ Kept(d, line) \in Seq(Words) /\ Kept(d, line) # <<>>
    BY <1>1, ScanAssumption
  <1> QED
    BY <1>1, <1>2

\* A block has a terminator.
LEMMA TermIsWord ==
    ASSUME NEW d \in Defs, NEW line \in Lines,
           d \in Openers => <<d, line>> \in DOMAIN Prefix, OpensBlock(d)
    PROVE  Term(d, Kept(d, line)) \in Words /\ Term(d, Kept(d, line)) # NoTerm
  BY KeptIsLine, ScanAssumption DEF Term, OpensBlock

-----------------------------------------------------------------------------
(* The stacks.                                                             *)

\* The stacks of a parser that has not returned.
LEMMA StacksTyped ==
    ASSUME IInv, ~done
    PROVE  /\ sc.stack \in Seq(FrameType) /\ sc.stack # <<>>
           /\ nodes \in Seq(Nat \cup {Nil}) /\ Len(nodes) = Len(sc.stack)
           /\ sc.stack[1] = Frame(-1, Roots) /\ nodes[1] = Root
  BY DEF IInv, TypeOK, StacksAgree, Ordered, FrameType

\* What is left of the stacks when a line is not in a block.
LEMMA PoppedIs ==
    ASSUME IInv, ~done, NEW raw \in RawLines
    PROVE  LET k == Open(sc.stack, raw.indent)
           IN  /\ k \in 1..Len(sc.stack)
               /\ k # 1 => sc.stack[k].indent < raw.indent
               /\ Popped(sc, raw) \in Seq(FrameType) /\ Len(Popped(sc, raw)) = k
               /\ \A j \in 1..k : Popped(sc, raw)[j] = sc.stack[j]
               /\ SubSeq(nodes, 1, k) \in Seq(Nat \cup {Nil})
               /\ Len(SubSeq(nodes, 1, k)) = k
               /\ \A j \in 1..k : SubSeq(nodes, 1, k)[j] = nodes[j]
  <1> DEFINE k == Open(sc.stack, raw.indent)
  <1>1. /\ sc.stack \in Seq(FrameType) /\ sc.stack # <<>>
        /\ nodes \in Seq(Nat \cup {Nil}) /\ Len(nodes) = Len(sc.stack)
    BY StacksTyped
  <1>2. raw.indent \in Nat
    BY ScanAssumption
  <1>3. k \in 1..Len(sc.stack) /\ (k # 1 => sc.stack[k].indent < raw.indent)
    BY <1>1, <1>2, OpenStays
  <1> HIDE DEF k
  <1>4. Popped(sc, raw) = SubSeq(sc.stack, 1, k)
    BY DEF Popped, k
  <1>5. /\ SubSeq(sc.stack, 1, k) \in Seq(FrameType)
        /\ Len(SubSeq(sc.stack, 1, k)) = k
        /\ \A j \in 1..k : SubSeq(sc.stack, 1, k)[j] = sc.stack[j]
    BY <1>1, <1>3
  <1>6. /\ SubSeq(nodes, 1, k) \in Seq(Nat \cup {Nil})
        /\ Len(SubSeq(nodes, 1, k)) = k
        /\ \A j \in 1..k : SubSeq(nodes, 1, k)[j] = nodes[j]
    BY <1>1, <1>3
  <1> QED
    BY <1>3, <1>4, <1>5, <1>6 DEF k

\* The section on top of what is left is live if anything matches in it.
LEMMA ParentIsTop ==
    ASSUME IInv, ~done, NEW raw \in RawLines, BoundDef(sc, raw) # NoDef
    PROVE  LET k == Open(sc.stack, raw.indent)
           IN  /\ nodes[k] \in Nat
               /\ LiveParent(SubSeq(nodes, 1, k)) = nodes[k]
  <1> DEFINE k == Open(sc.stack, raw.indent)
             kept == SubSeq(nodes, 1, k)
  <1>1. /\ k \in 1..Len(sc.stack)
        /\ kept \in Seq(Nat \cup {Nil}) /\ Len(kept) = k
        /\ \A j \in 1..k : kept[j] = nodes[j]
    BY PoppedIs
  <1>a. sc.stack[k] \in FrameType
    BY <1>1, StacksTyped
  <1>2. sc.stack[k].children \in Seq(Defs)
    BY <1>a DEF FrameType
  <1>3. sc.stack[k].children # <<>>
    BY <1>2, BoundIsChild DEF BoundDef
  <1> HIDE DEF k
  <1>4. nodes[k] # Nil
    BY <1>1, <1>3, StacksTyped, ParseAssumption DEF IInv, StacksAgree, Root
  <1>5. nodes[k] \in Nat
    BY <1>1, <1>4
  <1> HIDE DEF kept
  <1>6. LiveParent(kept) = kept[k]
    <2> DEFINE live == {j \in DOMAIN kept : kept[j] # Nil}
    <2>1. k \in live /\ \A j \in live : j <= k
      BY <1>1, <1>4
    <2>2. \A i \in live : (\A j \in live : j <= i) => i = k
      BY <1>1, <2>1
    <2>3. (CHOOSE i \in live : \A j \in live : j <= i) = k
      BY <2>1, <2>2
    <2> QED
      BY <2>3 DEF LiveParent
  <1> QED
    BY <1>1, <1>5, <1>6 DEF k, kept

\* A new section on top of the stacks, below the one that encloses its line.
Pushes(raw, c, e) ==
    /\ sc'.stack = Append(Popped(sc, raw), Frame(raw.indent, c))
    /\ nodes' = Append(SubSeq(nodes, 1, Len(sc'.stack) - 1), e)
    /\ DOMAIN cfg \subseteq DOMAIN cfg'
    /\ \A n \in DOMAIN cfg : n \in Nat /\ cfg'[n] = cfg[n]
    /\ e = Nil => c = <<>>
    /\ e # Nil =>
        /\ e \in DOMAIN cfg' /\ e > 0 /\ \A n \in DOMAIN cfg : n < e
        /\ cfg'[e].parent = nodes[Open(sc.stack, raw.indent)]
        /\ c = Children[cfg'[e].def]

LEMMA PushAgrees ==
    ASSUME IInv, ~done, NEW raw \in RawLines, NEW c \in Seq(Defs), NEW e \in Nat \cup {Nil},
           Pushes(raw, c, e)
    PROVE  /\ StacksAgree' /\ Ordered'
           /\ sc'.stack \in Seq([indent : Int, children : Seq(Defs)])
           /\ nodes' \in Seq(Nat \cup {Nil})
           /\ Len(nodes') > 1 /\ nodes'[Len(nodes')] = e
  <1> DEFINE k == Open(sc.stack, raw.indent)
             f == Frame(raw.indent, c)
  <1>1. /\ k \in 1..Len(sc.stack)
        /\ k # 1 => sc.stack[k].indent < raw.indent
        /\ Popped(sc, raw) \in Seq(FrameType) /\ Len(Popped(sc, raw)) = k
        /\ \A j \in 1..k : Popped(sc, raw)[j] = sc.stack[j]
        /\ SubSeq(nodes, 1, k) \in Seq(Nat \cup {Nil}) /\ Len(SubSeq(nodes, 1, k)) = k
        /\ \A j \in 1..k : SubSeq(nodes, 1, k)[j] = nodes[j]
    BY PoppedIs
  <1>2. /\ Len(nodes) = Len(sc.stack) /\ sc.stack # <<>>
        /\ sc.stack \in Seq(FrameType) /\ nodes \in Seq(Nat \cup {Nil})
        /\ sc.stack[1] = Frame(-1, Roots) /\ nodes[1] = Root
    BY StacksTyped
  <1>3. raw.indent \in Nat /\ f \in FrameType
    BY ScanAssumption DEF FrameType, Frame
  <1>4. f.indent = raw.indent /\ f.children = c
    BY DEF Frame
  <1> HIDE DEF k, f
  <1>k. k \in Nat /\ 1 <= k /\ k <= Len(nodes) /\ k + 1 \in Nat /\ (k + 1) - 1 = k
    BY <1>1, <1>2
  <1>5. /\ sc'.stack \in Seq(FrameType) /\ Len(sc'.stack) = k + 1
        /\ \A j \in 1..k : sc'.stack[j] = sc.stack[j]
        /\ sc'.stack[k + 1] = f
    <2>1. sc'.stack = Append(Popped(sc, raw), f)
      BY DEF Pushes, f
    <2>2. Popped(sc, raw) \in Seq(FrameType) /\ Len(Popped(sc, raw)) = k
      BY <1>1
    <2>3. /\ Append(Popped(sc, raw), f) \in Seq(FrameType)
          /\ Len(Append(Popped(sc, raw), f)) = k + 1
          /\ Append(Popped(sc, raw), f)[k + 1] = f
          /\ \A j \in 1..k : Append(Popped(sc, raw), f)[j] = Popped(sc, raw)[j]
      BY <2>2, <1>3, AppendProperties
    <2> QED
      BY <2>1, <2>3, <1>1, Zenon
  <1>6. nodes' = Append(SubSeq(nodes, 1, k), e)
    BY <1>5, <1>k DEF Pushes
  <1>7. /\ nodes' \in Seq(Nat \cup {Nil}) /\ Len(nodes') = k + 1
        /\ \A j \in 1..k : nodes'[j] = nodes[j]
        /\ nodes'[k + 1] = e
    <2>1. SubSeq(nodes, 1, k) \in Seq(Nat \cup {Nil}) /\ Len(SubSeq(nodes, 1, k)) = k
      BY <1>1
    <2>2. /\ Append(SubSeq(nodes, 1, k), e) \in Seq(Nat \cup {Nil})
          /\ Len(Append(SubSeq(nodes, 1, k), e)) = k + 1
          /\ Append(SubSeq(nodes, 1, k), e)[k + 1] = e
          /\ \A j \in 1..k : Append(SubSeq(nodes, 1, k), e)[j] = SubSeq(nodes, 1, k)[j]
      BY <2>1, AppendProperties
    <2> QED
      BY <1>6, <2>2, <1>1, Zenon
  <1>8. \A j \in 2..k :
            /\ sc.stack[j - 1].indent < sc.stack[j].indent
            /\ IF nodes[j] = Nil THEN sc.stack[j].children = <<>>
               ELSE /\ nodes[j] \in DOMAIN cfg
                    /\ cfg[nodes[j]].parent = nodes[j - 1]
                    /\ sc.stack[j].children = Children[cfg[nodes[j]].def]
    <2>1. \A j \in 2..Len(nodes) :
            /\ sc.stack[j - 1].indent < sc.stack[j].indent
            /\ IF nodes[j] = Nil THEN sc.stack[j].children = <<>>
               ELSE /\ nodes[j] \in DOMAIN cfg
                    /\ cfg[nodes[j]].parent = nodes[j - 1]
                    /\ sc.stack[j].children = Children[cfg[nodes[j]].def]
      BY DEF IInv, StacksAgree
    <2>2. \A j \in 2..k : j \in 2..Len(nodes)
      BY <1>2, <1>k
    <2> QED
      BY <2>1, <2>2
  <1>9. sc.stack[k].indent < raw.indent
    <2>1. CASE k = 1
      <3>1. sc.stack[1].indent = -1
        BY <1>2 DEF Frame
      <3> QED
        BY <2>1, <3>1, <1>3
    <2> QED
      BY <2>1, <1>1
  <1>10. ASSUME NEW j \in 2..(k + 1)
         PROVE  /\ sc'.stack[j - 1].indent < sc'.stack[j].indent
                /\ IF nodes'[j] = Nil THEN sc'.stack[j].children = <<>>
                   ELSE /\ nodes'[j] \in DOMAIN cfg'
                        /\ cfg'[nodes'[j]].parent = nodes'[j - 1]
                        /\ sc'.stack[j].children = Children[cfg'[nodes'[j]].def]
    <2>1. CASE j <= k
      <3>1. j \in 2..k /\ j - 1 \in 1..k /\ j \in 1..k
        BY <1>k, <2>1
      <3> QED
        <4>1. /\ sc'.stack[j - 1] = sc.stack[j - 1] /\ sc'.stack[j] = sc.stack[j]
              /\ nodes'[j - 1] = nodes[j - 1] /\ nodes'[j] = nodes[j]
          BY <3>1, <1>5, <1>7
        <4>2. nodes[j] \in DOMAIN cfg =>
                nodes[j] \in DOMAIN cfg' /\ cfg'[nodes[j]] = cfg[nodes[j]]
          BY SMTT(60) DEF Pushes
        <4> QED
          BY <3>1, <4>1, <4>2, <1>8
    <2>2. CASE j = k + 1
      <3>1. j - 1 = k /\ k \in 1..k
        BY <1>k, <2>2
      <3> QED
        BY <2>2, <3>1, <1>4, <1>5, <1>7, <1>9, ZenonT(60) DEF k, Pushes
    <2> QED
      BY <1>k, <2>1, <2>2
  <1>11. StacksAgree'
    BY <1>2, <1>5, <1>7, <1>10, <1>k, SMTT(60) DEF StacksAgree
  <1>12. Ordered'
    <2>1. \A j \in 1..k : nodes[j] # Nil => nodes[j] = 0 \/ nodes[j] \in DOMAIN cfg
      BY <1>2, <1>8, <1>k DEF Root
    <2>2. \A i, j \in 1..k :
            i < j /\ nodes[i] # Nil /\ nodes[j] # Nil => nodes[i] < nodes[j]
      BY <1>2, <1>k, SMTT(60) DEF IInv, Ordered
    <2>3. e # Nil => \A j \in 1..k : nodes[j] # Nil => nodes[j] < e
      BY <2>1 DEF Pushes
    <2>4. DOMAIN nodes' = 1..(k + 1) /\ nodes' # <<>>
      BY <1>k, <1>7
    <2>5. ASSUME NEW i \in 1..(k + 1), NEW j \in 1..(k + 1), i < j,
                 nodes'[i] # Nil, nodes'[j] # Nil
          PROVE  nodes'[i] < nodes'[j]
      <3>1. i \in 1..k /\ (j \in 1..k \/ j = k + 1)
        BY <1>k, <2>5
      <3> QED
        BY <3>1, <2>2, <2>3, <2>5, <1>7
    <2> QED
      BY <2>4, <2>5 DEF Ordered
  <1> QED
    BY <1>1, <1>5, <1>7, <1>11, <1>12 DEF FrameType
-----------------------------------------------------------------------------
(* The text of a block.                                                    *)

\* A line with the terminator in it has a first one.
LEMMA FirstTerm ==
    ASSUME NEW words \in Seq(Words), NEW term, Has(words, term)
    PROVE  CutAt(words, term) \in DOMAIN words
  <1> DEFINE T == {i \in DOMAIN words : words[i] = term}
             R == OpToRel(<, Nat)
  <1>1. T \subseteq Nat /\ T # {}
    BY DEF Has
  <1>2. IsWellFoundedOn(R, Nat)
    BY NatLessThanWellFounded
  <1> HIDE DEF R, T
  <1>3. PICK x \in T : \A y \in T : ~(<<y, x>> \in R)
    BY <1>1, <1>2, WFMin
  <1>4. \A y \in T : ~(y < x)
    BY <1>1, <1>3 DEF R, OpToRel
  <1>5. x \in DOMAIN words /\ words[x] = term /\ \A j \in 1..(x - 1) : words[j] # term
    BY <1>1, <1>3, <1>4 DEF T
  <1> QED
    BY <1>5 DEF CutAt

\* A line is text, and what is before a terminator is.
LEMMA RawTyped ==
    ASSUME NEW raw \in RawLines
    PROVE  raw \in Pieces /\ raw.indent \in Nat /\ raw.words \in Seq(Words)
  <1>1. raw \in [indent : Nat, words : Lines \cup {<<>>}]
    BY ScanAssumption
  <1>2. raw.words \in Lines \/ raw.words = <<>>
    BY <1>1
  <1>3. raw.words \in Seq(Words)
    <2>1. Lines \subseteq Seq(Words)
      BY ScanAssumption
    <2>2. <<>> \in Seq(Words)
      OBVIOUS
    <2> QED
      BY <1>2, <2>1, <2>2
  <1>4. raw = [indent |-> raw.indent, words |-> raw.words] /\ raw.indent \in Nat
    BY <1>1
  <1> QED
    BY <1>3, <1>4 DEF Pieces

LEMMA BeforeIsText ==
    ASSUME NEW words \in Seq(Words), NEW term, Has(words, term)
    PROVE  Before(words, term) \in Seq(Words)
  <1>1. CutAt(words, term) \in DOMAIN words
    BY FirstTerm
  <1> DEFINE i == CutAt(words, term)
  <1>2. i \in 1..Len(words)
    BY <1>1
  <1> HIDE DEF i
  <1>3. SubSeq(words, 1, i - 1) \in Seq(Words)
    BY <1>2
  <1> QED
    BY <1>3 DEF Before, i

\* What is left of the opening line for the block.
LEMMA RestIsText ==
    ASSUME NEW d \in Defs, NEW line \in Lines,
           d \in Openers => <<d, line>> \in DOMAIN Prefix
    PROVE  Rest(d, line) \in Seq(Words)
  <1>1. Kept(d, line) \in Seq(Words) /\ line \in Seq(Words)
    BY KeptIsLine, ScanAssumption
  <1>2. Len(Kept(d, line)) \in Nat /\ Len(line) \in Nat
    BY <1>1
  <1> DEFINE i == Len(Kept(d, line))
  <1> HIDE DEF i
  <1>3. SubSeq(line, i + 1, Len(line)) \in Seq(Words)
    BY <1>1, <1>2 DEF i
  <1> QED
    BY <1>3 DEF Rest, i

-----------------------------------------------------------------------------
(* A line.                                                                 *)

\* The definition of a matched line and what its node keeps.
LEMMA MatchedDef ==
    ASSUME IInv, ~done, NEW raw \in RawLines, ~Blank(raw), BoundDef(sc, raw) # NoDef
    PROVE  LET d == BoundDef(sc, raw)
           IN  /\ d \in Defs /\ raw.words \in Lines
               /\ d \in Openers => <<d, raw.words>> \in DOMAIN Prefix
               /\ Children[d] \in Seq(Defs)
  <1> DEFINE k == Open(sc.stack, raw.indent)
  <1>1. k \in 1..Len(sc.stack)
    BY PoppedIs
  <1>2. sc.stack[k] \in FrameType
    BY <1>1, StacksTyped
  <1>3. sc.stack[k].children \in Seq(Defs)
    BY <1>2 DEF FrameType
  <1>4. raw.words \in Lines
    BY ScanAssumption DEF Blank
  <1>5. /\ BoundDef(sc, raw) \in Defs
        /\ BoundDef(sc, raw) \in Openers =>
            <<BoundDef(sc, raw), raw.words>> \in DOMAIN Prefix
    BY <1>3, BoundIsChild DEF BoundDef
  <1> QED
    BY <1>4, <1>5, ScanAssumption

\* A line is added to the text.
LEMMA LineRead ==
    ASSUME IInv, NEW raw \in RawLines,
           NEW kind \in {"blank", "body", "end", "unknown", "matched"}, Read(raw, kind)
    PROVE  /\ text' \in Seq(RawLines) /\ Len(text') = LineNo /\ LineNo \in Nat
           /\ DOMAIN text' = DOMAIN text \cup {LineNo} /\ LineNo \notin DOMAIN text
           /\ \A n \in DOMAIN text : n < LineNo
           /\ kinds' \in [DOMAIN text' -> {"blank", "body", "end", "unknown", "matched"}]
           /\ ~done /\ done' = FALSE /\ Kind(sc, raw) = kind /\ sc' = Scanned(sc, raw)
  <1> DEFINE K == {"blank", "body", "end", "unknown", "matched"}
  <1>1. /\ text \in Seq(RawLines) /\ kinds \in [1..Len(text) -> K] /\ done \in BOOLEAN
    BY DEF IInv, TypeOK
  <1>2. /\ ~done /\ done' = done /\ Kind(sc, raw) = kind /\ sc' = Scanned(sc, raw)
        /\ text' = Append(text, raw) /\ kinds' = Append(kinds, kind)
    BY DEF Read
  <1> HIDE DEF K
  <1>3. kinds \in Seq(K) /\ Len(kinds) = Len(text)
    BY <1>1
  <1>4. kind \in K
    BY DEF K
  <1>5. kinds' \in Seq(K) /\ Len(kinds') = Len(text) + 1
    BY <1>2, <1>3, <1>4
  <1>6. /\ text' \in Seq(RawLines) /\ Len(text') = Len(text) + 1 /\ Len(text) \in Nat
        /\ DOMAIN text' = 1..(Len(text) + 1) /\ DOMAIN text = 1..Len(text)
    BY <1>1, <1>2
  <1>7. kinds' \in [1..(Len(text) + 1) -> K]
    BY <1>5, <1>6
  <1> QED
    BY <1>1, <1>2, <1>6, <1>7 DEF LineNo, K
-----------------------------------------------------------------------------
(* The actions.                                                            *)

Kinds == {"blank", "body", "end", "unknown", "matched"}

\* What a line of each kind leaves of the scanner.
LEMMA ScannedIs ==
    ASSUME NEW raw
    PROVE  /\ Kind(sc, raw) = "blank" => Scanned(sc, raw) = sc
           /\ Kind(sc, raw) = "body" => Scanned(sc, raw) = sc
           /\ Kind(sc, raw) = "end" => Scanned(sc, raw) = AfterBlockEnd(sc)
           /\ Kind(sc, raw) = "unknown" => Scanned(sc, raw) = AfterUnknown(sc, raw)
           /\ Kind(sc, raw) = "matched" =>
                Scanned(sc, raw) = AfterMatched(sc, raw, BoundDef(sc, raw))
  BY DEF Scanned, AfterBody

\* What a line of each kind finds.
LEMMA KindIs ==
    ASSUME NEW raw
    PROVE  /\ Kind(sc, raw) = "body" => InBlock(sc)
           /\ Kind(sc, raw) = "end" => InBlock(sc) /\ Closes(sc, raw)
           /\ Kind(sc, raw) = "unknown" => ~InBlock(sc)
           /\ Kind(sc, raw) = "matched" =>
                ~InBlock(sc) /\ ~Blank(raw) /\ BoundDef(sc, raw) # NoDef
  BY DEF Kind

\* A line that moves neither stack.
LEMMA StacksStay ==
    ASSUME IInv, ~done, ~done', sc'.stack = sc.stack, nodes' = nodes, cfg' = cfg
    PROVE  StacksAgree' /\ Ordered'
  BY DEF IInv, StacksAgree, Ordered, Root

LEMMA BlankLineKeeps ==
    ASSUME IInv, NEW raw \in RawLines, BlankLine(raw)
    PROVE  IInv'
  <1>1. Read(raw, "blank") /\ UNCHANGED <<nodes, cfg, blk, errors, warnings>>
    BY DEF BlankLine
  <1>2. /\ text' \in Seq(RawLines) /\ DOMAIN text' = DOMAIN text \cup {LineNo}
        /\ kinds' \in [DOMAIN text' -> Kinds]
        /\ ~done /\ done' = FALSE /\ Kind(sc, raw) = "blank" /\ sc' = Scanned(sc, raw)
    BY <1>1, LineRead DEF Kinds
  <1>3. sc' = sc
    BY <1>2, ScannedIs
  <1>4. TypeOK'
    BY <1>1, <1>2, <1>3 DEF IInv, TypeOK, Kinds
  <1>5. StacksAgree' /\ Ordered'
    BY <1>1, <1>2, <1>3, StacksStay
  <1>6. OpenBlockIsTop' /\ BlockInTree'
    BY <1>1, <1>2, <1>3 DEF IInv, OpenBlockIsTop, BlockInTree, InBlock
  <1> QED
    BY <1>4, <1>5, <1>6 DEF IInv

LEMMA BodyLineKeeps ==
    ASSUME IInv, NEW raw \in RawLines, BodyLine(raw)
    PROVE  IInv'
  <1>1. /\ Read(raw, "body") /\ UNCHANGED <<nodes, cfg, errors, warnings>>
        /\ blk' = [blk EXCEPT !.body = Append(blk.body, raw)]
    BY DEF BodyLine, Captured
  <1>2. /\ text' \in Seq(RawLines) /\ DOMAIN text' = DOMAIN text \cup {LineNo}
        /\ kinds' \in [DOMAIN text' -> Kinds]
        /\ ~done /\ done' = FALSE /\ Kind(sc, raw) = "body" /\ sc' = Scanned(sc, raw)
    BY <1>1, LineRead DEF Kinds
  <1>3. sc' = sc /\ InBlock(sc)
    BY <1>2, ScannedIs, KindIs
  <1>4. blk \in [node : Nat, body : Seq(Pieces)]
    BY <1>2, <1>3 DEF IInv, TypeOK, OpenBlockIsTop
  <1>5. blk.body \in Seq(Pieces) /\ raw \in Pieces
    BY <1>4, RawTyped
  <1>6. Append(blk.body, raw) \in Seq(Pieces)
    BY <1>5
  <1>7. blk' \in [node : Nat, body : Seq(Pieces)] /\ blk'.node = blk.node
    BY <1>1, <1>4, <1>6
  <1>8. TypeOK'
    BY <1>1, <1>2, <1>3, <1>7 DEF IInv, TypeOK, Kinds
  <1>9. StacksAgree' /\ Ordered'
    BY <1>1, <1>2, <1>3, StacksStay
  <1>10. OpenBlockIsTop' /\ BlockInTree'
    BY <1>1, <1>2, <1>3, <1>7, ParseAssumption
       DEF IInv, OpenBlockIsTop, BlockInTree, InBlock
  <1> QED
    BY <1>8, <1>9, <1>10 DEF IInv

LEMMA UnknownLineKeeps ==
    ASSUME IInv, NEW raw \in RawLines, UnknownLine(raw)
    PROVE  IInv'
  <1>1. /\ Read(raw, "unknown") /\ UNCHANGED <<cfg, blk, warnings>>
        /\ errors' = errors \cup {LineNo}
        /\ nodes' = Append(SubSeq(nodes, 1, Len(sc'.stack) - 1), Nil)
    BY DEF UnknownLine
  <1>2. /\ text' \in Seq(RawLines) /\ DOMAIN text' = DOMAIN text \cup {LineNo}
        /\ kinds' \in [DOMAIN text' -> Kinds]
        /\ ~done /\ done' = FALSE /\ Kind(sc, raw) = "unknown" /\ sc' = Scanned(sc, raw)
    BY <1>1, LineRead DEF Kinds
  <1>3. sc' = AfterUnknown(sc, raw) /\ ~InBlock(sc)
    BY <1>2, ScannedIs, KindIs
  <1>4. sc'.stack = Append(Popped(sc, raw), Frame(raw.indent, <<>>)) /\ sc'.term = sc.term
    BY <1>3 DEF AfterUnknown
  <1>5. DOMAIN cfg \subseteq Nat
    BY DEF IInv, TypeOK
  <1>6. Pushes(raw, <<>>, Nil)
    BY <1>1, <1>4, <1>5 DEF Pushes
  <1>7. /\ StacksAgree' /\ Ordered' /\ nodes' \in Seq(Nat \cup {Nil})
        /\ sc'.stack \in Seq([indent : Int, children : Seq(Defs)])
    <2>1. <<>> \in Seq(Defs) /\ Nil \in Nat \cup {Nil}
      OBVIOUS
    <2> QED
      BY <2>1, <1>2, <1>6, PushAgrees
  <1>8. TypeOK'
    BY <1>1, <1>2, <1>7 DEF IInv, TypeOK, Kinds
  <1>9. OpenBlockIsTop' /\ BlockInTree'
    BY <1>1, <1>2, <1>3, <1>4 DEF IInv, OpenBlockIsTop, BlockInTree, InBlock
  <1> QED
    BY <1>7, <1>8, <1>9 DEF IInv
\* The node of a matched line, on top of the stacks and in the tree.
LEMMA NodeAgrees ==
    ASSUME IInv, NEW raw \in RawLines, Read(raw, "matched"),
           NEW body \in Seq(Pieces) \cup {NoBlock},
           cfg' = AddNode(cfg, LineNo, NodeOf(raw, BoundDef(sc, raw), body)),
           Push(LineNo)
    PROVE  /\ DOMAIN cfg' = DOMAIN cfg \cup {LineNo}
           /\ cfg'[LineNo].def = BoundDef(sc, raw)
           /\ cfg'[LineNo].words = Kept(BoundDef(sc, raw), raw.words)
           /\ \A n \in DOMAIN cfg' : cfg'[n] \in Node
           /\ StacksAgree' /\ Ordered' /\ nodes' \in Seq(Nat \cup {Nil})
           /\ sc'.stack \in Seq([indent : Int, children : Seq(Defs)])
           /\ Len(nodes') > 1 /\ nodes'[Len(nodes')] = LineNo
           /\ Pushes(raw, Children[BoundDef(sc, raw)], LineNo)
  <1> DEFINE d == BoundDef(sc, raw)
             k == Open(sc.stack, raw.indent)
             node == NodeOf(raw, d, body)
  <1>1. /\ LineNo \in Nat /\ LineNo \notin DOMAIN text /\ \A n \in DOMAIN text : n < LineNo
        /\ ~done /\ done' = FALSE /\ Kind(sc, raw) = "matched" /\ sc' = Scanned(sc, raw)
    BY LineRead
  <1>2. /\ sc' = AfterMatched(sc, raw, d)
        /\ ~InBlock(sc) /\ ~Blank(raw) /\ d # NoDef
    BY <1>1, ScannedIs, KindIs
  <1>3. /\ d \in Defs /\ raw.words \in Lines /\ Children[d] \in Seq(Defs)
        /\ d \in Openers => <<d, raw.words>> \in DOMAIN Prefix
    BY <1>1, <1>2, MatchedDef
  <1>4. Kept(d, raw.words) \in Lines
    BY <1>3, KeptIsLine
  <1>5. sc'.stack = Append(Popped(sc, raw), Frame(raw.indent, Children[d]))
    BY <1>2 DEF AfterMatched
  <1>6. Len(sc'.stack) - 1 = k
    <2>1. /\ Popped(sc, raw) \in Seq(FrameType) /\ Len(Popped(sc, raw)) = k
      BY <1>1, PoppedIs
    <2>2. Frame(raw.indent, Children[d]) \in FrameType
      BY <1>3, RawTyped DEF Frame, FrameType
    <2> HIDE DEF k
    <2> QED
      BY <1>5, <2>1, <2>2
  <1>7. /\ nodes[k] \in Nat
        /\ LiveParent(SubSeq(nodes, 1, k)) = nodes[k]
    BY <1>1, <1>2, ParentIsTop
  <1>8. /\ node.def = d /\ node.words = Kept(d, raw.words) /\ node.parent = nodes[k]
        /\ node \in Node
    BY <1>3, <1>4, <1>6, <1>7 DEF NodeOf, Node
  <1>9. DOMAIN cfg \subseteq DOMAIN text /\ DOMAIN cfg \subseteq Nat
        /\ \A n \in DOMAIN cfg : cfg[n] \in Node
    BY DEF IInv, TypeOK
  <1> HIDE DEF node
  <1>10. /\ DOMAIN cfg' = DOMAIN cfg \cup {LineNo} /\ cfg'[LineNo] = node
         /\ \A n \in DOMAIN cfg : cfg'[n] = cfg[n]
    BY <1>1, <1>9 DEF AddNode, node
  <1>11. nodes' = Append(SubSeq(nodes, 1, Len(sc'.stack) - 1), LineNo)
    BY DEF Push
  <1>12. Pushes(raw, Children[d], LineNo)
    <2>1. LineNo # Nil /\ LineNo > 0 /\ \A n \in DOMAIN cfg : n < LineNo
      <3>1. Len(text) \in Nat
        BY DEF IInv, TypeOK
      <3> QED
        BY <1>1, <1>9, <3>1, ParseAssumption DEF LineNo
    <2> QED
      BY <2>1, <1>5, <1>8, <1>9, <1>10, <1>11 DEF Pushes
  <1>13. LineNo \in Nat \cup {Nil}
    BY <1>1
  <1>14. /\ StacksAgree' /\ Ordered' /\ nodes' \in Seq(Nat \cup {Nil})
         /\ sc'.stack \in Seq([indent : Int, children : Seq(Defs)])
         /\ Len(nodes') > 1 /\ nodes'[Len(nodes')] = LineNo
    BY <1>1, <1>3, <1>12, <1>13, PushAgrees
  <1> QED
    BY <1>8, <1>9, <1>10, <1>12, <1>14

\* The text a block starts with.
FirstBody(d, raw) ==
    CASE BlockKind[d] = "none" -> NoBlock
      [] BlockKind[d] = "until" -> [node |-> LineNo, body |-> <<>>]
      [] BlockKind[d] = "delim" ->
           [node |-> LineNo, body |-> <<[indent |-> 0, words |-> Rest(d, raw.words)]>>]

LEMMA FirstBodyIs ==
    ASSUME NEW d \in Defs, NEW raw \in RawLines, raw.words \in Lines, LineNo \in Nat,
           d \in Openers => <<d, raw.words>> \in DOMAIN Prefix
    PROVE  /\ ~OpensBlock(d) => FirstBody(d, raw) = NoBlock
           /\ OpensBlock(d) =>
                /\ FirstBody(d, raw) \in [node : Nat, body : Seq(Pieces)]
                /\ FirstBody(d, raw).node = LineNo
  <1>1. BlockKind[d] \in {"none", "until", "delim"}
    BY ScanAssumption
  <1>2. Rest(d, raw.words) \in Seq(Words)
    BY RestIsText
  <1>3. [indent |-> 0, words |-> Rest(d, raw.words)] \in Pieces
    BY <1>2 DEF Pieces
  <1>4. CASE BlockKind[d] = "none"
    BY <1>4 DEF FirstBody, OpensBlock
  <1>5. CASE BlockKind[d] = "until"
    BY <1>5 DEF FirstBody, OpensBlock
  <1>6. CASE BlockKind[d] = "delim"
    <2>1. FirstBody(d, raw) =
            [node |-> LineNo, body |-> <<[indent |-> 0, words |-> Rest(d, raw.words)]>>]
      BY <1>6 DEF FirstBody
    <2>2. <<[indent |-> 0, words |-> Rest(d, raw.words)]>> \in Seq(Pieces)
      BY <1>3
    <2> QED
      BY <1>6, <2>1, <2>2 DEF OpensBlock
  <1> QED
    BY <1>1, <1>4, <1>5, <1>6

LEMMA MatchedLineKeeps ==
    ASSUME IInv, NEW raw \in RawLines, MatchedLine(raw)
    PROVE  IInv'
  <1> DEFINE d == BoundDef(sc, raw)
  <1>1. /\ Read(raw, "matched") /\ ~ClosedAtOnce(d, raw.words)
        /\ cfg' = AddNode(cfg, LineNo, NodeOf(raw, d, NoBlock))
        /\ blk' = FirstBody(d, raw)
        /\ Push(LineNo) /\ UNCHANGED <<errors, warnings>>
    BY DEF MatchedLine, FirstBody
  <1>2. /\ text' \in Seq(RawLines) /\ DOMAIN text' = DOMAIN text \cup {LineNo} /\ LineNo \in Nat
        /\ kinds' \in [DOMAIN text' -> Kinds]
        /\ ~done /\ done' = FALSE /\ Kind(sc, raw) = "matched" /\ sc' = Scanned(sc, raw)
    BY <1>1, LineRead DEF Kinds
  <1>3. sc' = AfterMatched(sc, raw, d) /\ ~Blank(raw) /\ d # NoDef
    BY <1>2, ScannedIs, KindIs
  <1>4. /\ d \in Defs /\ raw.words \in Lines
        /\ d \in Openers => <<d, raw.words>> \in DOMAIN Prefix
    BY <1>2, <1>3, MatchedDef
  <1>5. /\ DOMAIN cfg' = DOMAIN cfg \cup {LineNo}
        /\ cfg'[LineNo].def = d /\ cfg'[LineNo].words = Kept(d, raw.words)
        /\ \A n \in DOMAIN cfg' : cfg'[n] \in Node
        /\ StacksAgree' /\ Ordered' /\ nodes' \in Seq(Nat \cup {Nil})
        /\ sc'.stack \in Seq([indent : Int, children : Seq(Defs)])
        /\ Len(nodes') > 1 /\ nodes'[Len(nodes')] = LineNo
    BY <1>1, NodeAgrees
  <1>6. /\ ~OpensBlock(d) => blk' = NoBlock
        /\ OpensBlock(d) =>
            blk' \in [node : Nat, body : Seq(Pieces)] /\ blk'.node = LineNo
    BY <1>1, <1>2, <1>4, FirstBodyIs
  <1>7. /\ sc'.term = IF OpensBlock(d) THEN Term(d, Kept(d, raw.words)) ELSE NoTerm
        /\ sc'.delim <=> OpensBlock(d) /\ BlockKind[d] = "delim"
    BY <1>1, <1>3 DEF AfterMatched
  <1>8. InBlock(sc)' <=> OpensBlock(d)
    BY <1>4, <1>7, TermIsWord DEF InBlock
  <1> HIDE DEF d
  <1>9. TypeOK'
    BY <1>1, <1>2, <1>5, <1>6 DEF IInv, TypeOK, Kinds
  <1>10. OpenBlockIsTop' /\ BlockInTree'
    <2>1. LineNo # Nil
      BY <1>2, ParseAssumption
    <2>2. CASE ~OpensBlock(d)
      BY <2>2, <1>6, <1>8 DEF OpenBlockIsTop, BlockInTree
    <2>3. CASE OpensBlock(d)
      <3>1. blk' # NoBlock
        BY <2>3, <1>6, ParseAssumption
      <3> QED
        BY <2>1, <2>3, <3>1, <1>5, <1>6, <1>7, <1>8 DEF OpenBlockIsTop, BlockInTree
    <2> QED
      BY <2>2, <2>3
  <1> QED
    BY <1>5, <1>9, <1>10 DEF IInv
LEMMA OneLineBlockKeeps ==
    ASSUME IInv, NEW raw \in RawLines, OneLineBlock(raw)
    PROVE  IInv'
  <1> DEFINE d == BoundDef(sc, raw)
             rest == Rest(d, raw.words)
             term == Term(d, Kept(d, raw.words))
             body == <<[indent |-> 0, words |-> Before(rest, term)]>>
  <1>1. /\ Read(raw, "matched") /\ ClosedAtOnce(d, raw.words)
        /\ errors' = errors \/ errors' = errors \cup {LineNo}
        /\ blk' = blk
    BY DEF OneLineBlock
  <1>2. \/ /\ warnings' = warnings \cup {LineNo} /\ Push(Nil) /\ cfg' = cfg
        \/ /\ cfg' = AddNode(cfg, LineNo, NodeOf(raw, d, body))
           /\ Push(LineNo) /\ warnings' = warnings
    BY DEF OneLineBlock
  <1>3. /\ text' \in Seq(RawLines) /\ DOMAIN text' = DOMAIN text \cup {LineNo} /\ LineNo \in Nat
        /\ kinds' \in [DOMAIN text' -> Kinds]
        /\ ~done /\ done' = FALSE /\ Kind(sc, raw) = "matched" /\ sc' = Scanned(sc, raw)
    BY <1>1, LineRead DEF Kinds
  <1>4. sc' = AfterMatched(sc, raw, d) /\ ~InBlock(sc) /\ ~Blank(raw) /\ d # NoDef
    BY <1>3, ScannedIs, KindIs
  <1>5. /\ d \in Defs /\ raw.words \in Lines /\ Children[d] \in Seq(Defs)
        /\ d \in Openers => <<d, raw.words>> \in DOMAIN Prefix
    BY <1>3, <1>4, MatchedDef
  <1>6. body \in Seq(Pieces)
    <2>1. rest \in Seq(Words) /\ Has(rest, term)
      BY <1>1, <1>5, RestIsText DEF ClosedAtOnce
    <2>2. Before(rest, term) \in Seq(Words)
      BY <2>1, BeforeIsText
    <2> HIDE DEF rest, term
    <2>3. [indent |-> 0, words |-> Before(rest, term)] \in Pieces
      BY <2>2 DEF Pieces
    <2> QED
      BY <2>3
  <1>7. /\ sc'.stack = Append(Popped(sc, raw), Frame(raw.indent, Children[d]))
        /\ sc'.term = NoTerm
    BY <1>1, <1>4 DEF AfterMatched
  <1>8. ~InBlock(sc)' /\ blk' = NoBlock
    BY <1>1, <1>3, <1>4, <1>7 DEF InBlock, IInv, OpenBlockIsTop
  <1>9. OpenBlockIsTop' /\ BlockInTree'
    BY <1>8 DEF OpenBlockIsTop, BlockInTree
  <1>10. CASE warnings' = warnings \cup {LineNo} /\ Push(Nil) /\ cfg' = cfg
    <2>1. Children[d] = <<>>
      BY <1>1, <1>5, BlockAssumption DEF ClosedAtOnce
    <2>2. DOMAIN cfg \subseteq Nat
      BY DEF IInv, TypeOK
    <2>3. nodes' = Append(SubSeq(nodes, 1, Len(sc'.stack) - 1), Nil)
      BY <1>10 DEF Push
    <2>4. Pushes(raw, Children[d], Nil)
      BY <1>7, <1>10, <2>1, <2>2, <2>3 DEF Pushes
    <2>5. Nil \in Nat \cup {Nil}
      OBVIOUS
    <2>6. /\ StacksAgree' /\ Ordered' /\ nodes' \in Seq(Nat \cup {Nil})
          /\ sc'.stack \in Seq([indent : Int, children : Seq(Defs)])
      BY <1>3, <1>5, <2>4, <2>5, PushAgrees
    <2>7. TypeOK'
      BY <1>1, <1>3, <1>10, <2>6 DEF IInv, TypeOK, Kinds
    <2> QED
      BY <1>9, <2>6, <2>7 DEF IInv
  <1>11. CASE /\ cfg' = AddNode(cfg, LineNo, NodeOf(raw, d, body))
              /\ Push(LineNo) /\ warnings' = warnings
    <2>1. body \in Seq(Pieces) \cup {NoBlock}
      BY <1>6
    <2> HIDE DEF body
    <2>2. /\ DOMAIN cfg' = DOMAIN cfg \cup {LineNo}
          /\ \A n \in DOMAIN cfg' : cfg'[n] \in Node
          /\ StacksAgree' /\ Ordered' /\ nodes' \in Seq(Nat \cup {Nil})
          /\ sc'.stack \in Seq([indent : Int, children : Seq(Defs)])
      BY <1>1, <1>11, <2>1, NodeAgrees
    <2>3. TypeOK'
      BY <1>1, <1>3, <1>11, <2>2 DEF IInv, TypeOK, Kinds
    <2> QED
      BY <1>9, <2>2, <2>3 DEF IInv
  <1> QED
    BY <1>2, <1>10, <1>11

\* The open block and its node.
LEMMA OpenNode ==
    ASSUME IInv, ~done, InBlock(sc)
    PROVE  /\ blk \in [node : Nat, body : Seq(Pieces)]
           /\ blk.node \in DOMAIN cfg /\ blk.node = nodes[Len(nodes)]
           /\ Len(nodes) \in Nat /\ Len(nodes) > 1
           /\ cfg[blk.node] \in Node /\ blk.node \in DOMAIN text
           /\ sc.delim <=> BlockKind[cfg[blk.node].def] = "delim"
           /\ sc.stack[Len(nodes)].children = Children[cfg[blk.node].def]
  <1>1. /\ blk \in [node : Nat, body : Seq(Pieces)] /\ blk.node = nodes[Len(nodes)]
        /\ blk.node # Nil
        /\ sc.delim <=> BlockKind[cfg[blk.node].def] = "delim"
    BY DEF IInv, TypeOK, OpenBlockIsTop
  <1>2. Len(nodes) > 1 /\ blk.node \in DOMAIN cfg /\ Len(nodes) \in Nat
    BY DEF IInv, TypeOK, BlockInTree
  <1>3. cfg[blk.node] \in Node /\ blk.node \in DOMAIN text
    BY <1>2 DEF IInv, TypeOK
  <1>4. Len(nodes) \in 2..Len(nodes)
    BY <1>2
  <1>5. sc.stack[Len(nodes)].children = Children[cfg[blk.node].def]
    BY <1>1, <1>4 DEF IInv, StacksAgree
  <1> QED
    BY <1>1, <1>2, <1>3, <1>5

\* Dropping the node of the open block takes it from the top of the stack and
\* from the tree, and no other entry was that node.
LEMMA DropAgrees ==
    ASSUME IInv, ~done, ~done', InBlock(sc), BlockKind[cfg[blk.node].def] = "delim",
           sc'.stack = sc.stack,
           nodes' = [nodes EXCEPT ![Len(nodes)] = Nil],
           cfg' = RemoveNode(cfg, blk.node)
    PROVE  StacksAgree' /\ Ordered' /\ nodes' \in Seq(Nat \cup {Nil})
  <1> DEFINE top == Len(nodes)
             n == blk.node
  <1>1. /\ n \in DOMAIN cfg /\ n = nodes[top] /\ n \in Nat
        /\ top \in Nat /\ top > 1 /\ cfg[n] \in Node
        /\ sc.stack[top].children = Children[cfg[n].def]
    BY OpenNode
  <1>2. sc.stack[top].children = <<>>
    <2>1. cfg[n].def \in Defs
      BY <1>1 DEF Node
    <2> QED
      BY <1>1, <2>1, BlockAssumption
  <1>3. /\ nodes \in Seq(Nat \cup {Nil}) /\ nodes[1] = Root
        /\ Len(nodes) = Len(sc.stack) /\ sc.stack[1] = Frame(-1, Roots)
    BY StacksTyped
  <1>4. /\ nodes' \in Seq(Nat \cup {Nil}) /\ Len(nodes') = top /\ DOMAIN nodes' = 1..top
        /\ nodes'[top] = Nil /\ \A j \in 1..(top - 1) : nodes'[j] = nodes[j]
        /\ nodes' # <<>>
    BY <1>1, <1>3
  <1>5. /\ DOMAIN cfg' = DOMAIN cfg \ {n}
        /\ \A m \in DOMAIN cfg \ {n} : cfg'[m] = cfg[m]
    BY DEF RemoveNode
  <1>6. /\ \A i, j \in 1..top :
            i < j /\ nodes[i] # Nil /\ nodes[j] # Nil => nodes[i] < nodes[j]
        /\ \A j \in 2..top :
            /\ sc.stack[j - 1].indent < sc.stack[j].indent
            /\ IF nodes[j] = Nil THEN sc.stack[j].children = <<>>
               ELSE /\ nodes[j] \in DOMAIN cfg
                    /\ cfg[nodes[j]].parent = nodes[j - 1]
                    /\ sc.stack[j].children = Children[cfg[nodes[j]].def]
    BY <1>3, SMTT(60) DEF IInv, Ordered, StacksAgree
  <1>7. n # Nil
    BY <1>1, ParseAssumption
  <1> HIDE DEF top, n
  <1>8. \A j \in 1..(top - 1) : nodes[j] # n
    <2>1. SUFFICES ASSUME NEW j \in 1..(top - 1), nodes[j] = n PROVE FALSE
      OBVIOUS
    <2>2. j \in 1..top /\ top \in 1..top /\ j < top
      BY <1>1
    <2>3. nodes[j] < nodes[top]
      BY <1>1, <1>6, <1>7, <2>1, <2>2
    <2> QED
      BY <1>1, <2>1, <2>3
  <1>9. ASSUME NEW j \in 2..top
        PROVE  /\ sc'.stack[j - 1].indent < sc'.stack[j].indent
               /\ IF nodes'[j] = Nil THEN sc'.stack[j].children = <<>>
                  ELSE /\ nodes'[j] \in DOMAIN cfg'
                       /\ cfg'[nodes'[j]].parent = nodes'[j - 1]
                       /\ sc'.stack[j].children = Children[cfg'[nodes'[j]].def]
    <2>1. CASE j = top
      BY <2>1, <1>1, <1>2, <1>4, <1>6
    <2>2. CASE j # top
      <3>1. j \in 1..(top - 1) /\ j - 1 \in 1..(top - 1)
        BY <1>1, <2>2
      <3>2. nodes'[j] = nodes[j] /\ nodes'[j - 1] = nodes[j - 1] /\ nodes[j] # n
        BY <3>1, <1>4, <1>8, SMTT(60)
      <3> QED
        BY <3>2, <1>5, <1>6
    <2> QED
      BY <2>1, <2>2
  <1>10. StacksAgree'
    <2>1. nodes'[1] = Root
      BY <1>1, <1>3, <1>4
    <2> QED
      BY <2>1, <1>3, <1>4, <1>9 DEF StacksAgree, Root, top
  <1>11. Ordered'
    <2>1. ASSUME NEW i \in 1..top, NEW j \in 1..top, i < j,
                 nodes'[i] # Nil, nodes'[j] # Nil
          PROVE  nodes'[i] < nodes'[j]
      <3>1. i \in 1..(top - 1) /\ j \in 1..(top - 1)
        BY <1>1, <1>4, <2>1
      <3> QED
        BY <3>1, <2>1, <1>4, <1>6
    <2> QED
      BY <2>1, <1>4 DEF Ordered
  <1> QED
    BY <1>4, <1>10, <1>11
LEMMA BlockEndKeeps ==
    ASSUME IInv, NEW raw \in RawLines, BlockEnd(raw)
    PROVE  IInv'
  <1> DEFINE n == blk.node
             body == ClosedBody(raw)
  <1>1. /\ Read(raw, "end") /\ blk' = NoBlock
        /\ errors' = errors \/ errors' = errors \cup {LineNo}
    BY DEF BlockEnd
  <1>2. \/ /\ DropsBlock(cfg[n].def, body) /\ cfg' = RemoveNode(cfg, n)
           /\ nodes' = [nodes EXCEPT ![Len(nodes)] = Nil]
           /\ warnings' = warnings \cup {LineNo}
        \/ /\ cfg' = [cfg EXCEPT ![n].body = body]
           /\ nodes' = nodes /\ warnings' = warnings
    BY DEF BlockEnd
  <1>3. /\ text' \in Seq(RawLines) /\ DOMAIN text' = DOMAIN text \cup {LineNo} /\ LineNo \in Nat
        /\ kinds' \in [DOMAIN text' -> Kinds]
        /\ ~done /\ done' = FALSE /\ Kind(sc, raw) = "end" /\ sc' = Scanned(sc, raw)
    BY <1>1, LineRead DEF Kinds
  <1>4. sc' = AfterBlockEnd(sc) /\ InBlock(sc) /\ Closes(sc, raw)
    BY <1>3, ScannedIs, KindIs
  <1>5. sc'.stack = sc.stack /\ sc'.term = NoTerm
    BY <1>4 DEF AfterBlockEnd, IInv, TypeOK, OpenBlockIsTop, InBlock
  <1>6. OpenBlockIsTop' /\ BlockInTree'
    BY <1>1, <1>5 DEF OpenBlockIsTop, BlockInTree, InBlock
  <1>7. /\ blk \in [node : Nat, body : Seq(Pieces)]
        /\ n \in DOMAIN cfg /\ cfg[n] \in Node
    BY <1>3, <1>4, OpenNode
  <1>8. body \in Seq(Pieces)
    <2>1. blk.body \in Seq(Pieces)
      BY <1>7
    <2>2. CASE sc.delim
      <3>1. raw.words \in Seq(Words) /\ Has(raw.words, sc.term) /\ raw \in Pieces
        BY <1>4, <2>2, RawTyped DEF Closes
      <3>2. Before(raw.words, sc.term) \in Seq(Words)
        BY <3>1, BeforeIsText
      <3>3. LastPiece(raw) \in Pieces
        BY <3>1, <3>2 DEF LastPiece, Pieces
      <3>4. Append(blk.body, LastPiece(raw)) \in Seq(Pieces)
        BY <2>1, <3>3
      <3> QED
        BY <2>2, <3>4 DEF ClosedBody
    <2>3. CASE ~sc.delim
      BY <2>1, <2>3 DEF ClosedBody
    <2> QED
      BY <2>2, <2>3
  <1>9. sc'.stack \in Seq([indent : Int, children : Seq(Defs)])
    BY <1>5 DEF IInv, TypeOK
  <1>10. CASE /\ DropsBlock(cfg[n].def, body) /\ cfg' = RemoveNode(cfg, n)
              /\ nodes' = [nodes EXCEPT ![Len(nodes)] = Nil]
              /\ warnings' = warnings \cup {LineNo}
    <2>1. BlockKind[cfg[n].def] = "delim"
      BY <1>10 DEF DropsBlock
    <2>2. StacksAgree' /\ Ordered' /\ nodes' \in Seq(Nat \cup {Nil})
      BY <1>3, <1>4, <1>5, <1>10, <2>1, DropAgrees
    <2>3. DOMAIN cfg' \subseteq DOMAIN cfg /\ \A m \in DOMAIN cfg' : cfg'[m] = cfg[m]
      BY <1>10 DEF RemoveNode
    <2> HIDE DEF n, body
    <2>4. TypeOK'
      BY <1>1, <1>3, <1>9, <1>10, <2>2, <2>3 DEF IInv, TypeOK, Kinds
    <2> QED
      BY <1>6, <2>2, <2>4 DEF IInv
  <1>11. CASE /\ cfg' = [cfg EXCEPT ![n].body = body]
              /\ nodes' = nodes /\ warnings' = warnings
    <2> HIDE DEF n, body
    <2>1. DOMAIN cfg' = DOMAIN cfg /\ \A m \in DOMAIN cfg : m # n => cfg'[m] = cfg[m]
      BY <1>11
    <2>2. /\ cfg'[n] \in Node
          /\ cfg'[n].def = cfg[n].def /\ cfg'[n].parent = cfg[n].parent
      <3>1. cfg'[n] = [cfg[n] EXCEPT !.body = body]
        BY <1>7, <1>11
      <3> QED
        BY <3>1, <1>7, <1>8 DEF Node
    <2>3. \A m \in DOMAIN cfg :
            cfg'[m].def = cfg[m].def /\ cfg'[m].parent = cfg[m].parent
      BY <2>1, <2>2
    <2>4. StacksAgree'
      BY <1>3, <1>5, <1>11, <2>1, <2>3 DEF IInv, StacksAgree, Root
    <2>5. Ordered'
      BY <1>3, <1>11 DEF IInv, Ordered
    <2>6. \A m \in DOMAIN cfg' : cfg'[m] \in Node
      <3>1. \A m \in DOMAIN cfg : cfg[m] \in Node
        BY DEF IInv, TypeOK
      <3> QED
        BY <3>1, <2>1, <2>2
    <2>7. TypeOK'
      BY <1>1, <1>3, <1>9, <1>11, <2>1, <2>6 DEF IInv, TypeOK, Kinds
    <2> QED
      BY <1>6, <2>4, <2>5, <2>7 DEF IInv
  <1> QED
    BY <1>2, <1>10, <1>11

LEMMA EndOfTextKeeps ==
    ASSUME IInv, EndOfText
    PROVE  IInv'
  <1> DEFINE n == blk.node
  <1>1. ~done /\ done' = TRUE /\ UNCHANGED <<text, kinds, sc, nodes, blk, warnings>>
    BY DEF EndOfText
  <1>2. \/ cfg' = cfg /\ errors' = errors
        \/ /\ InBlock(sc) /\ errors' = errors \cup {n}
           /\ \/ cfg' = RemoveNode(cfg, n)
              \/ cfg' = [cfg EXCEPT ![n].body = Trimmed(blk.body)]
    BY DEF EndOfText
  <1>3. StacksAgree' /\ OpenBlockIsTop'
    BY <1>1 DEF StacksAgree, OpenBlockIsTop
  <1>t. SUFFICES TypeOK'
    BY <1>1, <1>3 DEF IInv
  <1>4. CASE cfg' = cfg /\ errors' = errors
    BY <1>1, <1>4 DEF IInv, TypeOK
  <1>5. CASE InBlock(sc) /\ errors' = errors \cup {n} /\ cfg' = RemoveNode(cfg, n)
    <2>1. n \in DOMAIN text
      BY <1>1, <1>5, OpenNode
    <2>2. DOMAIN cfg' \subseteq DOMAIN cfg /\ \A m \in DOMAIN cfg' : cfg'[m] = cfg[m]
      BY <1>5 DEF RemoveNode
    <2> HIDE DEF n
    <2> QED
      BY <1>1, <1>5, <2>1, <2>2 DEF IInv, TypeOK
  <1>6. CASE /\ InBlock(sc) /\ errors' = errors \cup {n}
             /\ cfg' = [cfg EXCEPT ![n].body = Trimmed(blk.body)]
    <2>1. n \in DOMAIN text /\ n \in DOMAIN cfg /\ cfg[n] \in Node /\ blk.body \in Seq(Pieces)
      BY <1>1, <1>6, OpenNode
    <2>2. Trimmed(blk.body) \in Seq(Pieces)
      BY <2>1 DEF Trimmed
    <2> HIDE DEF n
    <2>3. DOMAIN cfg' = DOMAIN cfg /\ \A m \in DOMAIN cfg : m # n => cfg'[m] = cfg[m]
      BY <1>6
    <2>4. cfg'[n] \in Node
      <3>1. cfg'[n] = [cfg[n] EXCEPT !.body = Trimmed(blk.body)]
        BY <1>6, <2>1
      <3> QED
        BY <3>1, <2>1, <2>2 DEF Node
    <2>5. \A m \in DOMAIN cfg' : cfg'[m] \in Node
      <3>1. \A m \in DOMAIN cfg : cfg[m] \in Node
        BY DEF IInv, TypeOK
      <3> QED
        BY <3>1, <2>3, <2>4
    <2> QED
      BY <1>1, <1>6, <2>1, <2>3, <2>5 DEF IInv, TypeOK
  <1> QED
    BY <1>2, <1>4, <1>5, <1>6

-----------------------------------------------------------------------------
LEMMA InitIInv == Init => IInv
  <1> SUFFICES ASSUME Init PROVE IInv
    OBVIOUS
  <1>1. /\ text = <<>> /\ kinds = <<>> /\ nodes = <<0>> /\ cfg = <<>> /\ blk = NoBlock
        /\ errors = {} /\ warnings = {} /\ done = FALSE
        /\ sc.stack = <<Frame(-1, Roots)>> /\ sc.term = NoTerm
    BY DEF Init, Root, NewScanner
  <1>2. sc.stack \in Seq([indent : Int, children : Seq(Defs)])
    <2>1. Frame(-1, Roots) \in [indent : Int, children : Seq(Defs)]
      BY ScanAssumption DEF Frame
    <2> HIDE DEF Frame
    <2> QED
      BY <1>1, <2>1
  <1>3. TypeOK
    <2>1. kinds \in [DOMAIN text -> Kinds]
      BY <1>1
    <2>2. text \in Seq(RawLines) /\ nodes \in Seq(Nat \cup {Nil}) /\ DOMAIN cfg = {}
      BY <1>1
    <2> QED
      BY <1>1, <1>2, <2>1, <2>2 DEF TypeOK, Kinds
  <1>4. StacksAgree /\ Ordered
    BY <1>1 DEF StacksAgree, Ordered, Root
  <1>5. OpenBlockIsTop /\ BlockInTree
    BY <1>1 DEF OpenBlockIsTop, BlockInTree, InBlock
  <1> QED
    BY <1>3, <1>4, <1>5 DEF IInv

LEMMA NextIInv == IInv /\ [Next]_vars => IInv'
  <1> SUFFICES ASSUME IInv, [Next]_vars PROVE IInv'
    OBVIOUS
  <1>1. ASSUME NEW raw \in RawLines, ParseLine(raw)
        PROVE  IInv'
    BY <1>1, BlankLineKeeps, BodyLineKeeps, BlockEndKeeps, UnknownLineKeeps,
       MatchedLineKeeps, OneLineBlockKeeps DEF ParseLine
  <1>2. CASE UNCHANGED vars
    BY <1>2 DEF vars, IInv, TypeOK, StacksAgree, OpenBlockIsTop, Ordered, BlockInTree,
       InBlock, Root
  <1> QED
    BY <1>1, <1>2, EndOfTextKeeps DEF Next

LEMMA Invariant == Spec => []IInv
  BY InitIInv, NextIInv, PTL DEF Spec

\* parse.Parse keeps its state in its types: nodes are definitions and lines
\* of the schema and the text, bodies are raw text.
THEOREM TypeCorrect == Spec => []TypeOK
  <1>1. IInv => TypeOK
    BY DEF IInv
  <1> QED
    BY <1>1, Invariant, PTL

\* The parser's stack of nodes and the scanner's stack of sections describe the
\* same sections for every schema and every text.
THEOREM StacksInStep == Spec => []StacksAgree
  <1>1. IInv => StacksAgree
    BY DEF IInv
  <1> QED
    BY <1>1, Invariant, PTL

\* Raw lines always go to the node whose line opened the block.
THEOREM BlockOnTop == Spec => []OpenBlockIsTop
  <1>1. IInv => OpenBlockIsTop
    BY DEF IInv
  <1> QED
    BY <1>1, Invariant, PTL

-----------------------------------------------------------------------------
(* Where a line belongs and what it means.                                 *)

LastOf(S) == IF S = {} THEN Root ELSE CHOOSE j \in S : \A k \in S : k <= j

\* The section of a line that comes next and is indented by n.
SectionAt(n) == LastOf({j \in Commands : text[j].indent < n})

SectionsOpen ==
    \A n \in Nat :
        LET k == Open(sc.stack, n)
        IN  /\ sc.stack[k].children = ChildrenOf(SectionAt(n))
            /\ nodes[k] # Nil => nodes[k] = SectionAt(n)

\* IndentDecides of one line.
Decided(i) ==
    LET d == MatchChildOpener(ChildrenOf(Enclosing(i)), text[i].words)
    IN  /\ kinds[i] = "unknown" <=> d = NoDef
        /\ i \in DOMAIN cfg => cfg[i].parent = Enclosing(i) /\ cfg[i].def = d

DInv ==
    /\ IInv
    /\ \A i \in Commands : Decided(i)
    /\ ~done => SectionsOpen

-----------------------------------------------------------------------------
(* The topmost section that encloses an indentation.                       *)

LEMMA GreatestOf ==
    ASSUME NEW L \in Nat, NEW S \in SUBSET (1..L), S # {}
    PROVE  \E x \in S : \A y \in S : y <= x
  <1> DEFINE R == OpToRel(<, Nat)
             T == {m \in Nat : L - m \in S}
  <1>1. T # {}
    <2>1. PICK x \in S : TRUE
      OBVIOUS
    <2>2. L - x \in Nat /\ L - (L - x) = x
      BY <2>1
    <2> QED
      BY <2>1, <2>2
  <1>2. IsWellFoundedOn(R, Nat)
    BY NatLessThanWellFounded
  <1> HIDE DEF R
  <1>3. PICK m \in T : \A y \in T : ~(<<y, m>> \in R)
    BY <1>1, <1>2, WFMin
  <1>4. \A y \in T : ~(y < m)
    BY <1>3 DEF R, OpToRel
  <1>5. \A y \in S : L - y \in T
    <2>1. ASSUME NEW y \in S PROVE L - y \in Nat /\ L - (L - y) = y
      OBVIOUS
    <2> QED
      BY <2>1
  <1>6. m \in Nat /\ L - m \in S
    BY <1>3
  <1>7. ASSUME NEW y \in S PROVE y <= L - m
    BY <1>4, <1>5, <1>6
  <1> QED
    BY <1>6, <1>7

LEMMA OpenIs ==
    ASSUME NEW stack \in Seq(FrameType), NEW n \in Nat,
           NEW k \in 1..Len(stack), k # 1 => stack[k].indent < n,
           \A j \in (k + 1)..Len(stack) : ~(stack[j].indent < n)
    PROVE  Open(stack, n) = k
  <1> DEFINE Topmost(i) ==
        /\ Encloses(stack[i], n)
        /\ \A j \in (i + 1)..Len(stack) : ~Encloses(stack[j], n)
  <1>1. Len(stack) \in Nat
    OBVIOUS
  <1>2. ASSUME NEW i \in 2..Len(stack), Topmost(i)
        PROVE  i = k
    <2>1. CASE i > k
      BY <1>1, <1>2, <2>1 DEF Encloses
    <2>2. CASE i < k
      <3>1. k \in (i + 1)..Len(stack) /\ k # 1
        BY <1>1, <2>2
      <3> QED
        BY <1>2, <3>1 DEF Encloses
    <2> QED
      BY <1>1, <2>1, <2>2
  <1>3. k # 1 => k \in 2..Len(stack) /\ Topmost(k)
    BY DEF Encloses
  <1>4. Open(stack, n) = IF \E i \in 2..Len(stack) : Topmost(i)
                         THEN CHOOSE i \in 2..Len(stack) : Topmost(i)
                         ELSE 1
    BY DEF Open
  <1> HIDE DEF Topmost
  <1> QED
    BY <1>2, <1>3, <1>4

\* Nothing above it encloses the indentation.
LEMMA OpenTop ==
    ASSUME NEW stack \in Seq(FrameType), stack # <<>>, NEW n \in Nat
    PROVE  /\ Open(stack, n) \in 1..Len(stack)
           /\ Open(stack, n) # 1 => stack[Open(stack, n)].indent < n
           /\ \A j \in (Open(stack, n) + 1)..Len(stack) : ~(stack[j].indent < n)
  <1> DEFINE S == {j \in 2..Len(stack) : stack[j].indent < n}
             L == Len(stack)
  <1>1. L \in Nat /\ L >= 1
    BY EmptySeq
  <1>2. CASE S = {}
    <2>1. Open(stack, n) = 1
      <3>1. 1 \in 1..Len(stack) /\ \A j \in (1 + 1)..Len(stack) : ~(stack[j].indent < n)
        BY <1>1, <1>2
      <3> QED
        BY <3>1, OpenIs
    <2> QED
      BY <2>1, <1>1, <1>2
  <1>3. CASE S # {}
    <2>1. S \in SUBSET (1..L)
      BY <1>1
    <2> HIDE DEF L
    <2>2. PICK x \in S : \A y \in S : y <= x
      BY <1>1, <1>3, <2>1, GreatestOf
    <2> USE DEF L
    <2>3. /\ x \in 1..Len(stack) /\ stack[x].indent < n
          /\ \A j \in (x + 1)..Len(stack) : ~(stack[j].indent < n)
      <3>1. ASSUME NEW j \in (x + 1)..Len(stack), stack[j].indent < n
            PROVE  FALSE
        <4>1. j \in S
          BY <1>1, <2>2, <3>1
        <4> QED
          BY <1>1, <2>2, <4>1
      <3> QED
        BY <1>1, <2>2, <3>1
    <2>4. Open(stack, n) = x
      BY <2>3, OpenIs
    <2> QED
      BY <2>3, <2>4
  <1> QED
    BY <1>2, <1>3

-----------------------------------------------------------------------------
(* The section of an indentation.                                          *)

LEMMA LastIs ==
    ASSUME NEW S \in SUBSET Nat, NEW x \in S, \A y \in S : y <= x
    PROVE  LastOf(S) = x
  <1>1. \A y \in S : (\A k \in S : k <= y) => y = x
    OBVIOUS
  <1> QED
    BY <1>1 DEF LastOf

LEMMA CommandsAreLines == IInv => Commands \subseteq DOMAIN text
  BY DEF Commands, IInv, TypeOK

LEMMA LastInSet ==
    ASSUME NEW L \in Nat, NEW S \in SUBSET (1..L)
    PROVE  LastOf(S) = Root \/ LastOf(S) \in S
  <1>1. CASE S = {}
    BY <1>1 DEF LastOf
  <1>2. CASE S # {}
    <2>1. PICK x \in S : \A y \in S : y <= x
      BY <1>2, GreatestOf
    <2>2. S \in SUBSET Nat
      OBVIOUS
    <2> QED
      BY <2>1, <2>2, LastIs
  <1> QED
    BY <1>1, <1>2

\* It is the root or a line that has been read.
LEMMA SectionIsLine ==
    ASSUME IInv, NEW n \in Nat
    PROVE  SectionAt(n) = Root \/ SectionAt(n) \in DOMAIN text
  <1> DEFINE S == {j \in Commands : text[j].indent < n}
             L == Len(text)
  <1>1. L \in Nat /\ DOMAIN text = 1..L
    BY DEF IInv, TypeOK
  <1>2. S \in SUBSET (1..L)
    BY <1>1, CommandsAreLines
  <1>3. SectionAt(n) = LastOf(S)
    BY DEF SectionAt
  <1> HIDE DEF S, L
  <1>4. LastOf(S) = Root \/ LastOf(S) \in S
    BY <1>1, <1>2, LastInSet
  <1> QED
    BY <1>1, <1>2, <1>3, <1>4

-----------------------------------------------------------------------------
(* What does not change for the lines already read.                        *)

\* No node appears, moves or changes its definition for an old line, and a node
\* that goes had no children to declare.
OldNodesStay ==
    \A i \in DOMAIN text :
        /\ ChildrenOf(i)' = ChildrenOf(i)
        /\ i \in DOMAIN cfg' =>
            /\ i \in DOMAIN cfg
            /\ cfg'[i].parent = cfg[i].parent /\ cfg'[i].def = cfg[i].def

OldLinesStay ==
    /\ LineNo \in Nat
    /\ \A i \in DOMAIN text :
        i \in Nat /\ i < LineNo /\ text'[i] = text[i] /\ kinds'[i] = kinds[i]
    /\ Commands' = Commands \/ Commands' = Commands \cup {LineNo}

LEMMA LineKept ==
    ASSUME IInv, NEW raw \in RawLines, NEW kind \in Kinds, Read(raw, kind)
    PROVE  /\ OldLinesStay
           /\ Commands' = IF kind \in {"unknown", "matched"}
                          THEN Commands \cup {LineNo} ELSE Commands
           /\ text'[LineNo] = raw /\ kinds'[LineNo] = kind
           /\ ~done /\ done' = FALSE
  <1>1. /\ text' = Append(text, raw) /\ kinds' = Append(kinds, kind)
        /\ ~done /\ done' = done
    BY DEF Read
  <1>2. /\ text \in Seq(RawLines) /\ kinds \in [1..Len(text) -> Kinds] /\ done \in BOOLEAN
    BY DEF IInv, TypeOK, Kinds
  <1> HIDE DEF Kinds
  <1>3. kinds \in Seq(Kinds) /\ Len(kinds) = Len(text) /\ Len(text) \in Nat
    BY <1>2
  <1>4. /\ DOMAIN text = 1..Len(text) /\ DOMAIN kinds = 1..Len(text)
        /\ DOMAIN kinds' = 1..(Len(text) + 1)
        /\ text'[Len(text) + 1] = raw /\ kinds'[Len(text) + 1] = kind
        /\ \A i \in 1..Len(text) : text'[i] = text[i] /\ kinds'[i] = kinds[i]
    BY <1>1, <1>2, <1>3
  <1>5. Commands' = IF kind \in {"unknown", "matched"}
                    THEN Commands \cup {LineNo} ELSE Commands
    <2>1. DOMAIN kinds' = DOMAIN kinds \cup {LineNo} /\ LineNo \notin DOMAIN kinds
      BY <1>3, <1>4 DEF LineNo
    <2>2. kinds'[LineNo] = kind /\ \A i \in DOMAIN kinds : kinds'[i] = kinds[i]
      BY <1>4 DEF LineNo
    <2> QED
      BY <2>1, <2>2 DEF Commands
  <1>6. LineNo \in Nat /\ \A i \in DOMAIN text : i \in Nat /\ i < LineNo
    BY <1>3, <1>4 DEF LineNo
  <1> QED
    BY <1>1, <1>2, <1>4, <1>5, <1>6 DEF OldLinesStay, LineNo

\* The section of a line is among the lines before it.
LEMMA EnclosingStays ==
    ASSUME IInv, OldLinesStay, NEW i \in Commands
    PROVE  Enclosing(i)' = Enclosing(i)
  <1> DEFINE S == {j \in Commands : j < i /\ text[j].indent < text[i].indent}
             T == {j \in Commands' : j < i /\ text'[j].indent < text'[i].indent}
  <1>1. Commands \subseteq DOMAIN text
    BY CommandsAreLines
  <1>2. T = S
    <2>1. i \in Nat /\ i < LineNo /\ LineNo \in Nat /\ text'[i] = text[i]
      BY <1>1 DEF OldLinesStay
    <2>2. \A j \in Commands : text'[j] = text[j]
      BY <1>1 DEF OldLinesStay
    <2>3. ~(LineNo < i)
      BY <2>1
    <2> QED
      BY <2>1, <2>2, <2>3 DEF OldLinesStay
  <1>3. Enclosing(i)' = LastOf(T) /\ Enclosing(i) = LastOf(S)
    BY DEF Enclosing, LastOf
  <1> QED
    BY <1>2, <1>3

\* It is the root or a line.
LEMMA EnclosingIsLine ==
    ASSUME IInv, NEW i \in Commands
    PROVE  Enclosing(i) = Root \/ Enclosing(i) \in DOMAIN text
  <1> DEFINE n == text[i].indent
             S == {j \in Commands : j < i /\ text[j].indent < n}
             L == Len(text)
  <1>1. L \in Nat /\ DOMAIN text = 1..L
    BY DEF IInv, TypeOK
  <1>2. S \in SUBSET (1..L)
    BY <1>1, CommandsAreLines
  <1>3. Enclosing(i) = LastOf(S)
    BY DEF Enclosing, LastOf
  <1> HIDE DEF S, L
  <1>4. LastOf(S) = Root \/ LastOf(S) \in S
    BY <1>1, <1>2, LastInSet
  <1> QED
    BY <1>1, <1>2, <1>3, <1>4

LEMMA ChildrenStay ==
    ASSUME IInv, OldNodesStay, NEW i, i = Root \/ i \in DOMAIN text
    PROVE  ChildrenOf(i)' = ChildrenOf(i)
  BY DEF OldNodesStay, ChildrenOf

\* The same for a section named by an expression that does not change.
LEMMA ChildrenThere ==
    ASSUME IInv, OldNodesStay, NEW e, NEW f, e = f, e = Root \/ e \in DOMAIN text
    PROVE  (IF f = Root THEN Roots
            ELSE IF f \in DOMAIN cfg' THEN Children[cfg'[f].def] ELSE <<>>)
           = ChildrenOf(e)
  <1>1. ChildrenOf(e)' = ChildrenOf(e)
    BY ChildrenStay
  <1> QED
    BY <1>1 DEF ChildrenOf

LEMMA OldDecided ==
    ASSUME IInv, OldLinesStay, OldNodesStay, NEW i \in Commands, Decided(i)
    PROVE  Decided(i)'
  <1>1. i \in DOMAIN text
    BY CommandsAreLines
  <1>2. Enclosing(i)' = Enclosing(i)
    BY EnclosingStays
  <1>3. ChildrenOf(Enclosing(i))' = ChildrenOf(Enclosing(i))
    <2>1. Enclosing(i) = Root \/ Enclosing(i) \in DOMAIN text
      BY EnclosingIsLine
    <2> DEFINE e == Enclosing(i)
               f == Enclosing(i)'
    <2>2. e = f /\ (e = Root \/ e \in DOMAIN text)
      BY <1>2, <2>1
    <2>3. ChildrenOf(Enclosing(i))' =
            IF f = Root THEN Roots
            ELSE IF f \in DOMAIN cfg' THEN Children[cfg'[f].def] ELSE <<>>
      BY DEF ChildrenOf
    <2>4. ChildrenOf(Enclosing(i)) = ChildrenOf(e)
      OBVIOUS
    <2> HIDE DEF e, f
    <2>5. (IF f = Root THEN Roots
           ELSE IF f \in DOMAIN cfg' THEN Children[cfg'[f].def] ELSE <<>>) = ChildrenOf(e)
      BY <2>2, ChildrenThere
    <2> QED
      BY <2>3, <2>4, <2>5
  <1>4. text'[i] = text[i] /\ kinds'[i] = kinds[i]
    BY <1>1 DEF OldLinesStay
  <1>5. i \in DOMAIN cfg' =>
            i \in DOMAIN cfg /\ cfg'[i].parent = cfg[i].parent /\ cfg'[i].def = cfg[i].def
    BY <1>1 DEF OldNodesStay
  <1> QED
    BY <1>2, <1>3, <1>4, <1>5 DEF Decided

-----------------------------------------------------------------------------
(* The section of an indentation after another line.                       *)

LEMMA SectionStays ==
    ASSUME IInv, OldLinesStay, NEW n \in Nat,
           Commands' = Commands \/ ~(text'[LineNo].indent < n)
    PROVE  SectionAt(n)' = SectionAt(n)
  <1> DEFINE S == {j \in Commands : text[j].indent < n}
             T == {j \in Commands' : text'[j].indent < n}
  <1>1. \A j \in Commands : text'[j] = text[j]
    BY CommandsAreLines DEF OldLinesStay
  <1>2. T = S
    BY <1>1 DEF OldLinesStay
  <1>3. SectionAt(n)' = LastOf(T) /\ SectionAt(n) = LastOf(S)
    BY DEF SectionAt, LastOf
  <1> QED
    BY <1>2, <1>3

LEMMA SectionMoves ==
    ASSUME IInv, OldLinesStay, NEW n \in Nat,
           Commands' = Commands \cup {LineNo}, text'[LineNo].indent < n
    PROVE  SectionAt(n)' = LineNo
  <1> DEFINE T == {j \in Commands' : text'[j].indent < n}
  <1>1. T \in SUBSET Nat /\ LineNo \in T
    BY CommandsAreLines DEF OldLinesStay
  <1>2. \A y \in T : y <= LineNo
    BY CommandsAreLines DEF OldLinesStay
  <1>3. SectionAt(n)' = LastOf(T)
    BY DEF SectionAt, LastOf
  <1> HIDE DEF T
  <1>4. LastOf(T) = LineNo
    BY <1>1, <1>2, LastIs
  <1> QED
    BY <1>3, <1>4

\* The enclosing section of the line just read.
LEMMA EnclosingOfNew ==
    ASSUME IInv, OldLinesStay, NEW n \in Nat, NEW m \in Nat, m = LineNo,
           Commands' = Commands \cup {m}, text'[m].indent = n
    PROVE  Enclosing(m)' = SectionAt(n)
  <1> DEFINE S == {j \in Commands : text[j].indent < n}
             T == {j \in Commands' : j < m /\ text'[j].indent < text'[m].indent}
  <1>1. \A j \in Commands : text'[j] = text[j] /\ j \in Nat /\ j < m
    BY CommandsAreLines DEF OldLinesStay
  <1>2. ~(m < m)
    OBVIOUS
  <1>3. T = S
    BY <1>1, <1>2
  <1>4. Enclosing(m)' = LastOf(T) /\ SectionAt(n) = LastOf(S)
    BY DEF Enclosing, SectionAt, LastOf
  <1> QED
    BY <1>3, <1>4

LEMMA ChildrenOfStays ==
    ASSUME IInv, OldNodesStay, NEW n \in Nat, SectionAt(n)' = SectionAt(n)
    PROVE  ChildrenOf(SectionAt(n))' = ChildrenOf(SectionAt(n))
  <1> DEFINE e == SectionAt(n)
             f == SectionAt(n)'
  <1>1. e = f /\ (e = Root \/ e \in DOMAIN text)
    BY SectionIsLine
  <1>2. ChildrenOf(SectionAt(n))' =
          IF f = Root THEN Roots
          ELSE IF f \in DOMAIN cfg' THEN Children[cfg'[f].def] ELSE <<>>
    BY DEF ChildrenOf
  <1>3. ChildrenOf(SectionAt(n)) = ChildrenOf(e)
    OBVIOUS
  <1> HIDE DEF e, f
  <1>4. (IF f = Root THEN Roots
         ELSE IF f \in DOMAIN cfg' THEN Children[cfg'[f].def] ELSE <<>>) = ChildrenOf(e)
    BY <1>1, ChildrenThere
  <1> QED
    BY <1>2, <1>3, <1>4

LEMMA StackKeeps ==
    ASSUME IInv, ~done, SectionsOpen, OldLinesStay, OldNodesStay, Commands' = Commands,
           sc'.stack = sc.stack,
           \A k \in DOMAIN nodes : nodes'[k] = nodes[k] \/ nodes'[k] = Nil
    PROVE  SectionsOpen'
  <1> SUFFICES ASSUME NEW n \in Nat
               PROVE  LET k == Open(sc'.stack, n)
                      IN  /\ sc'.stack[k].children = ChildrenOf(SectionAt(n))'
                          /\ nodes'[k] # Nil => nodes'[k] = SectionAt(n)'
    BY DEF SectionsOpen
  <1> DEFINE k == Open(sc.stack, n)
  <1>1. /\ sc.stack \in Seq(FrameType) /\ sc.stack # <<>>
        /\ nodes \in Seq(Nat \cup {Nil}) /\ Len(nodes) = Len(sc.stack)
    BY StacksTyped
  <1>2. k \in 1..Len(sc.stack)
    BY <1>1, OpenTop
  <1> HIDE DEF k
  <1>3. k \in DOMAIN nodes
    BY <1>1, <1>2
  <1>4. SectionAt(n)' = SectionAt(n)
    BY SectionStays
  <1>5. ChildrenOf(SectionAt(n))' = ChildrenOf(SectionAt(n))
    BY <1>4, ChildrenOfStays
  <1>6. /\ sc.stack[k].children = ChildrenOf(SectionAt(n))
        /\ nodes[k] # Nil => nodes[k] = SectionAt(n)
    BY DEF SectionsOpen, k
  <1> QED
    BY <1>3, <1>4, <1>5, <1>6 DEF k

-----------------------------------------------------------------------------
(* A command.                                                              *)

LEMMA CommandSections ==
    ASSUME IInv, ~done, SectionsOpen, OldLinesStay, OldNodesStay,
           NEW raw \in RawLines, NEW c \in Seq(Defs), NEW e \in Nat \cup {Nil},
           NEW m \in Nat, m = LineNo, Commands' = Commands \cup {m}, text'[m] = raw,
           Pushes(raw, c, e), e # Nil => e = m, ChildrenOf(m)' = c
    PROVE  SectionsOpen'
  <1> DEFINE r == raw.indent
             k == Open(sc.stack, r)
             f == Frame(r, c)
             stack == sc'.stack
  <1>1. /\ k \in 1..Len(sc.stack)
        /\ k # 1 => sc.stack[k].indent < r
        /\ Popped(sc, raw) \in Seq(FrameType) /\ Len(Popped(sc, raw)) = k
        /\ \A j \in 1..k : Popped(sc, raw)[j] = sc.stack[j]
        /\ SubSeq(nodes, 1, k) \in Seq(Nat \cup {Nil}) /\ Len(SubSeq(nodes, 1, k)) = k
        /\ \A j \in 1..k : SubSeq(nodes, 1, k)[j] = nodes[j]
    BY PoppedIs
  <1>2. /\ Len(nodes) = Len(sc.stack) /\ sc.stack # <<>> /\ sc.stack \in Seq(FrameType)
        /\ nodes \in Seq(Nat \cup {Nil})
    BY StacksTyped
  <1>3. r \in Nat /\ f \in FrameType /\ f.indent = r /\ f.children = c
    BY RawTyped DEF FrameType, Frame
  <1>4. \A j \in (k + 1)..Len(sc.stack) : ~(sc.stack[j].indent < r)
    BY <1>2, <1>3, OpenTop
  <1>5. /\ stack \in Seq(FrameType) /\ Len(stack) = k + 1 /\ stack[k + 1] = f
        /\ \A j \in 1..k : stack[j] = sc.stack[j]
    <2>1. stack = Append(Popped(sc, raw), f)
      BY DEF Pushes
    <2>a. Popped(sc, raw) \in Seq(FrameType) /\ Len(Popped(sc, raw)) = k /\ f \in FrameType
      BY <1>1, <1>3
    <2> HIDE DEF k, f, stack, r
    <2>2. /\ Append(Popped(sc, raw), f) \in Seq(FrameType)
          /\ Len(Append(Popped(sc, raw), f)) = k + 1
          /\ Append(Popped(sc, raw), f)[k + 1] = f
          /\ \A j \in 1..k : Append(Popped(sc, raw), f)[j] = Popped(sc, raw)[j]
      BY <2>a, AppendProperties
    <2> QED
      BY <2>1, <2>2, <1>1, Zenon
  <1>6. nodes'[k + 1] = e /\ \A j \in 1..k : nodes'[j] = nodes[j]
    <2>1. nodes' = Append(SubSeq(nodes, 1, k), e)
      BY <1>1, <1>5 DEF Pushes
    <2>a. SubSeq(nodes, 1, k) \in Seq(Nat \cup {Nil}) /\ Len(SubSeq(nodes, 1, k)) = k
      BY <1>1
    <2> HIDE DEF k
    <2>2. /\ Append(SubSeq(nodes, 1, k), e)[k + 1] = e
          /\ \A j \in 1..k : Append(SubSeq(nodes, 1, k), e)[j] = SubSeq(nodes, 1, k)[j]
      BY <2>a, AppendProperties
    <2> QED
      BY <2>1, <2>2, <1>1, Zenon
  <1> SUFFICES ASSUME NEW n \in Nat
               PROVE  LET h == Open(sc'.stack, n)
                      IN  /\ sc'.stack[h].children = ChildrenOf(SectionAt(n))'
                          /\ nodes'[h] # Nil => nodes'[h] = SectionAt(n)'
    BY DEF SectionsOpen
  <1> HIDE DEF k, f, r, stack
  <1>7. k \in Nat /\ k >= 1
    BY <1>1
  <1>8. text'[m].indent = r
    BY DEF r
  <1>9. CASE r < n
    <2>1. Open(stack, n) = k + 1
      <3>1. k + 1 \in 1..Len(stack) /\ stack[k + 1].indent < n
        BY <1>3, <1>5, <1>7, <1>9
      <3>2. \A j \in (k + 1 + 1)..Len(stack) : ~(stack[j].indent < n)
        BY <1>5, <1>7
      <3> HIDE DEF k
      <3>3. PICK h : h = k + 1
        OBVIOUS
      <3>4. Open(stack, n) = h
        BY <1>5, <3>1, <3>2, <3>3, OpenIs
      <3> QED
        BY <3>3, <3>4
    <2>2. SectionAt(n)' = m
      BY <1>8, <1>9, SectionMoves
    <2>3. ChildrenOf(SectionAt(n))' = c
      BY <2>2 DEF ChildrenOf
    <2> QED
      BY <2>1, <2>2, <2>3, <1>3, <1>5, <1>6 DEF stack
  <1>10. CASE ~(r < n)
    <2> DEFINE h == Open(sc.stack, n)
    <2>1. /\ h \in 1..Len(sc.stack)
          /\ h # 1 => sc.stack[h].indent < n
          /\ \A j \in (h + 1)..Len(sc.stack) : ~(sc.stack[j].indent < n)
      BY <1>2, OpenTop
    <2> HIDE DEF h
    <2>a. \A j \in 1..Len(sc.stack) : sc.stack[j].indent \in Int
      <3>1. \A j \in 1..Len(sc.stack) : sc.stack[j] \in FrameType
        BY <1>2
      <3> QED
        BY <3>1 DEF FrameType
    <2>2. h \in 1..k
      <3>1. SUFFICES ASSUME h > k PROVE FALSE
        BY <1>7, <2>1
      <3>2. h \in (k + 1)..Len(sc.stack) /\ h # 1
        BY <3>1, <1>7, <2>1
      <3> QED
        BY <3>2, <2>1, <2>a, <1>3, <1>4, <1>10
    <2>3. Open(stack, n) = h
      <3>1. h \in 1..Len(stack) /\ (h # 1 => stack[h].indent < n)
        BY <1>5, <1>7, <2>1, <2>2
      <3>2. ASSUME NEW j \in (h + 1)..Len(stack)
            PROVE  ~(stack[j].indent < n)
        <4>1. CASE j = k + 1
          BY <4>1, <1>3, <1>5, <1>10
        <4>2. CASE j # k + 1
          <5>1. j \in 1..k /\ j \in (h + 1)..Len(sc.stack)
            BY <4>2, <1>1, <1>5, <1>7, <2>2
          <5> QED
            BY <5>1, <1>5, <2>1
        <4> QED
          BY <4>1, <4>2
      <3> QED
        BY <1>5, <3>1, <3>2, OpenIs
    <2>4. SectionAt(n)' = SectionAt(n)
      BY <1>8, <1>10, SectionStays
    <2>5. ChildrenOf(SectionAt(n))' = ChildrenOf(SectionAt(n))
      BY <2>4, ChildrenOfStays
    <2>6. /\ sc.stack[h].children = ChildrenOf(SectionAt(n))
          /\ nodes[h] # Nil => nodes[h] = SectionAt(n)
      BY DEF SectionsOpen, h
    <2> QED
      BY <2>2, <2>3, <2>4, <2>5, <2>6, <1>5, <1>6 DEF stack
  <1> QED
    BY <1>9, <1>10

LEMMA NewDecided ==
    ASSUME IInv, ~done, SectionsOpen, OldLinesStay, OldNodesStay,
           NEW raw \in RawLines, NEW m \in Nat, m = LineNo,
           Commands' = Commands \cup {m}, text'[m] = raw,
           kinds'[m] = "unknown" <=> BoundDef(sc, raw) = NoDef,
           m \in DOMAIN cfg' =>
                /\ BoundDef(sc, raw) # NoDef /\ cfg'[m].def = BoundDef(sc, raw)
                /\ cfg'[m].parent = nodes[Open(sc.stack, raw.indent)]
    PROVE  Decided(m)'
  <1> DEFINE r == raw.indent
             k == Open(sc.stack, r)
             d == BoundDef(sc, raw)
  <1>1. r \in Nat
    BY RawTyped
  <1>2. Enclosing(m)' = SectionAt(r)
    BY <1>1, EnclosingOfNew
  <1>3. /\ sc.stack[k].children = ChildrenOf(SectionAt(r))
        /\ nodes[k] # Nil => nodes[k] = SectionAt(r)
    BY <1>1 DEF SectionsOpen
  <1>4. ChildrenOf(Enclosing(m))' = sc.stack[k].children
    <2> DEFINE p == SectionAt(r)
               f == Enclosing(m)'
    <2>1. p = f /\ (p = Root \/ p \in DOMAIN text)
      BY <1>1, <1>2, SectionIsLine
    <2>2. ChildrenOf(Enclosing(m))' =
            IF f = Root THEN Roots
            ELSE IF f \in DOMAIN cfg' THEN Children[cfg'[f].def] ELSE <<>>
      BY DEF ChildrenOf
    <2>3. sc.stack[k].children = ChildrenOf(p)
      BY <1>3
    <2> HIDE DEF p, f, k
    <2>4. (IF f = Root THEN Roots
           ELSE IF f \in DOMAIN cfg' THEN Children[cfg'[f].def] ELSE <<>>) = ChildrenOf(p)
      BY <2>1, ChildrenThere
    <2> QED
      BY <2>2, <2>3, <2>4
  <1>5. d = MatchChildOpener(sc.stack[k].children, raw.words)
    BY DEF BoundDef
  <1>6. m \in DOMAIN cfg' => cfg'[m].parent = SectionAt(r) /\ cfg'[m].def = d
    <2>1. m \in DOMAIN cfg' => nodes[k] # Nil
      BY ParentIsTop, ParseAssumption
    <2> QED
      BY <1>3, <2>1
  <1>7. MatchChildOpener(ChildrenOf(Enclosing(m)), text[m].words)' = d
    BY <1>4, <1>5
  <1> HIDE DEF d, k, r
  <1>8. Decided(m)' <=>
            LET b == MatchChildOpener(ChildrenOf(Enclosing(m)), text[m].words)'
            IN  /\ kinds'[m] = "unknown" <=> b = NoDef
                /\ m \in DOMAIN cfg' =>
                    cfg'[m].parent = Enclosing(m)' /\ cfg'[m].def = b
    BY DEF Decided
  <1> QED
    BY <1>2, <1>6, <1>7, <1>8 DEF d

-----------------------------------------------------------------------------
(* The lines.                                                              *)

\* A line that is no command, and the end of the text.
LEMMA QuietKeeps ==
    ASSUME DInv, IInv', ~done, OldLinesStay, OldNodesStay, Commands' = Commands,
           \/ done'
           \/ /\ sc'.stack = sc.stack
              /\ \A k \in DOMAIN nodes : nodes'[k] = nodes[k] \/ nodes'[k] = Nil
    PROVE  DInv'
  <1>1. IInv /\ SectionsOpen
    BY DEF DInv
  <1>2. ASSUME NEW i \in Commands' PROVE Decided(i)'
    <2>1. i \in Commands /\ Decided(i)
      BY <1>2 DEF DInv
    <2> QED
      BY <1>1, <2>1, OldDecided
  <1>3. ~done' => SectionsOpen'
    BY <1>1, StackKeeps
  <1> QED
    BY <1>2, <1>3 DEF DInv

LEMMA CommandKeeps ==
    ASSUME DInv, IInv', NEW raw \in RawLines, NEW kind \in {"unknown", "matched"},
           Read(raw, kind), OldNodesStay,
           NEW c \in Seq(Defs), NEW e \in Nat \cup {Nil}, Pushes(raw, c, e),
           e # Nil <=> LineNo \in DOMAIN cfg',
           e # Nil => e = LineNo /\ cfg'[e].def = BoundDef(sc, raw)
    PROVE  DInv'
  <1>1. IInv
    BY DEF DInv
  <1>2. /\ OldLinesStay /\ Commands' = Commands \cup {LineNo}
        /\ text'[LineNo] = raw /\ kinds'[LineNo] = kind
        /\ ~done /\ done' = FALSE
    <2>1. kind \in Kinds
      BY DEF Kinds
    <2> QED
      BY <1>1, <2>1, LineKept
  <1>3. LineNo \in Nat
    BY <1>2 DEF OldLinesStay
  <1>4. PICK m \in Nat : m = LineNo
    BY <1>3
  <1>5. SectionsOpen
    BY <1>2 DEF DInv
  <1>6. kinds'[m] = "unknown" <=> BoundDef(sc, raw) = NoDef
    <2>1. Kind(sc, raw) = kind
      BY DEF Read
    <2>2. kind = "unknown" => BoundDef(sc, raw) = NoDef
      BY <2>1 DEF Kind
    <2>3. kind = "matched" => BoundDef(sc, raw) # NoDef
      BY <2>1 DEF Kind
    <2> QED
      BY <1>2, <1>4, <2>2, <2>3
  <1>7. m \in DOMAIN cfg' =>
            /\ cfg'[m].def = BoundDef(sc, raw)
            /\ cfg'[m].parent = nodes[Open(sc.stack, raw.indent)]
    BY <1>4 DEF Pushes
  <1>8. m \in DOMAIN cfg' => BoundDef(sc, raw) # NoDef
    <2>1. SUFFICES ASSUME m \in DOMAIN cfg', kind = "unknown" PROVE FALSE
      BY <1>2, <1>4, <1>6
    <2>2. cfg'[m] \in Node
      BY <2>1 DEF IInv, TypeOK
    <2>3. BoundDef(sc, raw) \in Defs
      BY <1>7, <2>1, <2>2 DEF Node
    <2> QED
      BY <1>2, <1>4, <1>6, <2>1, <2>3, TemplateAssumption
  <1>9. Decided(m)'
    BY <1>1, <1>2, <1>4, <1>5, <1>6, <1>7, <1>8, NewDecided
  <1>10. ASSUME NEW i \in Commands PROVE Decided(i)'
    <2>1. Decided(i)
      BY DEF DInv
    <2> QED
      BY <1>1, <1>2, <2>1, OldDecided
  <1>11. ChildrenOf(m)' = c
    <2>1. m # Root
      BY <1>1, <1>4 DEF LineNo, Root, IInv, TypeOK
    <2>2. m \in DOMAIN cfg' => c = Children[cfg'[m].def]
      BY <1>4 DEF Pushes
    <2>3. m \notin DOMAIN cfg' => c = <<>>
      BY <1>4 DEF Pushes
    <2> QED
      BY <2>1, <2>2, <2>3 DEF ChildrenOf
  <1>12. SectionsOpen'
    BY <1>1, <1>2, <1>4, <1>5, <1>11, CommandSections
  <1> QED
    BY <1>2, <1>4, <1>9, <1>10, <1>12 DEF DInv

-----------------------------------------------------------------------------
(* The nodes of the lines already read.                                    *)

LEMMA SameTree == ASSUME cfg' = cfg PROVE OldNodesStay
  BY DEF OldNodesStay, ChildrenOf

LEMMA GrownTree ==
    ASSUME IInv, DOMAIN cfg' = DOMAIN cfg \cup {LineNo},
           \A n \in DOMAIN cfg : cfg'[n] = cfg[n]
    PROVE  OldNodesStay
  <1>1. LineNo \notin DOMAIN text
    BY DEF LineNo, IInv, TypeOK
  <1> QED
    BY <1>1 DEF OldNodesStay, ChildrenOf

LEMMA DroppedNode ==
    ASSUME NEW n \in DOMAIN cfg, Children[cfg[n].def] = <<>>, cfg' = RemoveNode(cfg, n)
    PROVE  OldNodesStay
  <1>1. /\ DOMAIN cfg' = DOMAIN cfg \ {n}
        /\ \A m \in DOMAIN cfg' : cfg'[m] = cfg[m]
    BY DEF RemoveNode
  <1> QED
    BY <1>1 DEF OldNodesStay, ChildrenOf

LEMMA SetBody ==
    ASSUME NEW n \in DOMAIN cfg, cfg[n] \in Node, NEW body,
           cfg' = [cfg EXCEPT ![n].body = body]
    PROVE  OldNodesStay
  <1>1. DOMAIN cfg' = DOMAIN cfg /\ \A m \in DOMAIN cfg : m # n => cfg'[m] = cfg[m]
    OBVIOUS
  <1>2. cfg'[n].def = cfg[n].def /\ cfg'[n].parent = cfg[n].parent
    <2>1. cfg'[n] = [cfg[n] EXCEPT !.body = body]
      OBVIOUS
    <2> QED
      BY <2>1 DEF Node
  <1>3. \A m \in DOMAIN cfg : cfg'[m].def = cfg[m].def /\ cfg'[m].parent = cfg[m].parent
    BY <1>1, <1>2
  <1> QED
    BY <1>1, <1>3 DEF OldNodesStay, ChildrenOf

\* Nothing is declared below a block.
LEMMA BlockIsBare ==
    ASSUME IInv, ~done, InBlock(sc), BlockKind[cfg[blk.node].def] = "delim"
    PROVE  Children[cfg[blk.node].def] = <<>>
  <1>1. cfg[blk.node].def \in Defs
    BY OpenNode DEF Node
  <1> QED
    BY <1>1, BlockAssumption

LEMMA QuietLines ==
    ASSUME DInv, IInv', NEW raw \in RawLines, BlankLine(raw) \/ BodyLine(raw)
    PROVE  DInv'
  <1>1. /\ IInv /\ cfg' = cfg /\ nodes' = nodes
        /\ Read(raw, "blank") \/ Read(raw, "body")
    BY DEF DInv, BlankLine, BodyLine
  <1>2. OldLinesStay /\ Commands' = Commands /\ ~done
    BY <1>1, LineKept DEF Kinds
  <1>3. sc' = sc
    BY <1>1, ScannedIs DEF Read
  <1> QED
    BY <1>1, <1>2, <1>3, SameTree, QuietKeeps

LEMMA BlockEndDecides ==
    ASSUME DInv, IInv', NEW raw \in RawLines, BlockEnd(raw)
    PROVE  DInv'
  <1> DEFINE n == blk.node
  <1>1. IInv /\ Read(raw, "end")
    BY DEF DInv, BlockEnd
  <1>2. OldLinesStay /\ Commands' = Commands /\ ~done
    BY <1>1, LineKept DEF Kinds
  <1>3. InBlock(sc) /\ sc'.stack = sc.stack
    <2>1. Kind(sc, raw) = "end" /\ sc' = Scanned(sc, raw)
      BY <1>1 DEF Read
    <2>2. sc' = AfterBlockEnd(sc)
      BY <2>1, ScannedIs
    <2> QED
      BY <2>1, <2>2, KindIs DEF AfterBlockEnd
  <1>4. n \in DOMAIN cfg /\ cfg[n] \in Node
    BY <1>1, <1>2, <1>3, OpenNode
  <1>5. \/ /\ BlockKind[cfg[n].def] = "delim" /\ cfg' = RemoveNode(cfg, n)
           /\ nodes' = [nodes EXCEPT ![Len(nodes)] = Nil]
        \/ cfg' = [cfg EXCEPT ![n].body = ClosedBody(raw)] /\ nodes' = nodes
    BY DEF BlockEnd, DropsBlock
  <1>6. OldNodesStay
    <2>1. BlockKind[cfg[n].def] = "delim" => Children[cfg[n].def] = <<>>
      BY <1>1, <1>2, <1>3, BlockIsBare
    <2> HIDE DEF n
    <2> QED
      BY <1>4, <1>5, <2>1, DroppedNode, SetBody
  <1>7. \A k \in DOMAIN nodes : nodes'[k] = nodes[k] \/ nodes'[k] = Nil
    BY <1>5
  <1> QED
    BY <1>2, <1>3, <1>6, <1>7, QuietKeeps

LEMMA EndOfTextDecides ==
    ASSUME DInv, IInv', EndOfText
    PROVE  DInv'
  <1> DEFINE n == blk.node
  <1>1. IInv /\ ~done /\ done' /\ text' = text /\ kinds' = kinds
    BY DEF DInv, EndOfText
  <1>2. OldLinesStay /\ Commands' = Commands
    <2>1. Commands' = Commands
      BY <1>1 DEF Commands
    <2>2. LineNo \in Nat /\ \A i \in DOMAIN text : i \in Nat /\ i < LineNo
      BY <1>1 DEF IInv, TypeOK, LineNo
    <2> QED
      BY <1>1, <2>1, <2>2 DEF OldLinesStay
  <1>3. \/ cfg' = cfg
        \/ /\ InBlock(sc) /\ BlockKind[cfg[n].def] = "delim" /\ cfg' = RemoveNode(cfg, n)
        \/ /\ InBlock(sc) /\ cfg' = [cfg EXCEPT ![n].body = Trimmed(blk.body)]
    BY DEF EndOfText
  <1>4. InBlock(sc) => n \in DOMAIN cfg /\ cfg[n] \in Node
    BY <1>1, OpenNode
  <1>5. OldNodesStay
    <2>1. InBlock(sc) /\ BlockKind[cfg[n].def] = "delim" => Children[cfg[n].def] = <<>>
      BY <1>1, BlockIsBare
    <2> HIDE DEF n
    <2> QED
      BY <1>3, <1>4, <2>1, SameTree, DroppedNode, SetBody
  <1> QED
    BY <1>1, <1>2, <1>5, QuietKeeps

LEMMA UnknownDecides ==
    ASSUME DInv, IInv', NEW raw \in RawLines, UnknownLine(raw)
    PROVE  DInv'
  <1>1. /\ IInv /\ Read(raw, "unknown") /\ cfg' = cfg
        /\ nodes' = Append(SubSeq(nodes, 1, Len(sc'.stack) - 1), Nil)
    BY DEF DInv, UnknownLine
  <1>2. sc'.stack = Append(Popped(sc, raw), Frame(raw.indent, <<>>))
    <2>1. sc' = AfterUnknown(sc, raw)
      BY <1>1, ScannedIs DEF Read
    <2> QED
      BY <1>1, <2>1 DEF AfterUnknown, IInv, TypeOK
  <1>3. DOMAIN cfg \subseteq Nat /\ LineNo \notin DOMAIN cfg
    BY <1>1 DEF IInv, TypeOK, LineNo
  <1>4. Pushes(raw, <<>>, Nil)
    BY <1>1, <1>2, <1>3 DEF Pushes
  <1>5. <<>> \in Seq(Defs) /\ Nil \in Nat \cup {Nil}
    OBVIOUS
  <1>6. OldNodesStay
    BY <1>1, SameTree
  <1> QED
    BY <1>1, <1>3, <1>4, <1>5, <1>6, CommandKeeps

\* A matched line whose node stays in the tree.
LEMMA NodeDecides ==
    ASSUME DInv, IInv', NEW raw \in RawLines, Read(raw, "matched"),
           NEW body \in Seq(Pieces) \cup {NoBlock},
           cfg' = AddNode(cfg, LineNo, NodeOf(raw, BoundDef(sc, raw), body)),
           Push(LineNo)
    PROVE  DInv'
  <1> DEFINE d == BoundDef(sc, raw)
  <1>1. IInv /\ LineNo \in Nat /\ ~done
    BY LineKept DEF DInv, OldLinesStay, Kinds
  <1>2. /\ DOMAIN cfg' = DOMAIN cfg \cup {LineNo} /\ cfg'[LineNo].def = d
        /\ Pushes(raw, Children[d], LineNo)
    BY <1>1, NodeAgrees
  <1>3. OldNodesStay
    BY <1>1, <1>2, GrownTree DEF Pushes
  <1>4. Children[d] \in Seq(Defs)
    <2>1. ~Blank(raw) /\ d # NoDef
      BY KindIs DEF Read
    <2> QED
      BY <1>1, <2>1, MatchedDef
  <1>5. LineNo \in Nat \cup {Nil} /\ LineNo # Nil /\ LineNo \in DOMAIN cfg'
    BY <1>1, <1>2, ParseAssumption
  <1> HIDE DEF d
  <1>6. PICK c \in Seq(Defs) : c = Children[d]
    BY <1>4
  <1>7. PICK e \in Nat \cup {Nil} : e = LineNo
    BY <1>5
  <1>8. Pushes(raw, c, e)
    BY <1>2, <1>6, <1>7
  <1>9. (e # Nil <=> LineNo \in DOMAIN cfg') /\ e = LineNo /\ cfg'[e].def = d
    BY <1>2, <1>5, <1>7
  <1> QED
    BY <1>3, <1>8, <1>9, CommandKeeps DEF d

LEMMA MatchedDecides ==
    ASSUME DInv, IInv', NEW raw \in RawLines, MatchedLine(raw)
    PROVE  DInv'
  <1>1. /\ Read(raw, "matched") /\ Push(LineNo)
        /\ cfg' = AddNode(cfg, LineNo, NodeOf(raw, BoundDef(sc, raw), NoBlock))
    BY DEF MatchedLine
  <1> QED
    BY <1>1, NodeDecides

\* A delimited block that is dropped leaves an entry below which nothing is
\* declared, like the block.
LEMMA OneLineDecides ==
    ASSUME DInv, IInv', NEW raw \in RawLines, OneLineBlock(raw)
    PROVE  DInv'
  <1> DEFINE d == BoundDef(sc, raw)
             rest == Rest(d, raw.words)
             term == Term(d, Kept(d, raw.words))
             body == <<[indent |-> 0, words |-> Before(rest, term)]>>
  <1>1. Read(raw, "matched") /\ ClosedAtOnce(d, raw.words) /\ IInv
    BY DEF OneLineBlock, DInv
  <1>2. \/ Push(Nil) /\ cfg' = cfg
        \/ cfg' = AddNode(cfg, LineNo, NodeOf(raw, d, body)) /\ Push(LineNo)
    BY DEF OneLineBlock
  <1>3. /\ sc' = AfterMatched(sc, raw, d) /\ ~done /\ ~Blank(raw) /\ d # NoDef
    BY <1>1, ScannedIs, KindIs DEF Read
  <1>4. /\ d \in Defs /\ raw.words \in Lines
        /\ d \in Openers => <<d, raw.words>> \in DOMAIN Prefix
    BY <1>1, <1>3, MatchedDef
  <1>5. CASE Push(Nil) /\ cfg' = cfg
    <2>1. Children[d] = <<>>
      BY <1>1, <1>4, BlockAssumption DEF ClosedAtOnce
    <2>2. DOMAIN cfg \subseteq Nat /\ LineNo \notin DOMAIN cfg
      BY <1>1 DEF IInv, TypeOK, LineNo
    <2>3. sc'.stack = Append(Popped(sc, raw), Frame(raw.indent, <<>>))
      BY <1>3, <2>1 DEF AfterMatched
    <2>4. nodes' = Append(SubSeq(nodes, 1, Len(sc'.stack) - 1), Nil)
      BY <1>5 DEF Push
    <2>5. Pushes(raw, <<>>, Nil)
      BY <1>5, <2>2, <2>3, <2>4 DEF Pushes
    <2>6. <<>> \in Seq(Defs) /\ Nil \in Nat \cup {Nil}
      OBVIOUS
    <2>7. OldNodesStay
      BY <1>5, SameTree
    <2> QED
      BY <1>1, <1>5, <2>2, <2>5, <2>6, <2>7, CommandKeeps
  <1>6. CASE cfg' = AddNode(cfg, LineNo, NodeOf(raw, d, body)) /\ Push(LineNo)
    <2>1. body \in Seq(Pieces)
      <3>1. rest \in Seq(Words) /\ Has(rest, term)
        BY <1>1, <1>4, RestIsText DEF ClosedAtOnce
      <3>2. Before(rest, term) \in Seq(Words)
        BY <3>1, BeforeIsText
      <3> HIDE DEF rest, term
      <3>3. [indent |-> 0, words |-> Before(rest, term)] \in Pieces
        BY <3>2 DEF Pieces
      <3> QED
        BY <3>3
    <2>2. PICK b \in Seq(Pieces) : b = body
      BY <2>1
    <2> HIDE DEF body
    <2>3. cfg' = AddNode(cfg, LineNo, NodeOf(raw, d, b))
      BY <1>6, <2>2
    <2>4. b \in Seq(Pieces) \cup {NoBlock}
      BY <2>2
    <2> QED
      BY <1>1, <1>6, <2>3, <2>4, NodeDecides
  <1> QED
    BY <1>2, <1>5, <1>6

-----------------------------------------------------------------------------
LEMMA InitDInv == Init => DInv
  <1> SUFFICES ASSUME Init PROVE DInv
    OBVIOUS
  <1>1. IInv
    BY InitIInv
  <1>2. /\ kinds = <<>> /\ nodes = <<Root>> /\ sc.stack = <<Frame(-1, Roots)>> /\ cfg = <<>>
    BY DEF Init, NewScanner
  <1>3. Commands = {}
    BY <1>2 DEF Commands
  <1>4. ASSUME NEW n \in Nat
        PROVE  LET k == Open(sc.stack, n)
               IN  /\ sc.stack[k].children = ChildrenOf(SectionAt(n))
                   /\ nodes[k] # Nil => nodes[k] = SectionAt(n)
    <2>1. SectionAt(n) = Root
      BY <1>3 DEF SectionAt, LastOf
    <2>2. ChildrenOf(SectionAt(n)) = Roots
      BY <2>1 DEF ChildrenOf
    <2>3. Open(sc.stack, n) = 1
      BY <1>2 DEF Open
    <2>4. sc.stack[1].children = Roots
      BY <1>2 DEF Frame
    <2> QED
      BY <1>2, <2>1, <2>2, <2>3, <2>4
  <1> QED
    BY <1>1, <1>3, <1>4 DEF DInv, SectionsOpen

LEMMA NextDInv == DInv /\ [Next]_vars => DInv'
  <1> SUFFICES ASSUME DInv, [Next]_vars PROVE DInv'
    OBVIOUS
  <1>1. IInv'
    BY NextIInv DEF DInv
  <1>2. ASSUME NEW raw \in RawLines, ParseLine(raw)
        PROVE  DInv'
    BY <1>1, <1>2, QuietLines, BlockEndDecides, UnknownDecides, MatchedDecides,
       OneLineDecides DEF ParseLine
  <1>3. CASE UNCHANGED vars
    <2>1. /\ text' = text /\ kinds' = kinds /\ sc' = sc /\ nodes' = nodes /\ cfg' = cfg
          /\ done' = done
      BY <1>3 DEF vars
    <2>2. Commands' = Commands
      BY <2>1 DEF Commands
    <2>3. ASSUME NEW i \in Commands PROVE Decided(i)'
      <3>1. Decided(i)' <=> Decided(i)
        BY <2>1, <2>2 DEF Decided, Enclosing, ChildrenOf, Root
      <3> QED
        BY <3>1 DEF DInv
    <2>4. ASSUME NEW n \in Nat
          PROVE  SectionAt(n)' = SectionAt(n)
      BY <2>1, <2>2 DEF SectionAt, LastOf
    <2>5. SectionsOpen => SectionsOpen'
      BY <2>1, <2>4 DEF SectionsOpen, ChildrenOf, Root
    <2> QED
      BY <1>1, <2>1, <2>2, <2>3, <2>5 DEF DInv
  <1> QED
    BY <1>1, <1>2, <1>3, EndOfTextDecides DEF Next

\* Where a line of the text belongs, and which definition it is bound to, is
\* decided by the indentation of the lines before it, for every schema and
\* every text: what the parser's stacks forget makes no difference.
THEOREM IndentationDecides == Spec => []IndentDecides
  <1>1. DInv => IndentDecides
    BY DEF DInv, IndentDecides, Decided
  <1> QED
    BY <1>1, InitDInv, NextDInv, PTL DEF Spec

-----------------------------------------------------------------------------
(* No line is lost.  The property speaks of the finished tree; while the   *)
(* text is read, the lines of an open block are in blk, which nothing but  *)
(* its node's number ties to the tree, so the invariant also says what is  *)
(* in an open block: every line since its opener.                          *)

\* A delimited body starts on the line that opens it.
Shift(d) == IF BlockKind[d] = "delim" THEN 1 ELSE 0

Opens(i, n) ==
    n \in Commands /\ n < i /\ \A j \in (n + 1)..(i - 1) : j \notin Commands

\* Line i is in its place in the body of a block that line n opened.
Holds(body, d, i, n) ==
    i - n + Shift(d) \in DOMAIN body /\ body[i - n + Shift(d)] = text[i]

InBody(i, n) == n \in DOMAIN cfg /\ Holds(cfg[n].body, cfg[n].def, i, n)

Accounted(i, n) ==
    \/ n \in errors
    \/ ~done /\ InBlock(sc) /\ n = blk.node
    \/ InBody(i, n)

BodyKnown(i) == \E n \in Commands : Opens(i, n) /\ Accounted(i, n)

OpenText ==
    /\ blk.node \in Commands
    /\ \A j \in (blk.node + 1)..Len(text) : kinds[j] = "body"
    /\ Len(blk.body) = Len(text) - blk.node + Shift(cfg[blk.node].def)
    /\ \A j \in (blk.node + 1)..Len(text) :
        blk.body[j - blk.node + Shift(cfg[blk.node].def)] = text[j]

LInv ==
    /\ IInv
    /\ \A i \in Commands : i \in DOMAIN cfg \cup errors \cup warnings
    /\ ~done /\ InBlock(sc) => OpenText
    /\ \A i \in DOMAIN text : kinds[i] = "body" => BodyKnown(i)

-----------------------------------------------------------------------------
\* What Shift may be.
LEMMA ShiftIs == ASSUME NEW d PROVE Shift(d) \in {0, 1}
  BY DEF Shift

\* A line has one opener.
LEMMA OneOpener ==
    ASSUME IInv, NEW i \in DOMAIN text, NEW n \in Commands, NEW m \in Commands,
           Opens(i, n), Opens(i, m)
    PROVE  n = m
  <1>1. n \in Nat /\ m \in Nat /\ i \in Nat
    BY CommandsAreLines DEF IInv, TypeOK
  <1>2. ~(n < m)
    <2>1. n < m => m \in (n + 1)..(i - 1)
      BY <1>1 DEF Opens
    <2> QED
      BY <2>1 DEF Opens
  <1>3. ~(m < n)
    <2>1. m < n => n \in (m + 1)..(i - 1)
      BY <1>1 DEF Opens
    <2> QED
      BY <2>1 DEF Opens
  <1> QED
    BY <1>1, <1>2, <1>3

\* OpenerOf finds the opener.
LEMMA OpenerIs ==
    ASSUME IInv, NEW i \in DOMAIN text, NEW n \in Commands, Opens(i, n)
    PROVE  OpenerOf(i) = n
  <1>1. \A m \in Commands : (m < i /\ \A j \in (m + 1)..(i - 1) : j \notin Commands) => m = n
    BY OneOpener DEF Opens
  <1>2. n < i /\ \A j \in (n + 1)..(i - 1) : j \notin Commands
    BY DEF Opens
  <1> QED
    BY <1>1, <1>2 DEF OpenerOf

\* The opener of an old line stays its opener.
LEMMA OpenerStays ==
    ASSUME IInv, OldLinesStay, NEW i \in DOMAIN text, NEW n \in Commands, Opens(i, n)
    PROVE  n \in Commands' /\ Opens(i, n)'
  <1>1. /\ i \in Nat /\ i < LineNo /\ LineNo \in Nat /\ n \in Nat
        /\ Commands' = Commands \/ Commands' = Commands \cup {LineNo}
    BY CommandsAreLines DEF OldLinesStay
  <1>2. n \in Commands'
    BY <1>1
  <1>3. ASSUME NEW j \in (n + 1)..(i - 1) PROVE j \notin Commands'
    <2>1. j \notin Commands
      BY DEF Opens
    <2>2. j # LineNo
      BY <1>1
    <2> QED
      BY <1>1, <2>1, <2>2
  <1> QED
    BY <1>2, <1>3 DEF Opens

\* A line that lies in an open block.
LEMMA InOpenText ==
    ASSUME IInv, ~done, InBlock(sc), OpenText, NEW i \in DOMAIN text,
           NEW n \in Commands, Opens(i, n), n = blk.node
    PROVE  Holds(blk.body, cfg[n].def, i, n)
  <1> DEFINE s == Shift(cfg[n].def)
             L == Len(text)
  <1>1. L \in Nat /\ DOMAIN text = 1..L /\ i \in 1..L /\ n \in 1..L /\ n < i
    BY CommandsAreLines DEF IInv, TypeOK, Opens
  <1>2. s \in {0, 1}
    BY ShiftIs
  <1>3. blk.body \in Seq(Pieces)
    BY OpenNode
  <1>4. Len(blk.body) = L - n + s /\ \A j \in (n + 1)..L : blk.body[j - n + s] = text[j]
    BY DEF OpenText
  <1> HIDE DEF s, L
  <1>5. i \in (n + 1)..L /\ i - n + s \in 1..(L - n + s)
    BY <1>1, <1>2
  <1>6. DOMAIN blk.body = 1..(L - n + s)
    BY <1>3, <1>4
  <1>7. blk.body[i - n + s] = text[i]
    BY <1>4, <1>5
  <1> QED
    BY <1>5, <1>6, <1>7 DEF Holds, s

\* What a line leaves to show.
LEMMA LineAdds ==
    ASSUME LInv, IInv', NEW raw \in RawLines, NEW kind \in Kinds, Read(raw, kind),
           NEW m \in Nat, m = LineNo,
           \A i \in DOMAIN text, n \in Commands :
               Opens(i, n) /\ Accounted(i, n) => Accounted(i, n)',
           \A i \in Commands' : i \in (DOMAIN cfg \cup errors \cup warnings)',
           InBlock(sc)' => OpenText',
           kind = "body" => BodyKnown(m)'
    PROVE  LInv'
  <1>1. IInv
    BY DEF LInv
  <1>2. OldLinesStay /\ kinds'[LineNo] = kind
    BY <1>1, LineKept
  <1>3. DOMAIN text' = DOMAIN text \cup {LineNo}
    BY <1>1, LineRead DEF Kinds
  <1>4. ASSUME NEW i \in DOMAIN text, kinds'[i] = "body" PROVE BodyKnown(i)'
    <2>1. kinds[i] = "body"
      BY <1>2, <1>4 DEF OldLinesStay
    <2>2. PICK n \in Commands : Opens(i, n) /\ Accounted(i, n)
      BY <2>1 DEF LInv, BodyKnown
    <2>3. n \in Commands' /\ Opens(i, n)'
      BY <1>1, <1>2, <2>2, OpenerStays
    <2>4. Accounted(i, n)'
      BY <2>2
    <2> QED
      BY <2>3, <2>4 DEF BodyKnown
  <1>5. ASSUME NEW i \in DOMAIN text', kinds'[i] = "body" PROVE BodyKnown(i)'
    <2>1. CASE i \in DOMAIN text
      BY <1>4, <1>5, <2>1
    <2>2. CASE i = m
      <3>1. kind = "body"
        BY <1>2, <1>5, <2>2
      <3> QED
        BY <3>1, <2>2
    <2> QED
      BY <1>3, <2>1, <2>2
  <1> QED
    BY <1>5 DEF LInv

\* The lines of bodies that have an end stay where they are.
LEMMA BodiesStay ==
    ASSUME IInv, OldLinesStay, errors \subseteq errors',
           \A n \in DOMAIN cfg : n \in DOMAIN cfg' /\ cfg'[n] = cfg[n],
           InBlock(sc) => ~done' /\ InBlock(sc)' /\ blk'.node = blk.node,
           NEW i \in DOMAIN text, NEW n \in Commands, Accounted(i, n)
    PROVE  Accounted(i, n)'
  <1>1. text'[i] = text[i]
    BY DEF OldLinesStay
  <1>2. InBody(i, n) => InBody(i, n)'
    BY <1>1 DEF InBody, Holds
  <1> QED
    BY <1>2 DEF Accounted

\* A blank line is nothing to lose.
LEMMA BlankLost ==
    ASSUME LInv, IInv', NEW raw \in RawLines, BlankLine(raw)
    PROVE  LInv'
  <1>1. /\ IInv /\ Read(raw, "blank") /\ UNCHANGED <<nodes, cfg, blk, errors, warnings>>
    BY DEF LInv, BlankLine
  <1>2. OldLinesStay /\ Commands' = Commands /\ ~done /\ ~done'
    BY <1>1, LineKept DEF Kinds
  <1>3. sc' = sc /\ ~InBlock(sc)
    <2>1. Kind(sc, raw) = "blank" /\ sc' = Scanned(sc, raw)
      BY <1>1 DEF Read
    <2> QED
      BY <2>1, ScannedIs DEF Kind
  <1>4. ~InBlock(sc)'
    BY <1>3 DEF InBlock
  <1>5. \A i \in Commands' : i \in (DOMAIN cfg \cup errors \cup warnings)'
    BY <1>1, <1>2 DEF LInv
  <1>6. \A i \in DOMAIN text, n \in Commands :
            Opens(i, n) /\ Accounted(i, n) => Accounted(i, n)'
    BY <1>1, <1>2, <1>3, BodiesStay
  <1>7. LineNo \in Nat /\ "blank" \in Kinds
    BY <1>2 DEF OldLinesStay, Kinds
  <1> QED
    BY <1>1, <1>4, <1>5, <1>6, <1>7, LineAdds

\* A diagnostic names an unknown line.
LEMMA UnknownLost ==
    ASSUME LInv, IInv', NEW raw \in RawLines, UnknownLine(raw)
    PROVE  LInv'
  <1>1. /\ IInv /\ Read(raw, "unknown") /\ UNCHANGED <<cfg, blk, warnings>>
        /\ errors' = errors \cup {LineNo}
    BY DEF LInv, UnknownLine
  <1>2. OldLinesStay /\ Commands' = Commands \cup {LineNo} /\ ~done /\ ~done'
    BY <1>1, LineKept DEF Kinds
  <1>3. sc' = AfterUnknown(sc, raw) /\ ~InBlock(sc)
    <2>1. Kind(sc, raw) = "unknown" /\ sc' = Scanned(sc, raw)
      BY <1>1 DEF Read
    <2> QED
      BY <2>1, ScannedIs, KindIs
  <1>4. ~InBlock(sc)'
    BY <1>3 DEF InBlock, AfterUnknown
  <1>5. \A i \in Commands' : i \in (DOMAIN cfg \cup errors \cup warnings)'
    BY <1>1, <1>2 DEF LInv
  <1>6. \A i \in DOMAIN text, n \in Commands :
            Opens(i, n) /\ Accounted(i, n) => Accounted(i, n)'
    BY <1>1, <1>2, <1>3, BodiesStay
  <1>7. LineNo \in Nat /\ "unknown" \in Kinds
    BY <1>2 DEF OldLinesStay, Kinds
  <1> QED
    BY <1>1, <1>4, <1>5, <1>6, <1>7, LineAdds

\* A command gets a node, which starts its body if it leaves a block open.
LEMMA MatchedLost ==
    ASSUME LInv, IInv', NEW raw \in RawLines, MatchedLine(raw)
    PROVE  LInv'
  <1> DEFINE d == BoundDef(sc, raw)
             first == <<[indent |-> 0, words |-> Rest(d, raw.words)]>>
             L == Len(text)
  <1>1. /\ IInv /\ Read(raw, "matched") /\ UNCHANGED <<errors, warnings>>
        /\ cfg' = AddNode(cfg, LineNo, NodeOf(raw, d, NoBlock))
        /\ blk' = CASE BlockKind[d] = "none" -> NoBlock
                    [] BlockKind[d] = "until" -> [node |-> LineNo, body |-> <<>>]
                    [] BlockKind[d] = "delim" -> [node |-> LineNo, body |-> first]
    BY DEF LInv, MatchedLine
  <1>2. /\ OldLinesStay /\ Commands' = Commands \cup {LineNo} /\ ~done /\ ~done'
        /\ kinds'[LineNo] = "matched"
    BY <1>1, LineKept DEF Kinds
  <1>3. ~InBlock(sc)
    <2>1. Kind(sc, raw) = "matched"
      BY <1>1 DEF Read
    <2> QED
      BY <2>1, KindIs
  <1>4. /\ DOMAIN cfg' = DOMAIN cfg \cup {LineNo} /\ cfg'[LineNo].def = d
        /\ \A n \in DOMAIN cfg : n # LineNo => cfg'[n] = cfg[n]
    BY <1>1 DEF AddNode, NodeOf
  <1>5. LineNo \in Nat /\ LineNo = L + 1 /\ L \in Nat /\ Len(text') = L + 1
    <2>1. Len(text') = LineNo /\ LineNo \in Nat
      BY <1>1, LineRead
    <2>2. L \in Nat
      BY <1>1 DEF IInv, TypeOK
    <2> QED
      BY <2>1, <2>2 DEF LineNo
  <1>6. LineNo \notin DOMAIN cfg
    BY <1>1, <1>5 DEF IInv, TypeOK, LineNo
  <1>7. InBlock(sc)' => OpenText'
    <2>1. SUFFICES ASSUME InBlock(sc)' PROVE OpenText'
      OBVIOUS
    <2>2. blk' # NoBlock
      BY <1>2, <2>1 DEF IInv, OpenBlockIsTop
    <2>3. d \in Defs
      <3>1. cfg'[LineNo] \in Node
        BY <1>4 DEF IInv, TypeOK
      <3> QED
        BY <3>1, <1>4 DEF Node
    <2>4. BlockKind[d] \in {"none", "until", "delim"}
      BY <2>3, ScanAssumption
    <2>5. blk'.node = LineNo /\ Len(blk'.body) = Shift(d)
      BY <1>1, <2>2, <2>4 DEF Shift
    <2>6. blk'.node = L + 1 /\ cfg'[blk'.node].def = d
      BY <1>4, <1>5, <2>5
    <2>7. blk'.node \in Commands'
      BY <1>2, <2>5
    <2>8. (blk'.node + 1)..Len(text') = {}
      BY <1>5, <2>6
    <2>9. Shift(d) = Len(text') - blk'.node + Shift(d)
      BY <1>5, <2>6, ShiftIs
    <2> QED
      BY <2>5, <2>6, <2>7, <2>8, <2>9 DEF OpenText
  <1>8. \A i \in Commands' : i \in (DOMAIN cfg \cup errors \cup warnings)'
    BY <1>1, <1>2, <1>4 DEF LInv
  <1>9. \A i \in DOMAIN text, n \in Commands :
            Opens(i, n) /\ Accounted(i, n) => Accounted(i, n)'
    <2>1. \A n \in DOMAIN cfg : n \in DOMAIN cfg' /\ cfg'[n] = cfg[n]
      BY <1>4, <1>6
    <2> QED
      BY <1>1, <1>2, <1>3, <2>1, BodiesStay
  <1>10. "matched" \in Kinds
    BY DEF Kinds
  <1> QED
    BY <1>1, <1>5, <1>7, <1>8, <1>9, <1>10, LineAdds

\* A block of one line has no body lines; it is dropped with a Warning or kept.
LEMMA OneLineLost ==
    ASSUME LInv, IInv', NEW raw \in RawLines, OneLineBlock(raw)
    PROVE  LInv'
  <1> DEFINE d == BoundDef(sc, raw)
             rest == Rest(d, raw.words)
             term == Term(d, Kept(d, raw.words))
             body == <<[indent |-> 0, words |-> Before(rest, term)]>>
  <1>1. /\ IInv /\ Read(raw, "matched") /\ blk' = blk /\ ClosedAtOnce(d, raw.words)
        /\ errors \subseteq errors'
        /\ \/ warnings' = warnings \cup {LineNo} /\ cfg' = cfg
           \/ cfg' = AddNode(cfg, LineNo, NodeOf(raw, d, body)) /\ warnings' = warnings
    BY DEF LInv, OneLineBlock
  <1> HIDE DEF d, body
  <1>2. /\ OldLinesStay /\ Commands' = Commands \cup {LineNo} /\ ~done /\ ~done'
        /\ LineNo \in Nat
    BY <1>1, LineKept DEF Kinds, OldLinesStay
  <1>3. ~InBlock(sc) /\ sc' = AfterMatched(sc, raw, d)
    <2>1. Kind(sc, raw) = "matched" /\ sc' = Scanned(sc, raw)
      BY <1>1 DEF Read
    <2> QED
      BY <2>1, KindIs, ScannedIs DEF d
  <1>4. ~InBlock(sc)'
    BY <1>1, <1>3 DEF InBlock, AfterMatched
  <1>5. /\ DOMAIN cfg \subseteq DOMAIN cfg'
        /\ LineNo \in DOMAIN cfg' \cup warnings' /\ warnings \subseteq warnings'
        /\ \A n \in DOMAIN cfg : n # LineNo => cfg'[n] = cfg[n]
    BY <1>1 DEF AddNode
  <1>6. LineNo \notin DOMAIN cfg
    BY <1>1, <1>2 DEF IInv, TypeOK, LineNo
  <1>7. \A i \in Commands' : i \in (DOMAIN cfg \cup errors \cup warnings)'
    BY <1>1, <1>2, <1>5 DEF LInv
  <1>8. \A i \in DOMAIN text, n \in Commands :
            Opens(i, n) /\ Accounted(i, n) => Accounted(i, n)'
    <2>1. \A n \in DOMAIN cfg : n \in DOMAIN cfg' /\ cfg'[n] = cfg[n]
      BY <1>5, <1>6
    <2> QED
      BY <1>1, <1>2, <1>3, <2>1, BodiesStay
  <1>9. "matched" \in Kinds
    BY DEF Kinds
  <1> QED
    BY <1>1, <1>2, <1>4, <1>7, <1>8, <1>9, LineAdds

\* What is known of an open block.
LEMMA OpenIsText ==
    ASSUME LInv, ~done, InBlock(sc)
    PROVE  LET n == blk.node
               s == Shift(cfg[n].def)
           IN  /\ Len(text) \in Nat /\ DOMAIN text = 1..Len(text)
               /\ n \in 1..Len(text) /\ n \in Commands /\ n \in DOMAIN cfg
               /\ cfg[n] \in Node
               /\ s \in {0, 1} /\ (s = 1 <=> sc.delim)
               /\ blk \in [node : Nat, body : Seq(Pieces)]
               /\ blk.body \in Seq(Pieces) /\ Len(blk.body) = Len(text) - n + s
               /\ \A j \in (n + 1)..Len(text) :
                    blk.body[j - n + s] = text[j] /\ j \notin Commands
  <1>1. IInv /\ OpenText
    BY DEF LInv
  <1>2. /\ blk.node \in Commands
        /\ Len(blk.body) = Len(text) - blk.node + Shift(cfg[blk.node].def)
        /\ \A j \in (blk.node + 1)..Len(text) :
            /\ kinds[j] = "body"
            /\ blk.body[j - blk.node + Shift(cfg[blk.node].def)] = text[j]
    BY <1>1 DEF OpenText
  <1>3. /\ Len(text) \in Nat /\ DOMAIN text = 1..Len(text) /\ blk.node \in DOMAIN text
    BY <1>1, <1>2, CommandsAreLines DEF IInv, TypeOK
  <1>4. /\ blk \in [node : Nat, body : Seq(Pieces)] /\ blk.node \in DOMAIN cfg
        /\ cfg[blk.node] \in Node
        /\ sc.delim <=> BlockKind[cfg[blk.node].def] = "delim"
    BY <1>1, OpenNode
  <1>5. Shift(cfg[blk.node].def) \in {0, 1} /\ (Shift(cfg[blk.node].def) = 1 <=> sc.delim)
    BY <1>4 DEF Shift
  <1>6. \A j \in (blk.node + 1)..Len(text) : j \notin Commands
    BY <1>2 DEF Commands
  <1> QED
    BY <1>2, <1>3, <1>4, <1>5, <1>6

\* Another line of the open block.
LEMMA BodyLost ==
    ASSUME LInv, IInv', NEW raw \in RawLines, BodyLine(raw)
    PROVE  LInv'
  <1>1. /\ IInv /\ Read(raw, "body") /\ UNCHANGED <<nodes, cfg, errors, warnings>>
        /\ blk' = [blk EXCEPT !.body = Append(blk.body, raw)]
    BY DEF LInv, BodyLine, Captured
  <1>2. /\ OldLinesStay /\ Commands' = Commands /\ ~done /\ ~done'
        /\ text'[LineNo] = raw /\ kinds'[LineNo] = "body"
        /\ \A i \in DOMAIN text : text'[i] = text[i] /\ kinds'[i] = kinds[i]
    BY <1>1, LineKept DEF Kinds, OldLinesStay
  <1>3. sc' = sc /\ InBlock(sc) /\ InBlock(sc)'
    <2>1. Kind(sc, raw) = "body" /\ sc' = Scanned(sc, raw)
      BY <1>1 DEF Read
    <2>2. sc' = sc /\ InBlock(sc)
      BY <2>1, ScannedIs, KindIs
    <2> QED
      BY <2>2 DEF InBlock
  <1> DEFINE n == blk.node
             s == Shift(cfg[n].def)
             L == Len(text)
             b == blk.body
  <1>4. /\ L \in Nat /\ DOMAIN text = 1..L /\ n \in 1..L /\ n \in Commands
        /\ n \in DOMAIN cfg /\ s \in {0, 1}
        /\ blk \in [node : Nat, body : Seq(Pieces)]
        /\ b \in Seq(Pieces) /\ Len(b) = L - n + s
        /\ \A j \in (n + 1)..L : b[j - n + s] = text[j] /\ j \notin Commands
    BY <1>2, <1>3, OpenIsText
  <1>k. \A j \in (n + 1)..L : kinds[j] = "body"
    BY <1>2, <1>3 DEF LInv, OpenText
  <1>5. LineNo = L + 1 /\ Len(text') = L + 1
    BY <1>1, <1>4, LineRead DEF LineNo, Kinds
  <1>6. blk'.node = n /\ blk'.body = Append(b, raw) /\ Shift(cfg'[n].def) = s
    BY <1>1, <1>4
  <1> HIDE DEF n, s, L, b
  <1>n. /\ L \in Nat /\ n \in 1..L /\ s \in {0, 1}
        /\ L - n + s \in Nat /\ L + 1 - n + s = L - n + s + 1
    <2>1. L \in Nat /\ n \in 1..L /\ s \in {0, 1}
      BY <1>4
    <2> QED
      BY <2>1
  <1>7. /\ Len(Append(b, raw)) = L + 1 - n + s
        /\ \A j \in 1..(L - n + s) : Append(b, raw)[j] = b[j]
        /\ Append(b, raw)[L - n + s + 1] = raw
    <2>1. b \in Seq(Pieces) /\ Len(b) = L - n + s /\ raw \in Pieces
      BY <1>4, RawTyped
    <2>2. /\ Len(Append(b, raw)) = Len(b) + 1
          /\ \A j \in 1..Len(b) : Append(b, raw)[j] = b[j]
          /\ Append(b, raw)[Len(b) + 1] = raw
      BY <2>1, AppendProperties
    <2> QED
      BY <1>n, <2>1, <2>2
  <1>8. \A j \in (n + 1)..(L + 1) : kinds'[j] = "body" /\ Append(b, raw)[j - n + s] = text'[j]
    <2>1. SUFFICES ASSUME NEW j \in (n + 1)..(L + 1)
                   PROVE  kinds'[j] = "body" /\ Append(b, raw)[j - n + s] = text'[j]
      OBVIOUS
    <2>2. CASE j = L + 1
      <3>1. j - n + s = L - n + s + 1
        BY <1>4, <2>2
      <3> QED
        BY <1>2, <1>5, <1>7, <2>2, <3>1
    <2>3. CASE j # L + 1
      <3>1. j \in (n + 1)..L /\ j \in 1..L /\ j - n + s \in 1..(L - n + s)
        BY <1>n, <2>3
      <3>2. text'[j] = text[j] /\ kinds'[j] = kinds[j]
        BY <1>2, <1>4, <3>1
      <3> QED
        BY <1>4, <1>7, <1>k, <3>1, <3>2
    <2> QED
      BY <2>2, <2>3
  <1>9. OpenText'
    <2>1. /\ blk'.node \in Commands'
          /\ \A j \in (blk'.node + 1)..Len(text') : kinds'[j] = "body"
      BY <1>2, <1>4, <1>5, <1>6, <1>8
    <2>2. Len(blk'.body) = Len(text') - blk'.node + Shift(cfg'[blk'.node].def)
      <3>1. Len(text') = L + 1
        BY <1>5
      <3>2. blk'.node = n /\ Shift(cfg'[blk'.node].def) = s
        BY <1>6
      <3>3. Len(blk'.body) = L + 1 - n + s
        BY <1>6, <1>7
      <3>4. (L + 1) - n + s = L + 1 - n + s
        BY <1>n
      <3> QED
        BY <3>1, <3>2, <3>3, <3>4, Zenon
    <2>3. \A j \in (blk'.node + 1)..Len(text') :
            blk'.body[j - blk'.node + Shift(cfg'[blk'.node].def)] = text'[j]
      BY <1>5, <1>6, <1>8
    <2> QED
      BY <2>1, <2>2, <2>3 DEF OpenText
  <1>10. PICK m \in Nat : m = LineNo
    BY <1>4, <1>5
  <1>11. BodyKnown(m)'
    <2>1. n \in Commands' /\ n < m /\ \A j \in (n + 1)..(m - 1) : j \notin Commands'
      BY <1>2, <1>4, <1>5, <1>10
    <2>2. Opens(m, n)'
      BY <2>1, <1>6 DEF Opens, n
    <2>3. Accounted(m, n)'
      BY <1>2, <1>3, <1>6 DEF Accounted, n
    <2> QED
      BY <2>1, <2>2, <2>3, <1>6 DEF BodyKnown, n
  <1>12. \A i \in Commands' : i \in (DOMAIN cfg \cup errors \cup warnings)'
    BY <1>1, <1>2 DEF LInv
  <1>13. \A i \in DOMAIN text, k \in Commands :
            Opens(i, k) /\ Accounted(i, k) => Accounted(i, k)'
    BY <1>1, <1>2, <1>3, <1>6, BodiesStay DEF n
  <1>14. "body" \in Kinds
    BY DEF Kinds
  <1> QED
    BY <1>1, <1>9, <1>10, <1>11, <1>12, <1>13, <1>14, LineAdds

\* The end of a block moves its lines to the tree.  A delimited block with an
\* end below its opener has at least two pieces and is not dropped.
LEMMA BlockEndLost ==
    ASSUME LInv, IInv', NEW raw \in RawLines, BlockEnd(raw)
    PROVE  LInv'
  <1> DEFINE n == blk.node
             s == Shift(cfg[n].def)
             L == Len(text)
             b == blk.body
             body == ClosedBody(raw)
  <1>1. /\ IInv /\ Read(raw, "end") /\ blk' = NoBlock
        /\ errors \subseteq errors' /\ warnings \subseteq warnings'
        /\ cfg' = IF DropsBlock(cfg[n].def, body) THEN RemoveNode(cfg, n)
                  ELSE [cfg EXCEPT ![n].body = body]
    BY DEF LInv, BlockEnd
  <1>2. /\ OldLinesStay /\ Commands' = Commands /\ ~done /\ ~done'
        /\ LineNo \in Nat
    BY <1>1, LineKept DEF Kinds, OldLinesStay
  <1>3. InBlock(sc) /\ ~InBlock(sc)'
    <2>1. Kind(sc, raw) = "end" /\ sc' = Scanned(sc, raw)
      BY <1>1 DEF Read
    <2>2. InBlock(sc)
      BY <2>1, KindIs
    <2> QED
      BY <1>1, <1>2, <2>2 DEF IInv, OpenBlockIsTop
  <1>4. /\ L \in Nat /\ DOMAIN text = 1..L /\ n \in 1..L /\ n \in Commands
        /\ n \in DOMAIN cfg /\ s \in {0, 1} /\ (s = 1 <=> sc.delim) /\ cfg[n] \in Node
        /\ b \in Seq(Pieces) /\ Len(b) = L - n + s
    BY <1>2, <1>3, OpenIsText
  <1>5. body = IF s = 1 THEN Append(b, LastPiece(raw)) ELSE b
    BY <1>4 DEF ClosedBody
  <1>d. s = 1 <=> BlockKind[cfg[n].def] = "delim"
    BY DEF Shift
  <1> HIDE DEF n, s, L, b, body
  <1>6. \A j \in DOMAIN b : j \in DOMAIN body /\ body[j] = b[j]
    BY <1>4, <1>5
  <1>7. ~DropsBlock(cfg[n].def, body)
    <2>1. SUFFICES ASSUME s = 1 PROVE ~EmptyDelimBody(body)
      BY <1>d DEF DropsBlock
    <2>2. Len(body) = L - n + 2 /\ L - n + 2 > 1
      BY <1>4, <1>5, <2>1
    <2> QED
      BY <2>2 DEF EmptyDelimBody
  <1>8. /\ DOMAIN cfg' = DOMAIN cfg
        /\ \A k \in DOMAIN cfg : k # n => cfg'[k] = cfg[k]
        /\ cfg'[n].body = body /\ cfg'[n].def = cfg[n].def
    <2>1. cfg' = [cfg EXCEPT ![n].body = body]
      BY <1>1, <1>7 DEF n, body
    <2>2. cfg'[n] = [cfg[n] EXCEPT !.body = body]
      BY <2>1, <1>4
    <2> QED
      BY <2>1, <2>2, <1>4 DEF Node
  <1>9. ASSUME NEW i \in DOMAIN text, NEW k \in Commands, Opens(i, k), Accounted(i, k)
        PROVE  Accounted(i, k)'
    <2>1. text'[i] = text[i]
      BY <1>2 DEF OldLinesStay
    <2>2. CASE k \in errors
      BY <1>1, <2>2 DEF Accounted
    <2>3. CASE k = n
      <3>1. Holds(b, cfg[k].def, i, k)
        BY <1>1, <1>2, <1>3, <1>9, <2>3, InOpenText DEF LInv, n, b
      <3>2. InBody(i, k)'
        BY <3>1, <1>4, <1>6, <1>8, <2>1, <2>3 DEF Holds, InBody
      <3> QED
        BY <3>2 DEF Accounted
    <2>4. CASE k # n /\ k \notin errors
      <3>1. InBody(i, k)
        BY <1>9, <2>4 DEF Accounted, n
      <3>2. InBody(i, k)'
        BY <3>1, <1>8, <2>1, <2>4 DEF Holds, InBody
      <3> QED
        BY <3>2 DEF Accounted
    <2> QED
      BY <2>2, <2>3, <2>4
  <1>10. \A i \in Commands' : i \in (DOMAIN cfg \cup errors \cup warnings)'
    BY <1>1, <1>2, <1>8 DEF LInv
  <1>11. "end" \in Kinds
    BY DEF Kinds
  <1> QED
    BY <1>1, <1>2, <1>3, <1>9, <1>10, <1>11, LineAdds

\* A block without an end is an Error, whatever becomes of its node.
LEMMA EndOfTextLost ==
    ASSUME LInv, IInv', EndOfText
    PROVE  LInv'
  <1> DEFINE n == blk.node
  <1>1. /\ IInv /\ ~done /\ done' /\ text' = text /\ kinds' = kinds /\ warnings' = warnings
        /\ errors \subseteq errors'
        /\ \/ cfg' = cfg /\ ~InBlock(sc)
           \/ /\ n \in errors'
              /\ \/ cfg' = RemoveNode(cfg, n)
                 \/ cfg' = [cfg EXCEPT ![n].body = Trimmed(blk.body)]
    BY DEF LInv, EndOfText
  <1> HIDE DEF n
  <1>2. Commands' = Commands
    BY <1>1 DEF Commands
  <1>3. \A k \in DOMAIN cfg : k \notin errors' => k \in DOMAIN cfg' /\ cfg'[k] = cfg[k]
    BY <1>1 DEF RemoveNode
  <1>4. \A i \in Commands' : i \in (DOMAIN cfg \cup errors \cup warnings)'
    BY <1>1, <1>2, <1>3 DEF LInv
  <1>5. ASSUME NEW i \in DOMAIN text, NEW k \in Commands, Accounted(i, k)
        PROVE  Accounted(i, k)'
    <2>1. k \in errors' \/ InBody(i, k)
      BY <1>1, <1>5 DEF Accounted, n
    <2>2. k \notin errors' => InBody(i, k)'
      BY <1>1, <1>3, <2>1 DEF InBody, Holds
    <2> QED
      BY <2>2 DEF Accounted
  <1>6. ASSUME NEW i \in DOMAIN text, kinds[i] = "body" PROVE BodyKnown(i)'
    <2>1. PICK k \in Commands : Opens(i, k) /\ Accounted(i, k)
      BY <1>6 DEF LInv, BodyKnown
    <2>2. Opens(i, k)'
      BY <1>2, <2>1 DEF Opens
    <2>3. Accounted(i, k)'
      BY <1>5, <2>1
    <2> QED
      BY <1>2, <2>2, <2>3 DEF BodyKnown
  <1> QED
    BY <1>1, <1>4, <1>6 DEF LInv

\* At first there are no lines.
LEMMA InitLInv == Init => LInv
  <1> SUFFICES ASSUME Init PROVE LInv
    OBVIOUS
  <1>1. text = <<>> /\ kinds = <<>> /\ sc.term = NoTerm
    BY DEF Init, NewScanner
  <1>2. Commands = {} /\ ~InBlock(sc) /\ DOMAIN text = {}
    BY <1>1 DEF Commands, InBlock
  <1> QED
    BY <1>2, InitIInv DEF LInv

\* Every line keeps what is known.
LEMMA NextLInv == LInv /\ [Next]_vars => LInv'
  <1> SUFFICES ASSUME LInv, [Next]_vars PROVE LInv'
    OBVIOUS
  <1>1. IInv'
    BY NextIInv DEF LInv
  <1>2. ASSUME NEW raw \in RawLines, ParseLine(raw)
        PROVE  LInv'
    BY <1>1, <1>2, BlankLost, BodyLost, BlockEndLost, UnknownLost, MatchedLost, OneLineLost
       DEF ParseLine
  <1>3. CASE UNCHANGED vars
    <2>1. /\ text' = text /\ kinds' = kinds /\ sc' = sc /\ nodes' = nodes /\ cfg' = cfg
          /\ blk' = blk /\ errors' = errors /\ warnings' = warnings /\ done' = done
      BY <1>3 DEF vars
    <2>2. Commands' = Commands
      BY <2>1 DEF Commands
    <2>3. OpenText => OpenText'
      BY <2>1, <2>2 DEF OpenText
    <2>4. \A i, k : Opens(i, k) => Opens(i, k)'
      BY <2>2 DEF Opens
    <2>5. \A i, k : Accounted(i, k) => Accounted(i, k)'
      BY <2>1 DEF Accounted, InBody, Holds, InBlock
    <2>6. \A i : BodyKnown(i) => BodyKnown(i)'
      BY <2>2, <2>4, <2>5 DEF BodyKnown
    <2> QED
      BY <1>1, <2>1, <2>2, <2>3, <2>6 DEF LInv, InBlock
  <1> QED
    BY <1>1, <1>2, <1>3, EndOfTextLost DEF Next

\* When the text has ended no block is open.
LEMMA LInvIsEnough == LInv => NoLineLost
  <1> SUFFICES ASSUME LInv, done PROVE NoLineLost
    BY DEF NoLineLost
  <1>1. IInv /\ DOMAIN kinds = DOMAIN text
    BY DEF LInv, IInv, TypeOK
  <1>2. ASSUME NEW i \in DOMAIN text, kinds[i] = "body"
        PROVE  LET n == OpenerOf(i)
                   at == IF n \in DOMAIN cfg /\ BlockKind[cfg[n].def] = "delim"
                         THEN i - n + 1 ELSE i - n
               IN  \/ n \in errors
                   \/ /\ n \in DOMAIN cfg /\ at \in DOMAIN cfg[n].body
                      /\ cfg[n].body[at] = text[i]
    <2>1. PICK n \in Commands : Opens(i, n) /\ Accounted(i, n)
      BY <1>2 DEF LInv, BodyKnown
    <2>2. OpenerOf(i) = n
      BY <1>1, <2>1, OpenerIs
    <2>3. n \in errors \/ InBody(i, n)
      BY <2>1 DEF Accounted
    <2>4. i \in Nat /\ n \in Nat
      BY <1>1, CommandsAreLines DEF IInv, TypeOK
    <2>5. InBody(i, n) =>
            LET at == IF n \in DOMAIN cfg /\ BlockKind[cfg[n].def] = "delim"
                      THEN i - n + 1 ELSE i - n
            IN  /\ n \in DOMAIN cfg /\ at \in DOMAIN cfg[n].body
                /\ cfg[n].body[at] = text[i]
      <3>1. i - n + 0 = i - n
        BY <2>4
      <3> QED
        BY <3>1 DEF InBody, Holds, Shift
    <2> QED
      BY <2>2, <2>3, <2>5
  <1> QED
    BY <1>1, <1>2 DEF LInv, NoLineLost

\* Every line is accounted for, for every schema and every text: a command is
\* in the tree or a diagnostic names it, and a line of a raw block is in the
\* body of its node, unchanged and in its place, or the opener is an Error.
THEOREM NoLineIsLost == Spec => []NoLineLost
  BY InitLInv, NextLInv, LInvIsEnough, PTL DEF Spec
=============================================================================
