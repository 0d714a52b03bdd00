------------------------------- MODULE ListVal ------------------------------
(***************************************************************************)
(* internal/listval: what the value of a list means and how a set of items *)
(* is spelled.                                                             *)
(*                                                                         *)
(* A value is a keyword or a sequence of tokens, one item or the two ends  *)
(* of a range.  An item is a pair of a number and a spelling, 0 for the    *)
(* plain one and -k for k leading zeros; an item that is no number has     *)
(* NoNum and its place in lexical order.  A keyword is never an item.      *)
(***************************************************************************)
EXTENDS Integers, FiniteSets, SequencesExt

CONSTANTS
    MaxRange,     \* maxRange: a range with more items is refused
    Words,        \* per list definition, the keywords it declares
    Domain        \* per list definition, the tokens that "all" stands for

NoNum == -1

IsNum(i) == i[1] # NoNum

\* plain: a number without leading zeros.
IsPlain(i) == IsNum(i) /\ i[2] = 0

\* compare: equal numbers in the lexical order of their spellings, in which
\* 007 is before 7 and 0 before 00.
Before(i, j) ==
    \/ IsNum(i) /\ ~IsNum(j)
    \/ /\ IsNum(i) <=> IsNum(j)
       /\ \/ i[1] < j[1]
          \/ i[1] = j[1] /\ IF i[1] = 0 THEN j[2] < i[2] ELSE i[2] < j[2]

\* The same number in two spellings is one item.
Same(i, j) == i = j \/ (IsNum(i) /\ i[1] = j[1])

\* normalize: numbers first, and the first spelling of each.
Normalize(items) ==
    SetToSortSeq({i \in items : \A j \in items : Same(i, j) => ~Before(j, i)}, Before)

-----------------------------------------------------------------------------
\* expandTok: an element that is empty, an open, a reversed or a large range.
Valid(tok) ==
    \/ Len(tok) = 1
    \/ Len(tok) = 2 /\ tok[2][1] - tok[1][1] \in 0..(MaxRange - 1)

ItemsOf(tok) ==
    IF Len(tok) = 1 THEN {tok[1]} ELSE {<<v, 0>> : v \in tok[1][1]..tok[2][1]}

Expands(toks) == toks # <<>> /\ \A k \in DOMAIN toks : Valid(toks[k])

Expand(toks) == Normalize(UNION {ItemsOf(toks[k]) : k \in DOMAIN toks})

Value(word, toks) == [word |-> word, toks |-> toks]

Resolves(raw) == raw.word \in {"none", "all"} \/ Expands(raw.toks)

Resolve(d, raw) ==
    CASE raw.word = "none" -> <<>>
      [] raw.word = "all" -> Expand(Domain[d])
      [] raw.word = "except" ->
            SelectSeq(Expand(Domain[d]), LAMBDA i : i \notin ToSet(Expand(raw.toks)))
      [] raw.word = "" -> Expand(raw.toks)

-----------------------------------------------------------------------------
\* Seeded fault: a run goes on over a gap of one.
JoinsOverGap(items, k) ==
    /\ k > 1 /\ IsPlain(items[k - 1]) /\ IsPlain(items[k])
    /\ items[k][1] <= items[k - 1][1] + 2

\* An item goes on with the run of the one before it.
Joins(items, k) ==
    /\ k > 1 /\ IsPlain(items[k - 1]) /\ IsPlain(items[k])
    /\ items[k][1] = items[k - 1][1] + 1

\* compressSorted: one token per run, in order.
Compress(items) ==
    LET starts == {k \in DOMAIN items : ~Joins(items, k)}
        Ends(k) == {e \in k..Len(items) : \A j \in (k + 1)..e : Joins(items, j)}
        Token(k) == LET e == CHOOSE e \in Ends(k) : \A f \in Ends(k) : f <= e
                    IN  IF e = k THEN <<items[k]>> ELSE <<items[k], items[e]>>
        order == SetToSortSeq(starts, <)
    IN  [n \in DOMAIN order |-> Token(order[n])]

\* The empty set needs a keyword.
Spellable(d, items) == items # {} \/ "none" \in Words[d]

Canonical(d, items) ==
    IF items = {} THEN Value("none", <<>>)
    ELSE IF "all" \in Words[d] /\ Normalize(items) = Expand(Domain[d])
    THEN Value("all", <<>>)
    ELSE Value("", Compress(Normalize(items)))
=============================================================================
