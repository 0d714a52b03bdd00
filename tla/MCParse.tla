------------------------------ MODULE MCParse -------------------------------
(***************************************************************************)
(* A router with nested sections and blocks of both kinds, at the top      *)
(* level and inside a section.  The rules of the platform blank noise,     *)
(* lines that begin with "!" and the token that closes a section, and      *)
(* rewrite a word.  "!" can also delimit a block.                          *)
(***************************************************************************)
EXTENDS RoundTrip, TLC

\* 1 "router" with 2 "family" and 4 "banner {{ d:delim }}"; 2 with 3 "mtu";
\* at the top level also 5 "banner {{ d:delim }}" and 6 "cert", until "quit"
RouterLengths == <<6, 6, 3, 7, 7, 4>>
RouterRoots == <<1, 5, 6>>
RouterChildren == <<<<2, 4>>, <<3>>, <<>>, <<>>, <<>>, <<>>>>
RouterLevels == {RouterRoots, RouterChildren[1], RouterChildren[2]}
RouterBlocks == <<"none", "none", "none", "delim", "delim", "until">>
RouterTerminator == 6 :> "quit"

Caret == <<"banner", "^">>
Bang == <<"banner", "!">>

RouterLines ==
    {<<"router">>, <<"family">>, <<"mtu">>, <<"foo">>, <<"cert">>, <<"quit">>,
     Caret, <<"banner", "^", "hi", "^">>, <<"banner", "^", "^", "foo">>,
     <<"^">>, <<"mtu", "^">>, <<"mtu", "^", "foo">>,
     Bang, <<"bar">>, <<"!">>, <<"!", "foo">>, <<"foo", "!">>, <<"exit">>}

RouterExact ==
    {<<1, <<"router">>>>, <<2, <<"family">>>>, <<3, <<"mtu">>>>, <<6, <<"cert">>>>,
     <<4, Caret>>, <<5, Caret>>, <<4, Bang>>, <<5, Bang>>}

RouterPrefix ==
    [dl \in {4, 5} \X {l \in RouterLines : l[1] = "banner"} |->
        IF dl[2] = Bang THEN Bang ELSE Caret]

At(indent, words) == [indent |-> indent, words |-> words]

SectionLines ==
    {At(0, <<"router">>), At(1, <<"router">>), At(1, <<"family">>), At(2, <<"mtu">>),
     At(1, <<"mtu">>), At(1, <<"foo">>), At(2, <<"family">>), At(1, <<>>)}

BlockLines ==
    {At(0, <<"router">>), At(1, Caret), At(1, <<"banner", "^", "hi", "^">>),
     At(0, <<"banner", "^", "^", "foo">>), At(0, <<"mtu", "^", "foo">>), At(2, <<"family">>),
     At(1, <<"cert">>), At(0, <<"quit">>), At(1, <<"quit">>), At(0, <<>>)}

\* Both kinds of sections and blocks, well and badly formed.
MixedLines ==
    {At(0, <<"router">>), At(1, <<"family">>), At(2, <<"mtu">>), At(1, Caret),
     At(3, <<"banner", "^", "hi", "^">>), At(0, <<"banner", "^", "^", "foo">>),
     At(0, <<"mtu", "^">>), At(0, <<"cert">>), At(0, <<"quit">>), At(1, <<"quit">>),
     At(0, <<>>)}

\* Noise without delimiters in it.
NoiseLines ==
    {At(0, <<"!">>), At(0, <<"!", "foo">>), At(1, Caret), At(2, Caret), At(0, <<"router">>),
     At(0, <<"foo">>), At(0, <<"^">>)}

\* Noise that is a delimiter too.
DelimiterLines ==
    {At(0, <<"!">>), At(1, Bang), At(1, Caret), At(0, <<"foo", "!">>), At(0, <<"foo">>),
     At(0, <<"^">>)}

Texts(lines, max) == [lines |-> lines, max |-> max]

RouterTexts == {Texts(SectionLines, 5), Texts(BlockLines, 5), Texts(MixedLines, 4),
                Texts(NoiseLines, 5), Texts(DelimiterLines, 6)}
RouterRawLines == UNION {v.lines : v \in RouterTexts}

RouterExits == 2 :> <<"exit">>

\* DropLines("^!"), DropLines("^ *exit$") and PerLineSub("^foo$", "bar")
Noise(raw) == raw.indent = 0 /\ raw.words # <<>> /\ raw.words[1] = "!"

RouterRule(raw) ==
    IF Noise(raw) \/ raw.words = <<"exit">> THEN EmptyLine
    ELSE IF raw.words = <<"foo">> THEN [raw EXCEPT !.words = <<"bar">>]
    ELSE raw
=============================================================================
