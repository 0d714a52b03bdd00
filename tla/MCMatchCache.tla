---------------------------- MODULE MCMatchCache ----------------------------
(***************************************************************************)
(* Slices that share their lead definition: a section's children before    *)
(* and after it grows, and a section that adopts some of them.  Two lines  *)
(* open a block, one of which loses its prefix to a more specific          *)
(* definition.                                                             *)
(***************************************************************************)
EXTENDS MatchCache, TLC

\* 1 "hostname {{ n }}", 2 "banner {{ t }} {{ d:delim }}", 3 "banner motd {{ w }}",
\* 4 "banner {{ w }} {{ x }}"
CommandLengths == <<9, 8, 12, 8>>

CommandLevels == {<<1, 2>>, <<1, 2, 4>>, <<1, 4, 3, 2>>}

\* other: "version 15"; login: "banner login ^ hello"; motd: "banner motd ^ hi";
\* loginOpen and motdOpen: the two up to the delimiter.
CommandLines == {"other", "login", "motd", "loginOpen", "motdOpen"}

CommandMatches ==
    {<<2, "loginOpen">>, <<2, "motdOpen">>, <<3, "motdOpen">>,
     <<4, "loginOpen">>, <<4, "motdOpen">>}

CommandPrefixes ==
    <<2, "login">> :> "loginOpen" @@ <<2, "loginOpen">> :> "loginOpen"
        @@ <<2, "motd">> :> "motdOpen" @@ <<2, "motdOpen">> :> "motdOpen"
=============================================================================
