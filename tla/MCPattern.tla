----------------------------- MODULE MCPattern -----------------------------
(***************************************************************************)
(* Small instances of MmvPattern: the current directory R with files a, b, *)
(* ab, .a and a directory s, S in it with files a and b and a directory t, *)
(* and T in that with a file a.  E, which nothing leads to, is empty.      *)
(***************************************************************************)
EXTENDS MmvPattern

MCRank  == [c \in {".", "/", "A", "a", "b", "s", "t"} |->
              CASE c = "." -> 1 [] c = "/" -> 2 [] c = "A" -> 3 [] c = "a" -> 4
                [] c = "b" -> 5 [] c = "s" -> 6 [] c = "t" -> 7]
MCUpper == [c \in DOMAIN MCRank |-> IF c = "a" THEN "A" ELSE c]
MCLower == [c \in DOMAIN MCRank |-> IF c = "A" THEN "a" ELSE c]

MCCwd  == << >>
DirS   == <<"s", "/">>
DirT   == <<"s", "/", "t", "/">>
\* Directories that new names ask for and that are not there.
NoSuch == {<<c, "/">> : c \in {"a", "b"}} \cup {<<"a", "b", "/">>} \cup
          {<<"s", "/", c, "/">> : c \in {"a", "b", "s"}} \cup
          {<<"s", "/", "a", "b", "/">>, <<"s", "/", "s", "/", "t", "/">>,
           <<"s", "/", "t", "/", "b", "/">>} \cup
          {<<"t", "/">>} \cup
          {p \o t : p \in {<<"b">>, <<"b", "/">>, <<"a">>},
                   t \in {<<"s", "/">>, <<"t", "/">>, <<"s", "/", "t", "/">>}}
MCSpelling == {MCCwd, DirS, DirT, <<".", "/">>, <<"s", "/", ".", "/">>,
               <<"s", "/", "t", "/", ".", "/">>} \cup NoSuch
MCInode  == {"R", "S", "T", "E"}
MCDots   == {<<".">>}
MCSimple == {<<".">>, <<".", "a">>, <<"A">>, <<"A", "b">>, <<"b", ".", "a">>,
             <<"s">>, <<"t">>, <<"a", "s">>, <<"a", "t">>, <<"b", "s">>, <<"b", "t">>,
             <<"s", "b">>, <<"t", "b">>} \cup
            UNION {[1..k -> {"a", "b"}] : k \in 1..3}
MCBelow  == [f \in {g \in MCSpelling \X MCSimple :
                      g[1] \o g[2] \o <<"/">> \in MCSpelling} |->
               f[1] \o f[2] \o <<"/">>]

Plain ==
    [at |-> [s \in MCSpelling |->
               CASE s \in {MCCwd, <<".", "/">>} -> "R"
                 [] s \in {DirS, DirS \o <<".", "/">>} -> "S"
                 [] s \in {DirT, DirT \o <<".", "/">>} -> "T"
                 [] OTHER -> NoDir],
     dev |-> [i \in MCInode |-> 1],
     files |-> [i \in MCInode |->
                  CASE i = "R" -> {<<".">>, <<".", "a">>, <<"a">>, <<"b">>,
                                   <<"a", "b">>, <<"s">>}
                    [] i = "S" -> {<<".">>, <<"a">>, <<"b">>, <<"t">>}
                    [] i = "T" -> {<<".">>, <<"a">>} [] i = "E" -> {}],
     sub |-> [f \in MCInode \X MCSimple |->
                CASE f[2] = <<".">> /\ f[1] # "E" -> f[1]
                  [] f = <<"R", <<"s">>>> -> "S" [] f = <<"S", <<"t">>>> -> "T"
                  [] OTHER -> NoDir],
     unreadable |-> {}, unwritable |-> {}, dangling |-> {}, noread |-> {}]

MCFils == [i \in MCInode |->
             CASE i = "R" -> <<<<".">>, <<".", "a">>, <<"a">>, <<"a", "b">>, <<"b">>,
                               <<"s">>>>
               [] i = "S" -> <<<<".">>, <<"a">>, <<"b">>, <<"t">>>>
               [] i = "T" -> <<<<".">>, <<"a">>>> [] i = "E" -> << >>]

Worlds == {Plain, [Plain EXCEPT !.dangling = {<<"S", <<"b">>>>}]} \cup
          {[Plain EXCEPT !.unwritable = {i}] : i \in {"R", "S"}} \cup
          {[Plain EXCEPT !.unreadable = {i}] : i \in {"S", "T"}}

C(c)  == Char1(c)
E(c)  == [Char1(c) EXCEPT !.esc = TRUE]
Star  == [t |-> "star"]
One   == [t |-> "any"]
Semi  == [t |-> "semi"]
Sl    == [t |-> "slash"]
Odd   == [t |-> "error"]
AB    == [t |-> "class", in |-> {"a", "b"}]
Ref(n) == [t |-> "ref", n |-> n, conv |-> "="]
Up    == [t |-> "ref", n |-> 1, conv |-> "u"]
Low   == [t |-> "ref", n |-> 1, conv |-> "l"]

Froms == {<<C("a")>>, <<C("s"), Sl, C("b")>>, <<Star>>, <<One>>, <<C("a"), Star>>,
          <<Star, C("b")>>, <<Star, Star>>, <<Star, One>>, <<AB>>, <<AB, E("b")>>,
          <<Semi, C("a")>>, <<Semi, One>>, <<C("s"), Sl, Star>>,
          <<C("s"), Sl, Semi, C("a")>>, <<Star, Sl, C("a")>>,
          <<Star, Sl, Semi, C("a")>>, <<One, Sl, AB>>, <<C("."), Star>>,
          <<E("."), Star>>, <<C("s"), Star>>, <<C("b"), Sl, Star>>,
          <<E("a"), Star>>, <<C("s"), Sl>>, <<C("a"), Semi>>, <<One, Odd>>,
          <<Semi, One, Sl, C("a")>>}
\* Three stages, and literal directories between stages, there or not.
Froms3 == {<<Star, Sl, C("t"), Sl, C("a")>>, <<Star, Sl, Star, Sl, C("a")>>,
           <<Star, Sl, One, Sl, C("b"), Sl, C("a")>>, <<One, Sl, C("b"), Sl, AB>>,
           <<One, Sl, Star, Sl, Semi, AB>>}
Tos   == {<<C("b")>>, <<C("s")>>, <<Ref(1)>>, <<C("b"), Ref(1)>>, <<C("a"), Ref(2)>>, <<Up>>,
          <<C("s"), Sl, Ref(1)>>, <<C("b"), Sl, Ref(1)>>, <<C("s"), Sl>>,
          <<Ref(1), C("b")>>, <<Ref(1), Sl, C("b")>>, <<C("s"), Sl, Low, Sl>>}

L(ws) == [words |-> ws, blank |-> FALSE, nl |-> TRUE]
\* A call is chosen as <<argv, matchall, op, lines, world>>.
PatCall(c) ==
    [op |-> c[3], reader |-> "pat", input |-> << >>, world |-> c[5], lines |-> c[4],
     fils |-> MCFils, argv |-> c[1], matchall |-> c[2]]

\* One pair on the command line; under -r the text of a ";" is not used, for it
\* may hold a slash.
Pairs1 == {<<L(p)>> : p \in (Froms \X Tos) \cup (Froms3 \X {<<C("b")>>, <<C("b"), Ref(1)>>})}
OneCalls ==
    {c \in {TRUE} \X {FALSE} \X {"XMOVE", "DIRMOVE", "NORMCOPY"} \X Pairs1 \X Worlds :
       c[3] = "DIRMOVE" => Semi \notin Range(c[4][1].words[1])}

\* A file of lines.  Here no line with "(*)" and something behind it is followed
\* by another one, for that one would be approved, too.
Good  == L(<<<<C("a")>>, <<C("b"), Ref(0)>>>>)
More1 == L(<<<<One>>, <<C("b"), Ref(1)>>>>)
Skipped == {L(<< >>), L(<<<<Star>>>>), L(<<<<Star>>, Mark>>), [More1 EXCEPT !.blank = TRUE],
            L(More1.words \o <<<<C("b")>>>>)}
Leaks   == L(More1.words \o <<Delok, Delok>>)
Read    == {Good, More1, L(<<<<One>>, Mark, Mark, <<C("b"), Ref(1)>>>>),
            L(Good.words \o <<Delok>>), L(More1.words \o <<Delok>>),
            L(<<<<C("a")>>, <<Odd>>>>)}
OddLines == {<<>>} \cup {<<x, y>> : x \in Read \cup Skipped, y \in Read \cup Skipped} \cup
            {<<x, [y EXCEPT !.nl = FALSE]>> : x, y \in Read \cup {Leaks}} \cup
            {<<x, Leaks>> : x \in Read}
LineCalls ==
    {FALSE} \X BOOLEAN \X {"XMOVE"} \X {l \in OddLines : l = << >> \/ l[1] # Leaks} \X
    {Plain, [Plain EXCEPT !.unwritable = {"R"}]}

\* Two patterns may meet in a file.
Froms2 == {<<C("a")>>, <<Star>>, <<C("a"), Star>>, <<Semi, C("a")>>,
           <<C("s"), Sl, One>>, <<Star, Sl, C("a")>>, <<C("b"), Star>>,
           <<Star, Sl, One, Sl, C("b"), Sl, C("a")>>}
Tos2   == {<<C("b")>>, <<C("s"), Sl>>, <<C("b"), Low>>}
TwoCalls ==
    {FALSE} \X {TRUE} \X {"NORMCOPY"} \X
    {<<L(<<f, t>>), L(<<g, u>>)>> : f \in Froms2, t \in Tos2, g \in Froms2, u \in Tos2} \X
    {Plain}

PatCalls == {PatCall(c) : c \in OneCalls \cup LineCalls \cup TwoCalls}
=============================================================================
