------------------------------- MODULE MCScan -------------------------------
(***************************************************************************)
(* Small instances of MmvScan: the current directory R (spelled "" and     *)
(* "./") with files a and b and a directory s, which is S (spelled "s/"    *)
(* and "./s/"), a home T, and "q/", which is not there.                    *)
(***************************************************************************)
EXTENDS MmvScan

MCSpelling == {"", "./", "././", "s/", "./s/", "q/", "~/"}
MCSimple   == {"a", "b", "s", ".", "long"}
MCInode    == {"R", "S", "T"}
MCBelow    == [f \in {<<"", ".">>, <<"", "s">>, <<"./", ".">>, <<"./", "s">>} |->
                 CASE f = <<"", ".">> -> "./"   [] f = <<"", "s">> -> "s/"
                   [] f = <<"./", ".">> -> "././" [] f = <<"./", "s">> -> "./s/"]

Plain == [at |-> [s \in MCSpelling |->
                    CASE s \in {"", "./", "././"} -> "R" [] s = "~/" -> "T"
                      [] s \in {"s/", "./s/"} -> "S" [] s = "q/" -> NoDir],
          dev |-> [i \in MCInode |-> 1],
          files |-> [i \in MCInode |-> IF i = "R" THEN {".", "a", "b", "s"}
                                       ELSE {".", "a"}],
          sub |-> [f \in MCInode \X MCSimple |->
                     IF f[2] = "." THEN f[1]
                     ELSE IF f = <<"R", "s">> THEN "S" ELSE NoDir],
          unreadable |-> {}, unwritable |-> {}, dangling |-> {}, noread |-> {}]

Far == [Plain EXCEPT !.dev["S"] = 2]

\* Everything that can be wrong with a directory or a file.
Worlds == {Plain, Far} \cup
    {[w EXCEPT !.noread = {<<"R", "a">>}] : w \in {Plain, Far}} \cup
    {[Plain EXCEPT !.dangling = {f}] : f \in {<<"R", "b">>, <<"S", "a">>}} \cup
    {[Plain EXCEPT !.unwritable = {i}] : i \in {"R", "S"}} \cup
    {[Plain EXCEPT !.unreadable = {"S"}]}

Path(d, n) == [kind |-> "path", dir |-> d, name |-> n]
Odd(k)     == [kind |-> k, dir |-> "", name |-> "a"]

Froms == {Path("", n) : n \in {"a", "b", "s", ".", Empty}} \cup
         {Path(d, "a") : d \in {"./", "s/", "q/"}}
Tos   == {Path("", n) : n \in {"a", "b", "s", ".", "long", Empty}} \cup
         {Path(d, "b") : d \in {"./", "s/", "q/"}} \cup
         {Path("s/", Empty), Path("./", "s")}
HomeTo == [kind |-> "home", dir |-> "~/", name |-> "a"]

AllOps == {"NORMMOVE", "XMOVE", "DIRMOVE", "NORMCOPY", "NORMAPPEND", "HARDLINK"}

Call(o, r, w, i) == [op |-> o, reader |-> r, world |-> w, input |-> i]

\* One pair, every operation, every world.
OneCalls == {Call(o, r, w, <<f, t>>) :
               o \in AllOps, r \in {"nul", "argv"}, w \in Worlds,
               f \in Froms, t \in Tos}

\* A second pair may meet the first one's directories and files.  Only the
\* directory looked up first is found under another spelling: here it is R,
\* and S has one spelling.
TwoCalls(ops, readers, froms, ws) ==
    {Call(o, r, w, <<f, t, g, u>>) :
        o \in ops, r \in readers, w \in ws,
        f \in {x \in froms : x.dir \in {"", "./"}}, g \in froms,
        t \in Tos \ {Path("./", "s")}, u \in Tos \ {Path("./", "s")}}

Froms2 == {Path("", "a"), Path("", "b"), Path("./", "a"), Path("s/", "a")}

\* Input that is not a list of paths.
OddKinds  == {"homelong", "bad", "long", "longbad", "full"}
OddInputs == {<<>>, <<Path("", "a")>>, <<Path("", "b"), HomeTo>>,
              <<Path("", "a"), Path("s/", "b"), Path("", "b")>>} \cup
    UNION {{<<Odd(k)>>, <<Odd(k), Path("", "b")>>, <<Path("", "a"), Odd(k)>>,
            <<Path("", "a"), Path("s/", "b"), Odd(k)>>,
            <<Path("", "a"), Path("s/", "b"), Path("", "b"), Odd(k)>>} :
              k \in OddKinds}

\* The decoders take a line they reject for the end of the input: here no
\* complete pair contains one.  On the command line only the last pair is
\* compiled, and an argument that does not fit the buffer is beyond this
\* model: here it has one pair, or a second one that cannot be parsed.
OddCalls ==
    LET Kinds(i) == {i[k].kind : k \in DOMAIN i}
        Last(i)  == i[Len(i)].kind
        Fair(r, i) ==
            CASE r = "nul"  -> TRUE
              [] r = "argv" -> /\ i # <<>>
                               /\ Kinds(i) \cap {"long", "longbad", "full"} = {}
                               /\ Len(i) > 3 => Last(i) = "homelong"
              [] OTHER      -> Kinds(i) \cap {"bad", "longbad"} # {} =>
                                  Len(i) % 2 = 1
    IN  {c \in {Call("XMOVE", r, Plain, i) : r \in Readers \ {"pat"}, i \in OddInputs} :
           Fair(c.reader, c.input)}

PairCalls == OneCalls \cup OddCalls \cup
             TwoCalls({"XMOVE"}, {"nul"}, Froms2, {Plain, Far}) \cup
             TwoCalls({"DIRMOVE", "NORMCOPY"}, {"nul"}, Froms2, {Plain})

\* Instances for what does not hold.
AliasCalls == TwoCalls({"XMOVE"}, {"nul"}, {Path("", "a")}, {Plain}) \cup
    {Call("XMOVE", "nul", Plain,
          <<Path("", "a"), Path("s/", "b"), Path("", "b"), Path("./", "s")>>)}
ArgvCalls == {Call("XMOVE", "argv", Plain, <<f, t, g, u>>) :
                f \in Froms2, t \in Tos, g \in Froms2, u \in Tos}
HomeCalls == {Call("DIRMOVE", "nul", Plain, <<f, t>>) :
                f \in Froms, t \in Tos \cup {HomeTo}}
=============================================================================
