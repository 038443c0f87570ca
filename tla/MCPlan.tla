------------------------------- MODULE MCPlan -------------------------------
(***************************************************************************)
(* Small instances of MmvPlan.  The rep order is fixed: names are only     *)
(* compared, so another order is the same job with its names exchanged.    *)
(***************************************************************************)
EXTENDS MmvPlan

CONSTANTS a, b, c, d, e

MCName == {a, b, c, d, e}

\* A job with everything ordinary; the generators below vary some fields.
Plain == [op |-> "XMOVE", delstyle |-> "ALLDEL", badstyle |-> "SKIPBAD",
          paterr |-> FALSE, bad |-> {}, reps |-> <<a, b, c>>,
          to |-> [n \in MCName |-> n], files |-> {a, b, c}, dirs |-> {},
          ro |-> {}, delok |-> {}, isx |-> {}, noex |-> FALSE,
          verbose |-> FALSE, tty |-> FALSE]

\* Where the sources a, b, c go, with d as the one name that is no source.
Targets3 == {t \in [MCName -> {a, b, c, d}] : t[d] = d /\ t[e] = d}

\* The same for a, b, c, d and the name e.
Targets4 == {t \in [MCName -> MCName] : t[e] = e}

\* The name d: absent, an ordinary or an unwritable file, a directory, or a
\* source that badrep has refused.
World(j, kind) ==
    CASE kind = "absent" -> j
      [] kind = "file"   -> [j EXCEPT !.files = @ \cup {d}]
      [] kind = "ro"     -> [j EXCEPT !.files = @ \cup {d}, !.ro = {d}]
      [] kind = "dir"    -> [j EXCEPT !.files = @ \cup {d}, !.dirs = {d}]
      [] kind = "bad"    -> [j EXCEPT !.files = @ \cup {d}, !.bad = {d}]

\* Three moves among four names: swaps, cycles, chains, collisions, a target
\* that exists or not, every deletion policy; and four moves, the first of
\* them over an existing file, for two swaps, longer cycles and two chains.
MoveJobs ==
    {World([Plain EXCEPT !.to = t, !.delstyle = ds, !.delok = ok], k) :
        t \in Targets3, ds \in DelStyles,
        k \in {"absent", "file", "dir", "bad"}, ok \in {{}, {a}}}
    \cup
    {[Plain EXCEPT !.to = t, !.delstyle = "ASKDEL", !.reps = <<a, b, c, d>>,
                   !.files = MCName] : t \in Targets4}

\* Where the sources a and b go: to one another, to d, or to the free name e.
Targets2 == {t \in [MCName -> {a, b, d, e}] : {t[c], t[d], t[e]} = {d}}

\* Copies and links of three files among four names, of which most collide or
\* are chained, and of two files that may both be done; with every answer to
\* "Not everything specified can be done" and with patterns that matched
\* nothing.
CopyJobs ==
    LET three == {[Plain EXCEPT !.to = t] : t \in Targets3}
        two == {[Plain EXCEPT !.to = t, !.reps = <<a, b>>, !.files = {a, b}] :
                  t \in Targets2}
    IN  {World([j EXCEPT !.op = o, !.delstyle = ds, !.badstyle = bs,
                         !.paterr = pe], k) :
            j \in three \cup two, o \in CopyOps \cup LinkOps,
            ds \in {"ALLDEL", "NODEL"}, bs \in BadStyles, pe \in BOOLEAN,
            k \in {"absent", "ro", "bad"}}

\* Appends: several to one file, in chains and in cycles.
AppendJobs ==
    {World([Plain EXCEPT !.op = "NORMAPPEND", !.to = t, !.ro = w], k) :
        t \in Targets3, w \in {{}, {a}}, k \in {"absent", "file", "dir"}}
    \cup
    {[Plain EXCEPT !.op = "NORMAPPEND", !.to = t, !.reps = <<a, b, c, d>>,
                   !.files = MCName, !.ro = {e}] : t \in Targets4}

AllJobs == MoveJobs \cup CopyJobs \cup AppendJobs
=============================================================================
