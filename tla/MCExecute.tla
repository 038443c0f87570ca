----------------------------- MODULE MCExecute -----------------------------
(***************************************************************************)
(* Small instances of MmvExecute: directory x with the names a and b,      *)
(* directory y with c and d, and two temporary names in each.              *)
(***************************************************************************)
EXTENDS MmvExecute

CONSTANTS a, b, c, d, x, y, x0, x1, y0, y1

MCName == {a, b, c, d, x0, x1, y0, y1}
MCDir == {x, y}
MCDirOf == [n \in MCName |-> IF n \in {a, b, x0, x1} THEN x ELSE y]
MCTempName == [q \in MCDir |-> [s \in 0..1 |->
                 CASE q = x /\ s = 0 -> x0 [] q = x /\ s = 1 -> x1
                   [] q = y /\ s = 0 -> y0 [] q = y /\ s = 1 -> y1]]

Plain == [op |-> "XMOVE", delstyle |-> "ALLDEL", badstyle |-> "SKIPBAD",
          paterr |-> FALSE, bad |-> {}, reps |-> <<a, b, c>>,
          to |-> [n \in MCName |-> n], files |-> {a, b, c}, dirs |-> {},
          ro |-> {}, delok |-> {}, isx |-> {}, noex |-> FALSE,
          verbose |-> FALSE, tty |-> FALSE]

Aim(n, q) == [Plain EXCEPT !.to = [@ EXCEPT ![a] = n[1], ![b] = n[2], ![c] = n[3]],
                           !.files = {a, b, c} \cup q]
Aims == {a, b, c, d} \X {a, b, c, d} \X {a, b, c, d}

\* The reps of a job that leave their directory.
Crossing(j) == {r \in Range(j.reps) : MCDirOf[r] # MCDirOf[j.to[r]]}

\* Moves: every map of three files to four names, onto an existing d or not,
\* with x0 and y0 free or taken, on one device or two.
MoveJobs ==
    LET onOne == {[Aim(n, q) EXCEPT !.verbose = v] :
                    n \in Aims, q \in {{}, {d, x0, y0}}, v \in BOOLEAN}
        onTwo == {[Aim(n, {}) EXCEPT !.verbose = TRUE] : n \in Aims}
    IN  onOne \cup {[j EXCEPT !.isx = Crossing(j)] : j \in onTwo}

\* Copies and links of three files, of which most collide or are chained, and
\* of two files, which may both be done, into the same directory or another.
CopyJobs ==
    LET three == {Aim(n, q) : n \in Aims, q \in {{}, {d}}}
        two == {[Aim(<<n[1], n[2], c>>, {}) EXCEPT !.reps = <<a, b>>,
                                                   !.files = {a, b} \cup q] :
                  n \in {a, b, c, d} \X {a, b, c, d}, q \in SUBSET {c, d}}
    IN  {[j EXCEPT !.op = o, !.verbose = v] :
            o \in CopyOps \cup LinkOps, j \in three \cup two, v \in BOOLEAN}

\* Appends of three files, to one another or to a fourth.
AppendJobs ==
    {[Aim(n, q) EXCEPT !.op = "NORMAPPEND", !.verbose = v] :
        n \in Aims, q \in {{}, {d}}, v \in BOOLEAN}

\* Moves with everything asked of the user, who may also only want to see
\* what would be done.
AskJobs ==
    {[Aim(n, {d}) EXCEPT !.badstyle = "ASKBAD", !.delstyle = ds, !.tty = TRUE,
                         !.verbose = v, !.noex = nx, !.delok = ok] :
        n \in Aims, ds \in {"ASKDEL", "NODEL"}, v \in BOOLEAN, nx \in BOOLEAN,
        ok \in {{}, {c}}}

AllJobs == MoveJobs \cup AskJobs \cup CopyJobs \cup AppendJobs

\* A swap of b and c, and a, which goes to d or to a temporary name.
SwapJobs ==
    {Aim(<<t, c, b>>, {}) : t \in {d, x0}}
=============================================================================
