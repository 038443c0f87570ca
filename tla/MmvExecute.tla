----------------------------- MODULE MmvExecute -----------------------------
(***************************************************************************)
(* mmv_execute as a whole: the planning of MmvPlan, whose result doreps    *)
(* (MmvDoreps) carries out on the directories.                             *)
(***************************************************************************)
EXTENDS MmvPlan, MmvDoreps

allVars == <<vars, doVars>>

Init == PlanInit /\ DoInit

Planning == PlanStep /\ UNCHANGED doVars
Interrupt == Breakout /\ UNCHANGED doVars
Doing    == DoStep /\ UNCHANGED planVars
Signal   == Sigint /\ UNCHANGED planVars

Next == Planning \/ Interrupt \/ Doing \/ Signal

\* The code runs on by itself; that no question stays unanswered and no
\* system call hangs is what the fairness assumes of the surroundings.
Fairness == WF_allVars(Planning) /\ WF_allVars(Doing)

Spec == Init /\ [][Next]_allVars /\ Fairness
-----------------------------------------------------------------------------
(***************************************************************************)
(* Properties.                                                             *)
(***************************************************************************)
Temps == {TempName[d][s] : d \in Dir, s \in 0..MaxTemp}

\* Types of doreps' own state; the inner loop always has a rep to work on.
ExecTypeOK ==
    /\ pc \in PlanPhases \cup DoPhases \cup {"exit"}
    /\ fs \in [Name -> Seq(Name \cup {Nil}) \cup {Absent}]
    /\ hd \in Nat \ {0} /\ cur \in Name \cup {Nil}
    /\ pc \in DoPhases \ {"doreps", "chain"} => cur \in Name
    /\ alias \in 0..MaxTemp /\ aliaslen \in Nat \cup {SizeUnlimited}
    /\ {printaliased, noex, failed, gotsig} \subseteq BOOLEAN
    /\ handler \in {"breakout", "breakrep", "breakstat"}
    /\ k \in Nat /\ sigs \in 0..MaxSig
    /\ lines \subseteq [rep : Name, from : Name, done : BOOLEAN]
    /\ shown \subseteq Name /\ broken \in Name \cup {Nil}

\* Name n holds what file f held at the start (an append may have added to it).
Holds(n, f) ==
    /\ fs[n] # Absent /\ fs[n] # << >> /\ fs[n][1] = f
    /\ IF IsAppend THEN n = f ELSE Len(fs[n]) = 1

\* Whatever fails, and wherever the program stops, even between two system
\* calls: a file is still there, whole, under some name, unless its deletion
\* was part of the approved plan; an append never costs a file.
NothingLost ==
    \A f \in job.files :
        \/ \E n \in Name : Holds(n, f)
        \/ ~IsAppend /\ \E r \in Live : fdel[r] = f

\* A file is only ever found under its old name, under the new name planned
\* for it, or, while its cycle is being turned, under a temporary name.
NothingMisplaced ==
    \A n \in Name, f \in Name : fs[n] = <<f>> =>
        \/ n = f
        \/ f \in Live /\ job.to[f] = n
        \/ f \in aliased /\ n \in Temps

\* What rep r was to achieve is there.
InPlace(r) ==
    LET t == fs[job.to[r]] IN
    /\ t # Absent
    /\ IF IsAppend THEN \E x \in DOMAIN t : t[x] = r ELSE t = <<r>>

\* The directories if every live rep is carried out as one parallel step.
Final(n, content) ==
    IF IsAppend
    THEN LET new == {r \in Live : job.to[r] = n}
             old == IF Original[n] = Absent THEN << >> ELSE Original[n]
         IN  IF new = {} THEN content = Original[n]
             ELSE \E s \in SetToSeqs(new) : content = old \o s
    ELSE IF \E r \in Live : job.to[r] = n
         THEN \E r \in Live : job.to[r] = n /\ InPlace(r)
         ELSE content = IF IsMove /\ n \in Live THEN Absent ELSE Original[n]

\* A run that ends without failure has done all of the plan, as if all the
\* renames, copies or appends were made at the same moment (each appended file
\* as long as it was before), and nothing else: no temporary name is left.
Accomplished ==
    pc = "exit" /\ handler = "breakrep" /\ ~noex =>
        \A n \in Name : Final(n, fs[n])

\* Under -n, and after the first failure or user break, the directories are
\* no longer touched.
NoexWritesNothing == [][noex => fs' = fs]_allVars

\* doreps comes to as many reps as mmv->nreps says: "Strange, did %d reps"
\* is never printed.
NothingStrange == pc = "chain" /\ hd > Len(list) => k = nreps

\* "The following left undone:" can be fed to another mmv: each line names
\* the file where it is now, a temporary name where a cycle was interrupted.
\* (Not so when the head of the cycle is what failed: see UndoneNamesTrue.)
UndoneRerunnable ==
    IsMove /\ ~job.noex =>
        \A l \in lines : ~l.done =>
            \/ fs[l.from] = <<l.rep>>
            \/ broken \in cycle /\ job.to[broken] = l.rep

\* After a failure or break the user learns of every rep what became of it:
\* it is listed as left undone unless it has been carried out.
UndoneComplete ==
    pc = "exit" /\ status = 2 =>
        \A r \in Live : InPlace(r) \/ \E l \in lines : l.rep = r /\ ~l.done

\* A line that ends in ": done" is true, and stays true.
DoneTrue == \A l \in lines : l.done => InPlace(l.rep)

\* Where a file is: as long as its old name holds it, it has not gone away.
Whereabouts(f) ==
    IF Holds(f, f) THEN f
    ELSE IF \E t \in Temps : Holds(t, f) THEN CHOOSE t \in Temps : Holds(t, f)
    ELSE IF f \in Live /\ Holds(job.to[f], f) THEN job.to[f]
    ELSE Nil

Bulk == INSTANCE MmvBulk WITH
    Gone <- Nil, moves <- IsMove, keeps <- IsAppend, files <- job.files,
    to <- job.to, plan <- Live, where <- [f \in job.files |-> Whereabouts(f)],
    result <- IF noex \/ (pc = "exit" /\ handler # "breakrep") THEN "broken"
              ELSE IF pc = "exit" THEN "complete" ELSE "running"

\* Seen from outside, and however the list and its chains are worked through,
\* the files go to their new names one by one, each into a vacant place.
BulkMove == Bulk!Spec

\* Every invocation ends: the planning, the walk over the chains, the report.
Terminates == <>(pc = "exit")
-----------------------------------------------------------------------------
(***************************************************************************)
(* Statements of the documentation that the code does not keep.            *)
(***************************************************************************)
\* show_done_all, "Show what operations have been done", "fin: |REP| that
\* marks the end of what has already been done" (mmv-pairs.c:570-577).
ShownDone == \A r \in shown : InPlace(r)

\* "The output of a previous run of mmv can be fed into another instance of
\* mmv" (mmv-getpat.c:109-110): every rep left undone is listed under the name
\* its file has.
UndoneNamesTrue ==
    IsMove /\ ~job.noex => \A l \in lines : ~l.done => fs[l.from] = <<l.rep>>

\* "Construct a unique (not existing) temporary filename" (mmv-pairs.c:688):
\* movealias never renames onto a file that exists.
TempNameFree ==
    pc = "alias" /\ ~IsAppend =>
        fs[TempName[DirOf[To]][AliasSeq(DirOf[To])]] = Absent
=============================================================================
