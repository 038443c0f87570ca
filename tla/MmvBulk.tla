------------------------------- MODULE MmvBulk -------------------------------
(***************************************************************************)
(* What mmv_execute promises, as it looks to somebody who watches where    *)
(* the files are: pairs are refused while every file is still in its       *)
(* place; then one file after the other goes to its new name, which must   *)
(* be vacant by then; the only files that are deleted are those the plan   *)
(* replaces; and the only ones that go anywhere else on their way are      *)
(* those of a cycle.  MmvExecute implements it (BulkMove there).           *)
(***************************************************************************)
EXTENDS FiniteSets

CONSTANTS
    Name,       \* file names
    Temps,      \* names a file may be given while its cycle is turned
    Gone        \* no name

\* What is meant by them.
NamesApart == Gone \notin Name /\ Temps \subseteq Name

VARIABLES
    moves,      \* whether the files are moved; else copied, linked or appended
    keeps,      \* whether what is at the target stays, as for an append
    files,      \* the files there are at the beginning
    to,         \* the new name of each
    plan,       \* the files whose pairs have not been refused
    where,      \* where each file is
    result      \* "running", "complete", or "broken"

bulkVars == <<moves, keeps, files, to, plan, where, result>>
given    == <<moves, keeps, files, to>>

AtHome == [f \in files |-> f]

\* The plan replaces g, which it does not move away itself.
Replaced(g) == ~keeps /\ ~(moves /\ g \in plan) /\ \E r \in plan : to[r] = g

\* g is one of some files that take each other's places.
OnCycle(g) == \E S \in SUBSET plan : g \in S /\ {to[r] : r \in S} = S

Vacant(n) == \A f \in files : where[f] # n

Init ==
    /\ moves \in BOOLEAN /\ keeps \in BOOLEAN
    /\ files \subseteq Name /\ to \in [Name -> Name]
    /\ plan \subseteq files /\ where = AtHome
    /\ result \in {"running", "broken"}     \* under -n nothing will be done

Refuse ==
    /\ where = AtHome
    /\ plan' \subseteq plan
    /\ UNCHANGED <<given, where, result>>

Goes(f, n) == /\ result = "running"
              /\ where' = [where EXCEPT ![f] = n]
              /\ UNCHANGED <<given, plan, result>>

Delete(f) == where[f] = f /\ Replaced(f) /\ Goes(f, Gone)

SetAside(f) == \E t \in Temps :
    moves /\ where[f] = f /\ OnCycle(f) /\ Vacant(t) /\ Goes(f, t)

Put(f) ==
    /\ moves /\ f \in plan /\ where[f] \in {f} \cup Temps
    /\ Vacant(to[f])
    /\ Goes(f, to[f])

Finish ==
    /\ result = "running"
    /\ result' \in {"complete", "broken"}
    /\ result' = "complete" /\ moves => \A r \in plan : where[r] = to[r]
    /\ UNCHANGED <<given, plan, where>>

Next == \/ Refuse \/ Finish
        \/ \E f \in files : Delete(f) \/ SetAside(f) \/ Put(f)

Spec == Init /\ [][Next]_bulkVars
-----------------------------------------------------------------------------
\* No two files are ever at one name, so that no content replaces another one
\* that has not been deleted.
Apart == \A f, g \in files : f # g /\ where[f] # Gone => where[f] # where[g]

\* What is gone has been replaced by the plan as it is.
OnlyReplaced == \A f \in files : where[f] = Gone => Replaced(f)
=============================================================================
