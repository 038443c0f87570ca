------------------------------- MODULE MmvPlan -------------------------------
(***************************************************************************)
(* The planning half of mmv_execute: check_collisions, findorder,          *)
(* nochains, scandeletes(baddel), goonordie, scandeletes(skipdel), up to   *)
(* the call of doreps.  One action is one iteration of a loop of the code. *)
(* A list cursor (q, p) of the code is the index i of p in list, so that   *)
(* "q->r_next = p->r_next; p = q" followed by the loop's p = p->r_next is  *)
(* the removal of element i with i left alone.                             *)
(* A definition right before another one, differing from it in one detail, *)
(* is a slip the properties are sensitive to; the specification itself     *)
(* does not use it.                                                        *)
(***************************************************************************)
EXTENDS MmvRep

VARIABLES
    rd,         \* the sorted REPDICT array, as the reps it points to
    i,          \* index into rd, or into list
    mult,       \* check_duplicates: inside a run of equal targets
    walk,       \* pred or t, the pointer that runs along a chain
    head,       \* findorder's local variable first
    stack,      \* printchain's activation records
    again,      \* scandeletes: inside its while loop
    yes         \* reps whose deletion the user has agreed to

planVars == <<rd, i, mult, walk, head, stack, again, yes>>
vars == <<job, repVars, pc, status, planVars>>

PlanPhases == {"collisions", "scan", "order", "walk", "firsts", "chains",
               "descend", "unwind", "baddel", "goonordie", "skipdel"}

PlanInit ==
    /\ RepInit
    /\ pc = "collisions" /\ status = Running
    /\ rd = << >> /\ i = 1 /\ mult = FALSE
    /\ walk = Nil /\ head = Nil /\ stack = << >>
    /\ again = FALSE /\ yes = {}

p == list[i]
MoreHeads == i <= Len(list)

Goto(phase) == pc' = phase /\ UNCHANGED status
Exit(code)  == pc' = "exit" /\ status' = code
-----------------------------------------------------------------------------
(***************************************************************************)
(* check_collisions.  qsort puts equal targets next to each other, in      *)
(* input order among themselves; the order of the groups is an accident of *)
(* addresses and spelling, so any order may come out.                      *)
(***************************************************************************)
SameTarget(r, s) == job.to[r] = job.to[s]

Sorted(s) ==
    /\ s \in [1..Len(list) -> Name] /\ IsInjective(s)
    /\ Range(s) = Range(list)
    /\ \A a, c \in DOMAIN s : a < c /\ SameTarget(s[a], s[c]) =>
          /\ \A b \in a..c : SameTarget(s[a], s[b])
          /\ \E x, y \in DOMAIN list : x < y /\ list[x] = s[a] /\ list[y] = s[c]

CheckCollisions ==
    /\ pc = "collisions"
    /\ IF IsAppend \/ nreps = 0
       THEN Goto("order") /\ UNCHANGED rd
       ELSE Goto("scan") /\ rd' \in {s \in [1..Len(list) -> Range(list)] : Sorted(s)}
    /\ UNCHANGED <<job, repVars, i, mult, walk, head, stack, again, yes>>

PairCollidesOff == i < Len(rd) - 1 /\ SameTarget(rd[i], rd[i + 1])
PairCollides == i < Len(rd) /\ SameTarget(rd[i], rd[i + 1])

MarkCollisionUncounted(r) ==
    /\ skip' = skip \cup {r}
    /\ fiRep' = [fiRep EXCEPT ![r] = Mistake]
    /\ badreps' = badreps + 1 /\ UNCHANGED nreps

MarkCollision(r) ==
    /\ skip' = skip \cup {r}
    /\ fiRep' = [fiRep EXCEPT ![r] = Mistake]
    /\ nreps' = nreps - 1 /\ badreps' = badreps + 1

ScanPair ==
    /\ pc = "scan" /\ i <= Len(rd)
    /\ IF PairCollides \/ mult
       THEN MarkCollision(rd[i])
       ELSE UNCHANGED <<skip, fiRep, nreps, badreps>>
    /\ mult' = PairCollides
    /\ i' = i + 1
    /\ UNCHANGED <<job, list, thendo, first, fdel, cycle, aliased, pc, status,
                   rd, walk, head, stack, again, yes>>

ScanDone ==
    /\ pc = "scan" /\ i > Len(rd)
    /\ Goto("order") /\ i' = 1
    /\ UNCHANGED <<job, repVars, rd, mult, walk, head, stack, again, yes>>
-----------------------------------------------------------------------------
(***************************************************************************)
(* findorder.  A head whose target is the source of another live rep has   *)
(* to wait for that rep (pred): its chain is hung behind pred's, or, when  *)
(* pred already waits for it, the two close a cycle that a temporary name  *)
(* will break.                                                             *)
(***************************************************************************)
Pred(r) == fiRep[fdel[r]]
Waits(r) == fdel[r] # Nil /\ Pred(r) \notin {Nil, Mistake}

ForgetNoDelete(r) == UNCHANGED fdel
ForgetAnyDelete(r) == fdel' = [fdel EXCEPT ![r] = Nil]
ForgetDelete(r) == fdel' = IF IsMove THEN [fdel EXCEPT ![r] = Nil] ELSE fdel

OrderSkipStays ==
    /\ pc = "order" /\ MoreHeads /\ p \in skip
    /\ i' = i + 1
    /\ UNCHANGED <<job, repVars, pc, status, rd, mult, walk, head, stack,
                   again, yes>>

OrderSkip ==
    /\ pc = "order" /\ MoreHeads /\ p \in skip
    /\ list' = RemoveAt(list, i)
    /\ UNCHANGED <<job, thendo, first, fdel, fiRep, skip, cycle, aliased,
                   nreps, badreps, pc, status, planVars>>

OrderFree ==
    /\ pc = "order" /\ MoreHeads /\ p \notin skip /\ ~Waits(p)
    /\ i' = i + 1
    /\ UNCHANGED <<job, repVars, pc, status, rd, mult, walk, head, stack,
                   again, yes>>

OrderCycle ==
    /\ pc = "order" /\ MoreHeads /\ p \notin skip /\ Waits(p)
    /\ first[Pred(p)] = p
    /\ cycle' = cycle \cup {p}
    /\ aliased' = aliased \cup {Pred(p)}
    /\ ForgetDelete(p)
    /\ i' = i + 1
    /\ UNCHANGED <<job, list, thendo, first, fiRep, skip, nreps, badreps, pc,
                   status, rd, mult, walk, head, stack, again, yes>>

OrderWait ==
    /\ pc = "order" /\ MoreHeads /\ p \notin skip /\ Waits(p)
    /\ first[Pred(p)] # p
    /\ head' = first[Pred(p)] /\ walk' = Pred(p)
    /\ ForgetDelete(p)
    /\ Goto("walk")
    /\ UNCHANGED <<job, list, thendo, first, fiRep, skip, cycle, aliased,
                   nreps, badreps, rd, i, mult, stack, again, yes>>

AtAnyRep == TRUE
AtChainEnd == thendo[walk] = Nil

WalkChain ==
    /\ pc = "walk"
    /\ IF AtChainEnd
       THEN thendo' = [thendo EXCEPT ![walk] = p] /\ walk' = p /\ pc' = "firsts"
       ELSE walk' = thendo[walk] /\ UNCHANGED <<thendo, pc>>
    /\ UNCHANGED <<job, list, first, fdel, fiRep, skip, cycle, aliased, nreps,
                   badreps, status, rd, i, mult, head, stack, again, yes>>

FirstKept == first
FirstMoved == [first EXCEPT ![walk] = head]

UpdateFirst ==
    /\ pc = "firsts" /\ walk # Nil
    /\ first' = FirstMoved
    /\ walk' = thendo[walk]
    /\ UNCHANGED <<job, list, thendo, fdel, fiRep, skip, cycle, aliased, nreps,
                   badreps, pc, status, rd, i, mult, head, stack, again, yes>>

UnlinkHead ==
    /\ pc = "firsts" /\ walk = Nil
    /\ list' = RemoveAt(list, i)
    /\ Goto("order")
    /\ UNCHANGED <<job, thendo, first, fdel, fiRep, skip, cycle, aliased,
                   nreps, badreps, planVars>>

OrderDone ==
    /\ pc = "order" /\ ~MoreHeads
    /\ Goto(IF job.op \in CopyOps \cup LinkOps THEN "chains" ELSE "baddel")
    /\ i' = 1
    /\ UNCHANGED <<job, repVars, rd, mult, walk, head, stack, again, yes>>
-----------------------------------------------------------------------------
(***************************************************************************)
(* nochains and printchain: copies and links may not be chained.  The      *)
(* recursion of printchain first runs to the end of the chain and refuses  *)
(* the reps on its way back.                                               *)
(***************************************************************************)
ChainedByCycle(r) == r \in cycle
ChainedByNext(r) == thendo[r] # Nil
Chained(r) == r \in cycle \/ thendo[r] # Nil

\* What printchain and scandeletes do to a rep that will not be done.
RefuseUncounted(r) == fiRep' = [fiRep EXCEPT ![r] = Mistake] /\ UNCHANGED nreps
Refuse(r) == fiRep' = [fiRep EXCEPT ![r] = Mistake] /\ nreps' = nreps - 1

ChainKeep ==
    /\ pc = "chains" /\ MoreHeads /\ ~Chained(p)
    /\ i' = i + 1
    /\ UNCHANGED <<job, repVars, pc, status, rd, mult, walk, head, stack,
                   again, yes>>

ChainEnter ==
    /\ pc = "chains" /\ MoreHeads /\ Chained(p)
    /\ stack' = <<p>>
    /\ Goto("descend")
    /\ UNCHANGED <<job, repVars, rd, i, mult, walk, head, again, yes>>

PrintChainCall ==
    /\ pc = "descend"
    /\ IF thendo[Last(stack)] # Nil
       THEN stack' = Append(stack, thendo[Last(stack)]) /\ UNCHANGED pc
       ELSE pc' = "unwind" /\ UNCHANGED stack
    /\ UNCHANGED <<job, repVars, status, rd, i, mult, walk, head, again, yes>>

PrintChainReturn ==
    /\ pc = "unwind" /\ stack # << >>
    /\ badreps' = badreps + 1 /\ Refuse(Last(stack))
    /\ stack' = Front(stack)
    /\ UNCHANGED <<job, list, thendo, first, fdel, skip, cycle, aliased, pc,
                   status, rd, i, mult, walk, head, again, yes>>

ChainUnlink ==
    /\ pc = "unwind" /\ stack = << >>
    /\ list' = RemoveAt(list, i)
    /\ Goto("chains")
    /\ UNCHANGED <<job, thendo, first, fdel, fiRep, skip, cycle, aliased,
                   nreps, badreps, planVars>>

ChainsDone ==
    /\ pc = "chains" /\ ~MoreHeads
    /\ Goto("baddel") /\ i' = 1
    /\ UNCHANGED <<job, repVars, rd, mult, walk, head, stack, again, yes>>
-----------------------------------------------------------------------------
(***************************************************************************)
(* scandeletes.  again is TRUE inside the while loop, where r_fdel of the  *)
(* rep that took the refused one's place is used without being tested.     *)
(***************************************************************************)
DelNothing ==
    /\ pc \in {"baddel", "skipdel"} /\ MoreHeads /\ ~again /\ fdel[p] = Nil
    /\ i' = i + 1
    /\ UNCHANGED <<job, repVars, pc, status, rd, mult, walk, head, stack,
                   again, yes>>

DelTested == MoreHeads /\ (again \/ fdel[p] # Nil)

KeepHead ==
    /\ i' = i + 1 /\ again' = FALSE
    /\ UNCHANGED <<job, repVars, pc, status, rd, mult, walk, head, stack>>

\* When p is refused the next rep n of its chain, if any, takes its place.
\* What a move would have renamed away is now in the way of n.
TakesOverAlways(n) ==
    /\ list' = ReplaceAt(list, i, n) /\ again' = TRUE
    /\ UNCHANGED fdel
TakesOverFreely(n) ==
    /\ IF n = Nil THEN list' = RemoveAt(list, i) ELSE list' = ReplaceAt(list, i, n)
    /\ again' = FALSE /\ UNCHANGED fdel
TakesOver(n) ==
    IF n = Nil
    THEN list' = RemoveAt(list, i) /\ again' = FALSE /\ UNCHANGED fdel
    ELSE /\ list' = ReplaceAt(list, i, n) /\ again' = TRUE
         /\ fdel' = IF IsMove THEN [fdel EXCEPT ![n] = p] ELSE fdel

\* The body of the while loop.
RefuseHead ==
    /\ Refuse(p)
    /\ TakesOver(thendo[p])
    /\ UNCHANGED <<job, thendo, first, skip, cycle, aliased, pc, status,
                   rd, i, mult, walk, head, stack, yes>>

BadDelAnyStyle(r) ==
    fiRep[fdel[r]] = Mistake \/ fdel[r] \in job.dirs
BadDelUnwritable(r) ==
    \/ job.delstyle = "NODEL" /\ r \notin job.delok /\ ~IsAppend
    \/ fiRep[fdel[r]] = Mistake \/ fdel[r] \in job.dirs

\* baddel's conditions, in the order of its tests (FI_NODEL is never set).
BadDel(r) ==
    \/ job.delstyle = "NODEL" /\ r \notin job.delok /\ ~IsAppend
    \/ fiRep[fdel[r]] = Mistake
    \/ fdel[r] \in job.dirs
    \/ job.op \in AppendOps \cup {"OVERWRITE"} /\ fdel[r] \in job.ro

BadDelKeep ==
    /\ pc = "baddel" /\ DelTested /\ ~BadDel(p)
    /\ KeepHead /\ UNCHANGED yes

BadDelRefuse ==
    /\ pc = "baddel" /\ DelTested /\ BadDel(p)
    /\ badreps' = badreps + 1
    /\ RefuseHead

BadDelDone ==
    /\ pc = "baddel" /\ ~MoreHeads
    /\ Goto("goonordie") /\ i' = 1
    /\ UNCHANGED <<job, repVars, rd, mult, walk, head, stack, again, yes>>
-----------------------------------------------------------------------------
(***************************************************************************)
(* goonordie, and skipdel's question.  ask_yesno(..., -1) returns an       *)
(* answer or, when there is no terminal or it is at its end, calls quit.   *)
(***************************************************************************)
DoubtsBadOnly == badreps > 0 /\ nreps > 0
Doubts == (job.paterr \/ badreps > 0) /\ nreps > 0

GoOn ==
    /\ pc = "goonordie"
    /\ Doubts => job.badstyle \in {"SKIPBAD", "ASKBAD"}
    /\ Goto(IF ~IsAppend /\ job.delstyle = "ASKDEL" THEN "skipdel" ELSE "doreps")
    /\ UNCHANGED <<job, repVars, planVars>>

OrDie ==
    /\ pc = "goonordie" /\ Doubts /\ job.badstyle \in {"ABORTBAD", "ASKBAD"}
    /\ Exit(1)
    /\ UNCHANGED <<job, repVars, planVars>>

SkipDelYes ==
    /\ pc = "skipdel" /\ DelTested
    /\ yes' = IF p \in job.delok THEN yes ELSE yes \cup {p}
    /\ KeepHead

SkipDelNo ==
    /\ pc = "skipdel" /\ DelTested /\ p \notin job.delok
    /\ RefuseHead /\ UNCHANGED badreps

SkipDelQuit ==
    /\ pc = "skipdel" /\ DelTested /\ p \notin job.delok
    /\ Exit(1)
    /\ UNCHANGED <<job, repVars, planVars>>

SkipDelDone ==
    /\ pc = "skipdel" /\ ~MoreHeads
    /\ Goto("doreps")
    /\ UNCHANGED <<job, repVars, planVars>>

\* breakout, the SIGINT handler init_sys installs.
Breakout ==
    /\ pc \in PlanPhases
    /\ Exit(1)
    /\ UNCHANGED <<job, repVars, planVars>>
-----------------------------------------------------------------------------
PlanStep ==
    \/ CheckCollisions \/ ScanPair \/ ScanDone
    \/ OrderSkip \/ OrderFree \/ OrderCycle \/ OrderWait \/ WalkChain
    \/ UpdateFirst \/ UnlinkHead \/ OrderDone
    \/ ChainKeep \/ ChainEnter \/ PrintChainCall \/ PrintChainReturn
    \/ ChainUnlink \/ ChainsDone
    \/ DelNothing \/ BadDelKeep \/ BadDelRefuse \/ BadDelDone
    \/ GoOn \/ OrDie
    \/ SkipDelYes \/ SkipDelNo \/ SkipDelQuit \/ SkipDelDone

PlanNext == PlanStep \/ Breakout

PlanSpec == PlanInit /\ [][PlanNext]_vars /\ WF_vars(PlanStep)
-----------------------------------------------------------------------------
(***************************************************************************)
(* Properties.                                                             *)
(***************************************************************************)
Heads == Range(list)

\* Every variable keeps its type; the cursor never leaves its list.
PlanTypeOK ==
    /\ RepTypeOK
    /\ pc \in PlanPhases \cup {"doreps", "exit"}
    /\ status \in {Running, 0, 1, 2}
    /\ rd \in Seq(Name) /\ i \in Nat /\ mult \in BOOLEAN
    /\ walk \in Name \cup {Nil} /\ head \in Name \cup {Nil}
    /\ stack \in Seq(Name) /\ again \in BOOLEAN /\ yes \subseteq Name

\* check_duplicates compares neighbours of a sorted array only, yet once it
\* is over the refused reps are exactly those that share their target with
\* another one: none of a collision is carried out, and nothing else is
\* refused.  (An append may have many sources, so it is not scanned.)
CollisionsExact ==
    pc \notin {"collisions", "scan", "exit"} =>
        skip = {r \in Sources :
                  ~IsAppend /\ \E s \in Sources \ {r} : SameTarget(r, s)}

\* Five places of the code decrement nreps.  It is at every moment the number
\* of reps still to be done, so that no rep is refused twice; and until the
\* user is asked about deletions every refusal is one in badreps.
AccountsBalance ==
    /\ nreps = Cardinality(Live)
    /\ pc \notin {"skipdel", "doreps", "exit"} =>
          nreps + badreps = Len(job.reps) + Cardinality(job.bad)

\* baddel and skipdel use r_fdel without testing it when they are called
\* again for the rep that takes a refused one's place.  It is never NULL.
NoNullDelete == again => MoreHeads /\ fdel[p] # Nil

\* When the plan is handed to doreps, walking hrep by r_next and each chain
\* by r_thendo meets every live rep, once, and no refused one.
EachOnce ==
    pc = "doreps" =>
        /\ UNION {Chain(h) : h \in Heads} = Live
        /\ IsInjective(list)
        /\ \A r \in Live : Cardinality({x \in Live : thendo[x] = r})
                            = IF r \in Heads THEN 0 ELSE 1

\* The order findorder promises, and scandeletes must not disturb, for the
\* moves: the source a rep would overwrite has been moved just before it, or
\* is the one the head of its cycle sets aside under an alias.  What is
\* overwritten otherwise is an existing file that nothing will move, and it
\* is recorded as a deletion.
MoveOrderRight ==
    pc = "doreps" /\ IsMove =>
        \A r \in Live : LET t == job.to[r] IN
            /\ t \in Live => /\ fdel[r] = Nil
                             /\ \/ thendo[t] = r
                                \/ /\ r \in cycle /\ r \in Heads
                                   /\ t \in aliased /\ t \in Chain(r)
                                   /\ thendo[t] = Nil
            /\ t \notin Live => fdel[r] = IF t \in job.files THEN t ELSE Nil
            /\ r \in aliased => \E h \in cycle \cap Heads : job.to[h] = r

\* The same for appends: a file is read by its own rep before any rep appends
\* to it, or else its length is taken by the cycle head of its own chain.
AppendOrderRight ==
    pc = "doreps" /\ IsAppend =>
        \A r \in Live : LET t == job.to[r] IN
            /\ t \in Live =>
                 \/ r # t /\ r \in Chain(t)
                 \/ r \in cycle \cap Heads /\ t \in aliased \cap Chain(r)
            /\ r \in aliased =>
                 \E h \in cycle \cap Heads : job.to[h] = r /\ r \in Chain(h)

\* nochains: no copy or link that will be carried out reads or replaces what
\* another one writes.
NoChainCopies ==
    pc = "doreps" /\ job.op \in CopyOps \cup LinkOps =>
        \A r \in Live : job.to[r] \notin Live /\ thendo[r] = Nil

\* No file is going to be deleted or overwritten unless the pattern, the -d
\* option or the user's own answer about that very pair allowed it.
DeletionsApproved ==
    pc = "doreps" /\ ~IsAppend =>
        \A r \in Live : fdel[r] # Nil =>
            r \in job.delok \/ job.delstyle = "ALLDEL" \/ r \in yes

\* baddel keeps directories and unwritable files from being replaced; only a
\* rep that inherits the name of a directory the user has just refused to
\* move (DIRMOVE) escapes it, for which doreps' unlink fails, and so does an
\* append that waits for another one: its target is never access()ed.
NoHopelessReplacement ==
    pc = "doreps" =>
        \A r \in Live : fdel[r] # Nil =>
            /\ job.op # "DIRMOVE" => fdel[r] \notin job.dirs
            /\ job.op = "OVERWRITE" \/ (IsAppend /\ r \in Heads)
                 => fdel[r] \notin job.ro

\* With -t (ABORTBAD) and no question about deletions open, either everything
\* that was specified is carried out, or nothing is.
AbortAllOrNothing ==
    pc = "doreps" /\ job.badstyle = "ABORTBAD" /\ job.delstyle # "ASKDEL" =>
        Live = {} \/ (Live = Sources /\ job.bad = {} /\ ~job.paterr)

\* Planning ends, whatever the chains look like: no walk along r_thendo or
\* r_next is endless.
PlanningEnds == <>(pc \in {"doreps", "exit"})
=============================================================================
