---------------------------- MODULE MmvPlanProofs ----------------------------
(***************************************************************************)
(* Theorems about the planning half of mmv_execute, for every set of names *)
(* and every invocation.                                                   *)
(***************************************************************************)
EXTENDS MmvPlan, MmvLists, FiniteSetTheorems, FunctionTheorems

-----------------------------------------------------------------------------
(***************************************************************************)
(* The list operations of the model.                                       *)
(***************************************************************************)
\* Letting another rep take the place of an element keeps the list a list.
LEMMA ReplaceAtProperties ==
  ASSUME NEW S, NEW s \in Seq(S), NEW n \in 1..Len(s), NEW e \in S
  PROVE  ReplaceAt(s, n, e) \in Seq(S) /\ Len(ReplaceAt(s, n, e)) = Len(s)
BY ExceptSeq DEF ReplaceAt

\* A return of printchain leaves the records of its callers.
LEMMA FrontProperties ==
  ASSUME NEW S, NEW s \in Seq(S), s # << >>
  PROVE  Front(s) \in Seq(S) /\ Last(s) \in S
<1>1. Len(s) \in Nat /\ Len(s) # 0
  BY EmptySeq, LenProperties
<1>2. \A m \in 1..Len(s) : s[m] \in S
  BY ElementOfSeq
<1>3. Last(s) \in S
  BY <1>1, <1>2 DEF Last
<1>4. \A m \in 1..(Len(s) - 1) : s[m] \in S
  BY <1>1, <1>2
<1>5. SubSeq(s, 1, Len(s) - 1) \in Seq(S)
  BY <1>1, <1>4, SubSeqProperties
<1>6. QED BY <1>3, <1>5 DEF Front

\* The element the cursor of a list is at.
LEMMA ElementAt ==
  ASSUME NEW S, NEW s \in Seq(S), NEW n \in Nat \ {0}, n <= Len(s)
  PROVE  n \in 1..Len(s) /\ s[n] \in S
BY ElementOfSeq, LenProperties
-----------------------------------------------------------------------------
(***************************************************************************)
(* Type correctness.  It is inductive together with what the loops know of *)
(* their cursors: a phase that is in the middle of a list element or of a  *)
(* chain has one.                                                          *)
(***************************************************************************)
CursorOK ==
    /\ i # 0
    /\ pc \in {"walk", "firsts", "descend", "unwind"} => i <= Len(list)
    /\ pc = "walk" => walk \in Name
    /\ pc \in {"walk", "firsts"} => head \in Name
    /\ pc = "descend" => stack # << >>

PlanInv == PlanTypeOK /\ CursorOK

\* What an invocation looks like when planning starts.
LEMMA PlanInvInit == PlanInit => PlanInv
<1> SUFFICES ASSUME PlanInit PROVE PlanInv
  OBVIOUS
<1> USE DEF PlanInit, RepInit, RepStart
<1>1. job \in Job /\ JobOK(job)
  BY JobsAssumption
<1>2. /\ job.reps \in Seq(Name) /\ job.to \in [Name -> Name]
      /\ job.bad \subseteq Name /\ job.files \subseteq Name
  BY <1>1 DEF Job
<1>3. badreps \in Nat
  <2>1. IsFiniteSet(job.bad)
    BY <1>2, NameAssumption, FS_Subset
  <2>2. QED BY <2>1, FS_CardinalityType
<1>4. nreps \in Nat
  BY <1>2, LenProperties
<1>5. fdel \in [Name -> Name \cup {Nil}]
  BY <1>2
<1>6. fiRep \in [Name -> Name \cup {Nil, Mistake}]
  OBVIOUS
<1>7. << >> \in Seq(Name)
  BY EmptySeq
<1>8. RepTypeOK
  BY <1>1, <1>2, <1>3, <1>4, <1>5, <1>6 DEF RepTypeOK
<1> HIDE DEF RepInit, RepStart
<1>9. PlanTypeOK
  <2>1. rd \in Seq(Name) /\ stack \in Seq(Name)
    BY <1>7
  <2>2. pc \in PlanPhases /\ status = -1 /\ i \in Nat /\ yes \subseteq Name
    BY DEF PlanPhases, Running
  <2>3. QED BY <1>8, <2>1, <2>2 DEF PlanTypeOK, Running
<1>10. CursorOK
  BY DEF CursorOK
<1>11. QED BY <1>9, <1>10 DEF PlanInv

\* Every step of planning keeps the types and the cursors right.
LEMMA PlanInvStep == PlanInv /\ [PlanNext]_vars => PlanInv'
<1> SUFFICES ASSUME PlanInv, [PlanNext]_vars PROVE PlanInv'
  OBVIOUS
<1> USE DEF PlanInv, CursorOK, Goto, Exit, PlanPhases, planVars, repVars,
            MoreHeads, p
<1>0. /\ PlanTypeOK /\ RepTypeOK
      /\ list \in Seq(Name) /\ Len(list) \in Nat
      /\ i \in Nat /\ i + 1 \in Nat /\ i + 1 # 0
  BY LenProperties DEF PlanTypeOK, RepTypeOK
<1>p. MoreHeads => p \in Name /\ i \in 1..Len(list)
  BY <1>0, ElementAt
<1>1. CASE CheckCollisions
  <2>1. CASE UNCHANGED rd
    BY <1>0, <1>1, <2>1 DEF PlanTypeOK, RepTypeOK, CheckCollisions
  <2>2. CASE rd' \in [1..Len(list) -> Range(list)]
    <3>1. Range(list) \subseteq Name
      BY <1>0, ElementOfSeq DEF Range
    <3>2. rd' \in [1..Len(list) -> Name]
      BY <2>2, <3>1
    <3>3. rd' \in Seq(Name)
      BY <1>0, <3>2, IsASeq
    <3>4. QED BY <1>0, <1>1, <3>3 DEF PlanTypeOK, RepTypeOK, CheckCollisions
  <2>3. QED BY <1>1, <2>1, <2>2 DEF CheckCollisions
<1>2. CASE ScanPair
  <2>1. rd[i] \in Name
    BY <1>0, <1>2, ElementAt DEF ScanPair, PlanTypeOK
  <2>2. QED BY <1>0, <1>2, <2>1
            DEF PlanTypeOK, RepTypeOK, ScanPair, MarkCollision, PairCollides,
                SameTarget
<1>3. CASE ScanDone
  BY <1>0, <1>3 DEF PlanTypeOK, RepTypeOK, ScanDone
<1>4. CASE OrderSkip
  <2>1. list' \in Seq(Name)
    BY <1>0, <1>p, <1>4, RemoveAtProperties DEF OrderSkip
  <2>2. QED BY <1>0, <1>4, <2>1 DEF PlanTypeOK, RepTypeOK, OrderSkip
<1>5. CASE OrderFree
  BY <1>0, <1>5 DEF PlanTypeOK, RepTypeOK, OrderFree
<1>6. CASE OrderCycle
  <2>1. Pred(p) \in Name
    BY <1>0, <1>p, <1>6 DEF OrderCycle, Waits, Pred, RepTypeOK
  <2>2. QED BY <1>0, <1>p, <1>6, <2>1
            DEF PlanTypeOK, RepTypeOK, OrderCycle, ForgetDelete
<1>7. CASE OrderWait
  <2>1. Pred(p) \in Name
    BY <1>0, <1>p, <1>7 DEF OrderWait, Waits, Pred, RepTypeOK
  <2>2. QED BY <1>0, <1>p, <1>7, <2>1
            DEF PlanTypeOK, RepTypeOK, OrderWait, ForgetDelete
<1>8. CASE WalkChain
  BY <1>0, <1>p, <1>8 DEF PlanTypeOK, RepTypeOK, WalkChain, AtChainEnd
<1>9. CASE UpdateFirst
  BY <1>0, <1>9 DEF PlanTypeOK, RepTypeOK, UpdateFirst, FirstMoved
<1>10. CASE UnlinkHead
  <2>1. list' \in Seq(Name)
    BY <1>0, <1>p, <1>10, RemoveAtProperties DEF UnlinkHead
  <2>2. QED BY <1>0, <1>10, <2>1 DEF PlanTypeOK, RepTypeOK, UnlinkHead
<1>11. CASE OrderDone
  BY <1>0, <1>11 DEF PlanTypeOK, RepTypeOK, OrderDone
<1>12. CASE ChainKeep
  BY <1>0, <1>12 DEF PlanTypeOK, RepTypeOK, ChainKeep
<1>13. CASE ChainEnter
  <2>1. <<p>> \in Seq(Name) /\ <<p>> # << >>
    BY <1>p, <1>13 DEF ChainEnter
  <2>2. QED BY <1>0, <1>13, <2>1 DEF PlanTypeOK, RepTypeOK, ChainEnter
<1>14. CASE PrintChainCall
  <2>1. stack \in Seq(Name) /\ stack # << >>
    BY <1>0, <1>14 DEF PrintChainCall, PlanTypeOK
  <2>2. CASE thendo[Last(stack)] # Nil
    <3>1. thendo[Last(stack)] \in Name
      BY <1>0, <2>1, <2>2, FrontProperties DEF RepTypeOK
    <3>2. stack' \in Seq(Name) /\ stack' # << >>
      BY <1>14, <2>1, <2>2, <3>1, AppendProperties DEF PrintChainCall
    <3>3. QED BY <1>0, <1>14, <2>2, <3>2
              DEF PlanTypeOK, RepTypeOK, PrintChainCall
  <2>3. CASE thendo[Last(stack)] = Nil
    BY <1>0, <1>14, <2>3 DEF PlanTypeOK, RepTypeOK, PrintChainCall
  <2>4. QED BY <2>2, <2>3
<1>15. CASE PrintChainReturn
  <2>1. Last(stack) \in Name /\ stack' \in Seq(Name)
    BY <1>0, <1>15, FrontProperties DEF PrintChainReturn, PlanTypeOK
  <2>2. QED BY <1>0, <1>15, <2>1 DEF PlanTypeOK, RepTypeOK, PrintChainReturn, Refuse
<1>16. CASE ChainUnlink
  <2>1. list' \in Seq(Name)
    BY <1>0, <1>p, <1>16, RemoveAtProperties DEF ChainUnlink
  <2>2. QED BY <1>0, <1>16, <2>1 DEF PlanTypeOK, RepTypeOK, ChainUnlink
<1>17. CASE ChainsDone
  BY <1>0, <1>17 DEF PlanTypeOK, RepTypeOK, ChainsDone
<1>18. CASE DelNothing
  BY <1>0, <1>18 DEF PlanTypeOK, RepTypeOK, DelNothing
<1>19. CASE BadDelKeep
  BY <1>0, <1>19 DEF PlanTypeOK, RepTypeOK, BadDelKeep, KeepHead
<1>r. ASSUME MoreHeads, pc \in {"baddel", "skipdel"}, RefuseHead
      PROVE  /\ list' \in Seq(Name)
             /\ fdel' \in [Name -> Name \cup {Nil}]
             /\ fiRep' \in [Name -> Name \cup {Nil, Mistake}]
             /\ nreps' \in Int /\ again' \in BOOLEAN
  <2>1. thendo[p] \in Name \cup {Nil}
    BY <1>0, <1>p, <1>r DEF RepTypeOK
  <2>2. fiRep' \in [Name -> Name \cup {Nil, Mistake}] /\ nreps' \in Int
    BY <1>0, <1>p, <1>r DEF RepTypeOK, RefuseHead, Refuse
  <2>3. CASE thendo[p] = Nil
    <3>1. list' \in Seq(Name)
      BY <1>0, <1>p, <1>r, <2>3, RemoveAtProperties DEF RefuseHead, TakesOver
    <3>2. QED BY <1>0, <1>r, <2>2, <2>3, <3>1 DEF RepTypeOK, RefuseHead, TakesOver
  <2>4. CASE thendo[p] # Nil
    <3>1. list' \in Seq(Name)
      BY <1>0, <1>p, <1>r, <2>1, <2>4, ReplaceAtProperties
         DEF RefuseHead, TakesOver
    <3>2. QED BY <1>0, <1>p, <1>r, <2>1, <2>2, <2>4, <3>1
              DEF RepTypeOK, RefuseHead, TakesOver
  <2>5. QED BY <2>3, <2>4
<1>20. CASE BadDelRefuse
  BY <1>0, <1>r, <1>20
     DEF PlanTypeOK, RepTypeOK, BadDelRefuse, RefuseHead, DelTested
<1>21. CASE BadDelDone
  BY <1>0, <1>21 DEF PlanTypeOK, RepTypeOK, BadDelDone
<1>22. CASE GoOn
  BY <1>0, <1>22 DEF PlanTypeOK, RepTypeOK, GoOn
<1>23. CASE OrDie
  BY <1>0, <1>23 DEF PlanTypeOK, RepTypeOK, OrDie
<1>24. CASE SkipDelYes
  BY <1>0, <1>p, <1>24 DEF PlanTypeOK, RepTypeOK, SkipDelYes, KeepHead, DelTested
<1>25. CASE SkipDelNo
  BY <1>0, <1>r, <1>25
     DEF PlanTypeOK, RepTypeOK, SkipDelNo, RefuseHead, DelTested
<1>26. CASE SkipDelQuit
  BY <1>0, <1>26 DEF PlanTypeOK, RepTypeOK, SkipDelQuit
<1>27. CASE SkipDelDone
  BY <1>0, <1>27 DEF PlanTypeOK, RepTypeOK, SkipDelDone
<1>28. CASE Breakout
  BY <1>0, <1>28 DEF PlanTypeOK, RepTypeOK, Breakout
<1>29. CASE UNCHANGED vars
  BY <1>0, <1>29 DEF PlanTypeOK, RepTypeOK, vars
<1>30. QED
  BY <1>1, <1>2, <1>3, <1>4, <1>5, <1>6, <1>7, <1>8, <1>9, <1>10, <1>11,
     <1>12, <1>13, <1>14, <1>15, <1>16, <1>17, <1>18, <1>19, <1>20, <1>21,
     <1>22, <1>23, <1>24, <1>25, <1>26, <1>27, <1>28, <1>29
     DEF PlanNext, PlanStep

\* The cursors stay in their lists, and with them every variable keeps its
\* type.
THEOREM PlanInvariant == PlanSpec => []PlanInv
BY PlanInvInit, PlanInvStep, PTL DEF PlanSpec

\* Type correctness of planning: the pointers the loops follow are never
\* NULL where they are used, and no list is indexed past its end.
THEOREM PlanTypeCorrect == PlanSpec => []PlanTypeOK
<1>1. PlanInv => PlanTypeOK
  BY DEF PlanInv
<1>2. QED BY <1>1, PlanInvariant, PTL
-----------------------------------------------------------------------------
(***************************************************************************)
(* scandeletes never dereferences a NULL r_fdel.  For an append or a copy  *)
(* a rep is hung behind another one only because its target exists, and    *)
(* nothing clears its r_fdel after that; for a move r_fdel is cleared, but *)
(* set again when the rep moves up to the place of a refused one.          *)
(***************************************************************************)
ChainedReplace ==
    /\ ~IsMove => \A x \in Name : thendo[x] # Nil => fdel[thendo[x]] # Nil
    /\ ~IsMove /\ pc = "walk" => fdel[p] # Nil
    /\ again => /\ pc \in {"baddel", "skipdel", "exit"}
                /\ MoreHeads /\ fdel[p] # Nil

\* Nothing is chained when planning starts.
LEMMA ChainedReplaceInit == PlanInit => ChainedReplace
BY DEF PlanInit, RepInit, RepStart, ChainedReplace

\* Chaining, the only change of r_thendo, and the changes of r_fdel keep it.
LEMMA ChainedReplaceStep ==
  PlanInv /\ ChainedReplace /\ [PlanNext]_vars => ChainedReplace'
<1> SUFFICES ASSUME PlanInv, ChainedReplace, [PlanNext]_vars
             PROVE  ChainedReplace'
  OBVIOUS
<1> USE DEF ChainedReplace, Goto, Exit, PlanPhases, planVars, repVars,
            MoreHeads, p, IsMove
<1>0. /\ PlanTypeOK /\ RepTypeOK /\ CursorOK
      /\ list \in Seq(Name) /\ Len(list) \in Nat /\ i \in Nat
      /\ Nil \notin Name
  BY LenProperties, NameAssumption DEF PlanInv, PlanTypeOK, RepTypeOK
<1>p. MoreHeads => p \in Name /\ i \in 1..Len(list)
  BY <1>0, ElementAt DEF CursorOK
<1>1. CASE OrderCycle
  BY <1>1 DEF OrderCycle, ForgetDelete
<1>2. CASE OrderWait
  BY <1>2 DEF OrderWait, ForgetDelete, Waits
<1>3. CASE WalkChain
  <2>1. walk \in Name
    BY <1>0, <1>3 DEF WalkChain, CursorOK
  <2>2. QED BY <1>0, <1>3, <2>1 DEF WalkChain, AtChainEnd, RepTypeOK
<1>r. ASSUME DelTested, pc \in {"baddel", "skipdel"}, RefuseHead
      PROVE  ChainedReplace'
  <2>1. /\ p \in Name /\ i \in 1..Len(list)
        /\ UNCHANGED <<job, thendo, pc, i>>
        /\ TakesOver(thendo[p])
    BY <1>p, <1>r DEF RefuseHead, DelTested
  <2>2. CASE thendo[p] = Nil
    BY <1>r, <2>1, <2>2 DEF TakesOver
  <2>3. CASE thendo[p] # Nil
    <3>1. thendo[p] \in Name
      BY <1>0, <2>1, <2>3 DEF RepTypeOK
    <3>2. Len(list') = Len(list) /\ p' = thendo[p] /\ again'
      BY <1>0, <2>1, <2>3, <3>1, ReplaceAtProperties
         DEF TakesOver, ReplaceAt
    <3>3. IsMove => fdel' = [fdel EXCEPT ![thendo[p]] = p]
      BY <2>1, <2>3 DEF TakesOver
    <3>4. ~IsMove => fdel' = fdel
      BY <2>1, <2>3 DEF TakesOver
    <3>5. fdel'[thendo[p]] # Nil
      BY <1>0, <2>1, <2>3, <3>1, <3>3, <3>4 DEF RepTypeOK
    <3>6. QED BY <1>0, <1>r, <2>1, <3>2, <3>4, <3>5
  <2>4. QED BY <2>2, <2>3
<1>4. CASE BadDelRefuse
  BY <1>r, <1>4 DEF BadDelRefuse
<1>5. CASE SkipDelNo
  BY <1>r, <1>5 DEF SkipDelNo
<1>6. CASE \/ CheckCollisions \/ ScanPair \/ ScanDone
           \/ OrderSkip \/ OrderFree \/ UpdateFirst \/ UnlinkHead \/ OrderDone
  BY <1>0, <1>6 DEF CheckCollisions, ScanPair, ScanDone, OrderSkip, OrderFree,
                    UpdateFirst, UnlinkHead, OrderDone
<1>7. CASE \/ ChainKeep \/ ChainEnter \/ PrintChainCall \/ PrintChainReturn
           \/ ChainUnlink \/ ChainsDone
  BY <1>0, <1>7 DEF ChainKeep, ChainEnter, PrintChainCall, PrintChainReturn,
                    ChainUnlink, ChainsDone
<1>8. CASE \/ DelNothing \/ BadDelKeep \/ BadDelDone \/ GoOn \/ OrDie
           \/ SkipDelYes \/ SkipDelQuit \/ SkipDelDone
  BY <1>0, <1>8 DEF DelNothing, BadDelKeep, KeepHead, BadDelDone, GoOn, OrDie,
                    SkipDelYes, SkipDelQuit, SkipDelDone
<1>9. CASE Breakout
  BY <1>9 DEF Breakout
<1>10. CASE UNCHANGED vars
  BY <1>10 DEF vars
<1>11. QED
  BY <1>1, <1>2, <1>3, <1>4, <1>5, <1>6, <1>7, <1>8, <1>9, <1>10
     DEF PlanNext, PlanStep

\* scandeletes uses r_fdel of the rep that takes a refused one's place without
\* a test; it is never NULL, whatever is refused in whatever order.
THEOREM NeverNullDelete == PlanSpec => []NoNullDelete
<1>1. ChainedReplace => NoNullDelete
  BY DEF ChainedReplace, NoNullDelete
<1>2. PlanSpec => []ChainedReplace
  BY PlanInvariant, ChainedReplaceInit, ChainedReplaceStep, PTL DEF PlanSpec
<1>3. QED BY <1>1, <1>2, PTL
-----------------------------------------------------------------------------
(***************************************************************************)
(* check_duplicates refuses exactly the reps of a collision.  Behind the   *)
(* scan, the refused ones are those of the part scanned that have a fellow *)
(* anywhere in the array, and mult says whether the element before the     *)
(* cursor is such a fellow of the one at it.                               *)
(***************************************************************************)
Fellows(a, b) == a # b /\ SameTarget(rd[a], rd[b])

ScanInv ==
    /\ pc = "collisions" => /\ list = job.reps /\ nreps = Len(job.reps)
                            /\ skip = {} /\ i = 1 /\ mult = FALSE
    /\ pc = "scan" =>
         /\ ~IsAppend
         /\ Range(rd) = Sources /\ IsInjective(rd)
         /\ \A a, b, c \in 1..Len(rd) :
               a <= b /\ b <= c /\ SameTarget(rd[a], rd[c])
                  => SameTarget(rd[a], rd[b])
         /\ i <= Len(rd) + 1
         /\ mult <=> i > 1 /\ i <= Len(rd) /\ SameTarget(rd[i - 1], rd[i])
         /\ skip = {rd[a] : a \in {b \in 1..(i - 1) :
                                     \E c \in 1..Len(rd) : Fellows(b, c)}}
    /\ CollisionsExact

\* When planning starts no rep is refused and the list is what was asked for.
LEMMA ScanInvInit == PlanInit => ScanInv
BY DEF PlanInit, RepInit, RepStart, ScanInv, CollisionsExact

\* In a sorted array a rep has a fellow exactly when a neighbour is one.
LEMMA NeighboursSuffice ==
  ASSUME PlanInv, ScanInv, pc = "scan", i <= Len(rd)
  PROVE  PairCollides \/ mult <=> \E c \in 1..Len(rd) : Fellows(i, c)
<1>0. i \in 1..Len(rd) /\ Len(rd) \in Nat
  BY LenProperties DEF PlanInv, PlanTypeOK, CursorOK
<1>1. ASSUME PairCollides
      PROVE  \E c \in 1..Len(rd) : Fellows(i, c)
  <2>1. i + 1 \in 1..Len(rd) /\ Fellows(i, i + 1)
    BY <1>0, <1>1 DEF PairCollides, Fellows
  <2>2. QED BY <2>1
<1>2. ASSUME mult
      PROVE  \E c \in 1..Len(rd) : Fellows(i, c)
  <2>1. i - 1 \in 1..Len(rd) /\ Fellows(i, i - 1)
    BY <1>0, <1>2 DEF ScanInv, Fellows, SameTarget
  <2>2. QED BY <2>1
<1>3. ASSUME NEW c \in 1..Len(rd), Fellows(i, c)
      PROVE  PairCollides \/ mult
  <2>1. CASE c > i
    <3>1. SameTarget(rd[i], rd[i + 1])
      BY <1>0, <1>3, <2>1 DEF ScanInv, Fellows
    <3>2. QED BY <1>0, <2>1, <3>1 DEF PairCollides
  <2>2. CASE c < i
    <3>1. SameTarget(rd[c], rd[i - 1])
      <4>1. SameTarget(rd[c], rd[i])
        BY <1>3 DEF Fellows, SameTarget
      <4>2. QED BY <1>0, <2>2, <4>1 DEF ScanInv
    <3>2. SameTarget(rd[i - 1], rd[i])
      BY <1>3, <3>1 DEF Fellows, SameTarget
    <3>3. QED BY <1>0, <2>2, <3>2 DEF ScanInv
  <2>3. QED BY <1>0, <1>3, <2>1, <2>2 DEF Fellows
<1>4. QED BY <1>1, <1>2, <1>3

\* The sorted array qsort hands to check_duplicates satisfies ScanInv.
LEMMA SortedScans ==
  PlanInv /\ ScanInv /\ CheckCollisions => ScanInv'
<1> SUFFICES ASSUME PlanInv, ScanInv, CheckCollisions PROVE ScanInv'
  OBVIOUS
<1> USE DEF CheckCollisions, Goto, repVars
<1>0. /\ list = job.reps /\ list \in Seq(Name) /\ Len(list) \in Nat
      /\ DOMAIN list = 1..Len(list) /\ nreps = Len(list)
      /\ i = 1 /\ ~mult /\ skip = {}
  BY LenProperties DEF ScanInv, PlanInv, PlanTypeOK, RepTypeOK
<1>1. CASE IsAppend \/ nreps = 0
  <2>1. pc' = "order" /\ UNCHANGED <<job, skip>>
    BY <1>1
  <2>2. nreps = 0 => Sources = {}
    BY <1>0 DEF Sources, Range
  <2>3. CollisionsExact'
    BY <1>0, <1>1, <2>1, <2>2
       DEF CollisionsExact, Sources, IsAppend, SameTarget
  <2>4. QED BY <2>1, <2>3 DEF ScanInv
<1>2. CASE ~(IsAppend \/ nreps = 0)
  <2>1. /\ pc' = "scan" /\ UNCHANGED <<job, skip, i, mult, list>>
        /\ rd' \in [1..Len(list) -> Range(list)]
        /\ Sorted(rd')
    BY <1>2
  <2>2. /\ rd' \in [1..Len(list) -> Name] /\ IsInjective(rd')
        /\ Range(rd') = Sources
    BY <1>0, <2>1 DEF Sorted, Sources
  <2>3. Len(rd') = Len(list) /\ DOMAIN rd' = 1..Len(list)
    <3>1. rd' \in Seq(Name)
      BY <1>0, <2>2, IsASeq
    <3>2. QED BY <1>0, <2>2, <3>1, LenProperties
  <2>4. ASSUME NEW a \in 1..Len(rd'), NEW b \in 1..Len(rd'),
               NEW c \in 1..Len(rd'), a <= b, b <= c,
               SameTarget(rd'[a], rd'[c])
        PROVE  SameTarget(rd'[a], rd'[b])
    <3>1. CASE a = c
      BY <1>0, <2>3, <2>4, <3>1
    <3>2. CASE a # c
      <4>1. a < c /\ b \in a..c /\ a \in DOMAIN rd' /\ c \in DOMAIN rd'
        BY <1>0, <2>3, <2>4, <3>2
      <4>2. QED BY <2>1, <2>4, <4>1 DEF Sorted
    <3>3. QED BY <3>1, <3>2
  <2>5. skip' = {rd'[a] : a \in {b \in 1..(i - 1) :
                                  \E c \in 1..Len(rd') : Fellows(b, c)'}}
    BY <1>0, <2>1
  <2>6. (\A a, b, c \in 1..Len(rd) :
            a <= b /\ b <= c /\ SameTarget(rd[a], rd[c])
               => SameTarget(rd[a], rd[b]))'
    BY <2>1, <2>4 DEF SameTarget
  <2>7. i' <= Len(rd') + 1 /\ ~mult' /\ ~(i' > 1)
    BY <1>0, <2>1, <2>3
  <2>8. ~IsAppend' /\ Range(rd') = Sources' /\ IsInjective(rd')
    BY <1>2, <2>1, <2>2 DEF IsAppend, Sources
  <2>9. QED
    BY <2>1, <2>5, <2>6, <2>7, <2>8 DEF ScanInv, CollisionsExact
<1>3. QED BY <1>1, <1>2

\* One turn of the scan.
LEMMA ScanPairKeeps ==
  PlanInv /\ ScanInv /\ ScanPair => ScanInv'
<1> SUFFICES ASSUME PlanInv, ScanInv, ScanPair PROVE ScanInv'
  OBVIOUS
<1> DEFINE Bad(n) == {b \in 1..n : \E c \in 1..Len(rd) : Fellows(b, c)}
<1>0. /\ pc = "scan" /\ pc' = "scan" /\ i' = i + 1
      /\ i \in 1..Len(rd) /\ Len(rd) \in Nat
      /\ UNCHANGED <<rd, job>>
      /\ mult' = PairCollides
      /\ skip = {rd[a] : a \in Bad(i - 1)}
  <2>1. Len(rd) \in Nat /\ i \in Nat /\ i # 0
    BY LenProperties DEF PlanInv, PlanTypeOK, CursorOK
  <2>2. QED BY <2>1 DEF ScanPair, ScanInv
<1>1. skip' = IF PairCollides \/ mult THEN skip \cup {rd[i]} ELSE skip
  BY DEF ScanPair, MarkCollision
<1>2. PairCollides \/ mult <=> \E c \in 1..Len(rd) : Fellows(i, c)
  BY <1>0, NeighboursSuffice
<1>3. 1..i = 1..(i - 1) \cup {i}
  BY <1>0
<1>4. Bad(i) = IF PairCollides \/ mult THEN Bad(i - 1) \cup {i} ELSE Bad(i - 1)
  BY <1>2, <1>3
<1>5. skip' = {rd[a] : a \in Bad(i)}
  BY <1>0, <1>1, <1>4
<1>6. i' - 1 = i /\ i' <= Len(rd) + 1
  BY <1>0
<1>7. (mult <=> i > 1 /\ i <= Len(rd) /\ SameTarget(rd[i - 1], rd[i]))'
  <2>1. PairCollides <=>
           i' > 1 /\ i' <= Len(rd) /\ job.to[rd[i' - 1]] = job.to[rd[i']]
    BY <1>0, <1>6 DEF PairCollides, SameTarget
  <2>2. (i > 1 /\ i <= Len(rd) /\ SameTarget(rd[i - 1], rd[i]))' <=>
           i' > 1 /\ i' <= Len(rd) /\ job.to[rd[i' - 1]] = job.to[rd[i']]
    BY <1>0 DEF SameTarget
  <2>3. QED BY <1>0, <2>1, <2>2, Zenon
<1>8. skip' = {rd'[a] : a \in {b \in 1..(i' - 1) :
                                 \E c \in 1..Len(rd') : Fellows(b, c)'}}
  BY <1>0, <1>5, <1>6 DEF Fellows, SameTarget
<1>9. /\ ~IsAppend' /\ Range(rd') = Sources' /\ IsInjective(rd')
      /\ (\A a, b, c \in 1..Len(rd) :
            a <= b /\ b <= c /\ SameTarget(rd[a], rd[c])
               => SameTarget(rd[a], rd[b]))'
  BY <1>0 DEF ScanInv, IsAppend, Sources, SameTarget
<1>10. i' <= Len(rd') + 1
  BY <1>0, <1>6
<1>11. QED
  BY <1>0, <1>7, <1>8, <1>9, <1>10 DEF ScanInv, CollisionsExact

\* The end of the scan.
LEMMA ScanDoneExact ==
  PlanInv /\ ScanInv /\ ScanDone => ScanInv'
<1> SUFFICES ASSUME PlanInv, ScanInv, ScanDone PROVE ScanInv'
  OBVIOUS
<1>0. /\ pc = "scan" /\ pc' = "order" /\ UNCHANGED <<job, skip>>
      /\ ~IsAppend /\ Range(rd) = Sources /\ IsInjective(rd)
      /\ rd \in Seq(Name) /\ Len(rd) \in Nat /\ DOMAIN rd = 1..Len(rd)
  BY LenProperties
     DEF ScanDone, Goto, repVars, ScanInv, PlanInv, PlanTypeOK
<1>1. i - 1 = Len(rd)
  BY <1>0 DEF ScanDone, ScanInv, PlanInv, PlanTypeOK
<1>2. skip = {rd[a] : a \in {b \in 1..Len(rd) :
                               \E c \in 1..Len(rd) : Fellows(b, c)}}
  BY <1>0, <1>1 DEF ScanInv
<1>3. ASSUME NEW r \in Name
      PROVE  r \in skip <=> r \in Sources
                            /\ \E s \in Sources \ {r} : SameTarget(r, s)
  <2>1. ASSUME r \in skip
        PROVE  r \in Sources /\ \E s \in Sources \ {r} : SameTarget(r, s)
    <3>1. PICK a, c \in 1..Len(rd) : r = rd[a] /\ Fellows(a, c)
      BY <1>2, <2>1
    <3>2. rd[a] \in Sources /\ rd[c] \in Sources /\ rd[a] # rd[c]
      BY <1>0, <3>1 DEF Fellows, Range, IsInjective
    <3>3. QED BY <3>1, <3>2 DEF Fellows
  <2>2. ASSUME r \in Sources, NEW s \in Sources \ {r}, SameTarget(r, s)
        PROVE  r \in skip
    <3>1. PICK a \in 1..Len(rd) : r = rd[a]
      BY <1>0, <2>2 DEF Range
    <3>2. PICK c \in 1..Len(rd) : s = rd[c]
      BY <1>0, <2>2 DEF Range
    <3>3. Fellows(a, c)
      BY <2>2, <3>1, <3>2 DEF Fellows
    <3>4. QED BY <1>2, <3>1, <3>3
  <2>3. QED BY <2>1, <2>2
<1>4. skip \subseteq Name /\ Sources \subseteq Name
  BY <1>0, ElementOfSeq DEF PlanInv, PlanTypeOK, RepTypeOK, Range
<1>5. skip = {r \in Sources : \E s \in Sources \ {r} : SameTarget(r, s)}
  BY <1>3, <1>4
<1>6. CollisionsExact'
  BY <1>0, <1>5 DEF CollisionsExact, Sources, IsAppend, SameTarget
<1>7. QED BY <1>0, <1>6 DEF ScanInv

\* Nothing that follows adds or removes a collision.
LEMMA ScanInvStep == PlanInv /\ ScanInv /\ [PlanNext]_vars => ScanInv'
<1> SUFFICES ASSUME PlanInv, ScanInv, [PlanNext]_vars PROVE ScanInv'
  OBVIOUS
<1> USE DEF Goto, Exit, planVars, repVars
<1>s. ASSUME UNCHANGED <<job, skip>>, pc \notin {"collisions", "scan", "exit"},
             pc' \notin {"collisions", "scan"}
      PROVE  ScanInv'
  BY <1>s DEF ScanInv, CollisionsExact, Sources, IsAppend, SameTarget
<1>1. CASE \/ OrderSkip \/ OrderFree \/ OrderCycle \/ OrderWait \/ WalkChain
           \/ UpdateFirst \/ UnlinkHead \/ OrderDone
  BY <1>1, <1>s DEF OrderSkip, OrderFree, OrderCycle, OrderWait, WalkChain,
                    UpdateFirst, UnlinkHead, OrderDone
<1>2. CASE \/ ChainKeep \/ ChainEnter \/ PrintChainCall \/ PrintChainReturn
           \/ ChainUnlink \/ ChainsDone
  BY <1>2, <1>s DEF ChainKeep, ChainEnter, PrintChainCall, PrintChainReturn,
                    ChainUnlink, ChainsDone
<1>3. CASE \/ DelNothing \/ BadDelKeep \/ BadDelRefuse \/ BadDelDone
           \/ GoOn \/ OrDie
           \/ SkipDelYes \/ SkipDelNo \/ SkipDelQuit \/ SkipDelDone
  BY <1>3, <1>s DEF DelNothing, BadDelKeep, KeepHead, BadDelRefuse, RefuseHead,
                    BadDelDone, GoOn, OrDie, SkipDelYes, SkipDelNo,
                    SkipDelQuit, SkipDelDone
<1>4. CASE Breakout
  BY <1>4 DEF Breakout, ScanInv, CollisionsExact
<1>5. CASE UNCHANGED vars
  <2>1. UNCHANGED <<job, list, skip, nreps, pc, rd, i, mult>>
    BY <1>5 DEF vars
  <2>2. QED
    BY <2>1 DEF ScanInv, CollisionsExact, Sources, IsAppend, SameTarget, Fellows
<1>6. QED
  BY SortedScans, ScanPairKeeps, ScanDoneExact, <1>1, <1>2, <1>3, <1>4, <1>5
     DEF PlanNext, PlanStep

\* When the scan is over the refused reps are exactly those that share their
\* target with another one, however many collide and wherever qsort put them.
THEOREM CollisionsAreExact == PlanSpec => []CollisionsExact
<1>1. ScanInv => CollisionsExact
  BY DEF ScanInv
<1>2. PlanSpec => []ScanInv
  BY PlanInvariant, ScanInvInit, ScanInvStep, PTL DEF PlanSpec
<1>3. QED BY <1>1, <1>2, PTL
-----------------------------------------------------------------------------
(***************************************************************************)
(* The chains findorder builds and printchain and scandeletes take apart.  *)
(***************************************************************************)
(***************************************************************************)
(* Lists without repetitions.                                              *)
(***************************************************************************)
\* Removing an element of such a list takes it out of the range.
LEMMA RemoveAtRange ==
  ASSUME NEW S, NEW s \in Seq(S), NEW n \in 1..Len(s), IsInjective(s)
  PROVE  /\ IsInjective(RemoveAt(s, n))
         /\ Range(RemoveAt(s, n)) = Range(s) \ {s[n]}
<1> DEFINE t == RemoveAt(s, n)
<1>0. Len(s) \in Nat /\ n \in Nat /\ DOMAIN s = 1..Len(s)
  BY LenProperties
<1>1. /\ t \in Seq(S) /\ Len(t) = Len(s) - 1
      /\ \A m \in 1..(Len(s) - 1) : t[m] = IF m < n THEN s[m] ELSE s[m + 1]
  BY RemoveAtProperties
<1> HIDE DEF t
<1>2. DOMAIN t = 1..(Len(s) - 1)
  BY <1>1, LenProperties
<1>3. IsInjective(t)
  <2>1. ASSUME NEW a \in 1..(Len(s) - 1), NEW b \in 1..(Len(s) - 1), t[a] = t[b]
        PROVE  a = b
    <3>1. \A x, y \in 1..Len(s) : s[x] = s[y] => x = y
      BY <1>0 DEF IsInjective
    <3>2. a \in 1..Len(s) /\ a + 1 \in 1..Len(s)
      BY <1>0
    <3>3. b \in 1..Len(s) /\ b + 1 \in 1..Len(s)
      BY <1>0
    <3>4. CASE a < n /\ b < n
      BY <1>1, <2>1, <3>1, <3>2, <3>3, <3>4
    <3>5. CASE a < n /\ ~(b < n)
      BY <1>0, <1>1, <2>1, <3>1, <3>2, <3>3, <3>5
    <3>6. CASE ~(a < n) /\ b < n
      BY <1>0, <1>1, <2>1, <3>1, <3>2, <3>3, <3>6
    <3>7. CASE ~(a < n) /\ ~(b < n)
      <4>1. a + 1 = b + 1
        BY <1>1, <2>1, <3>1, <3>2, <3>3, <3>7
      <4>2. QED BY <4>1
    <3>8. QED BY <3>4, <3>5, <3>6, <3>7
  <2>2. QED BY <1>2, <2>1 DEF IsInjective
<1>4. Range(t) \subseteq Range(s) \ {s[n]}
  BY <1>0, <1>1, <1>2 DEF Range, IsInjective
<1>5. ASSUME NEW m \in DOMAIN s, s[m] # s[n]
      PROVE  s[m] \in Range(t)
  <2>1. CASE m < n
    BY <1>0, <1>1, <1>2, <2>1 DEF Range
  <2>2. CASE m > n
    <3>1. m - 1 \in 1..(Len(s) - 1) /\ t[m - 1] = s[m]
      BY <1>0, <1>1, <2>2
    <3>2. QED BY <1>2, <3>1 DEF Range
  <2>3. QED BY <1>0, <1>5, <2>1, <2>2
<1>6. QED BY <1>3, <1>4, <1>5 DEF t, Range

\* Replacing one by something new exchanges the two in the range.
LEMMA ReplaceAtRange ==
  ASSUME NEW S, NEW s \in Seq(S), NEW n \in 1..Len(s), NEW e \in S,
         IsInjective(s), e \notin Range(s)
  PROVE  /\ IsInjective(ReplaceAt(s, n, e))
         /\ Range(ReplaceAt(s, n, e)) = (Range(s) \ {s[n]}) \cup {e}
<1>0. DOMAIN s = 1..Len(s)
  BY LenProperties
<1>1. ReplaceAt(s, n, e) = [s EXCEPT ![n] = e]
  BY DEF ReplaceAt
<1>2. /\ DOMAIN ReplaceAt(s, n, e) = DOMAIN s
      /\ \A m \in DOMAIN s : ReplaceAt(s, n, e)[m] = IF m = n THEN e ELSE s[m]
  BY <1>0, <1>1
<1>3. QED BY <1>0, <1>2 DEF IsInjective, Range

\* The elements from a place of a list on.
Later(s, m) == {s[n] : n \in {n \in DOMAIN s : n >= m}}

\* They are the one there and those behind it, all of them from the first
\* place and none from beyond the last.
LEMMA LaterFacts ==
  ASSUME NEW S, NEW s \in Seq(S)
  PROVE  /\ Later(s, 1) = Range(s)
         /\ \A n \in Nat : n > Len(s) => Later(s, n) = {}
         /\ \A n \in Nat : Later(s, n) \subseteq Range(s)
         /\ \A n \in 1..Len(s) :
               /\ Later(s, n) = Later(s, n + 1) \cup {s[n]}
               /\ IsInjective(s) => s[n] \notin Later(s, n + 1)
<1>0. Len(s) \in Nat /\ DOMAIN s = 1..Len(s)
  BY LenProperties
<1>1. Later(s, 1) = Range(s)
  BY <1>0 DEF Later, Range
<1>2. \A n \in Nat : n > Len(s) => Later(s, n) = {}
  BY <1>0 DEF Later
<1>3. \A n \in Nat : Later(s, n) \subseteq Range(s)
  BY DEF Later, Range
<1>4. ASSUME NEW n \in 1..Len(s)
      PROVE  /\ Later(s, n) = Later(s, n + 1) \cup {s[n]}
             /\ IsInjective(s) => s[n] \notin Later(s, n + 1)
  <2>1. {m \in DOMAIN s : m >= n} = {m \in DOMAIN s : m >= n + 1} \cup {n}
    BY <1>0
  <2>2. Later(s, n) = Later(s, n + 1) \cup {s[n]}
    BY <2>1 DEF Later
  <2>3. ASSUME IsInjective(s), s[n] \in Later(s, n + 1)
        PROVE  FALSE
    <3>1. PICK m \in DOMAIN s : m >= n + 1 /\ s[m] = s[n]
      BY <2>3 DEF Later
    <3>2. QED BY <1>0, <2>3, <3>1 DEF IsInjective
  <2>4. QED BY <2>2, <2>3
<1>5. QED BY <1>1, <1>2, <1>3, <1>4

\* Those behind an element are not disturbed when it is removed or replaced.
LEMMA LaterKept ==
  ASSUME NEW S, NEW s \in Seq(S), NEW n \in 1..Len(s), NEW e \in S
  PROVE  /\ Later(RemoveAt(s, n), n) = Later(s, n + 1)
         /\ Later(ReplaceAt(s, n, e), n + 1) = Later(s, n + 1)
<1>0. Len(s) \in Nat /\ DOMAIN s = 1..Len(s) /\ n \in Nat
  BY LenProperties
<1>1. Later(RemoveAt(s, n), n) = Later(s, n + 1)
  <2> DEFINE t == RemoveAt(s, n)
  <2>1. /\ t \in Seq(S) /\ Len(t) = Len(s) - 1
        /\ \A m \in 1..(Len(s) - 1) : t[m] = IF m < n THEN s[m] ELSE s[m + 1]
    BY RemoveAtProperties
  <2> HIDE DEF t
  <2>2. DOMAIN t = 1..(Len(s) - 1)
    BY <2>1, LenProperties
  <2>3. ASSUME NEW m \in DOMAIN t, m >= n
        PROVE  t[m] \in Later(s, n + 1)
    <3>1. t[m] = s[m + 1] /\ m + 1 \in DOMAIN s /\ m + 1 >= n + 1
      BY <1>0, <2>1, <2>2, <2>3
    <3>2. QED BY <3>1 DEF Later
  <2>4. ASSUME NEW m \in DOMAIN s, m >= n + 1
        PROVE  s[m] \in Later(t, n)
    <3>1. t[m - 1] = s[m] /\ m - 1 \in DOMAIN t /\ m - 1 >= n
      BY <1>0, <2>1, <2>2, <2>4
    <3>2. QED BY <3>1 DEF Later
  <2>5. Later(t, n) = Later(s, n + 1)
    BY <2>3, <2>4 DEF Later
  <2>6. QED BY <2>5 DEF t
<1>2. Later(ReplaceAt(s, n, e), n + 1) = Later(s, n + 1)
  <2>1. ReplaceAt(s, n, e) = [s EXCEPT ![n] = e]
    BY DEF ReplaceAt
  <2>2. /\ DOMAIN ReplaceAt(s, n, e) = DOMAIN s
        /\ \A m \in DOMAIN s : m >= n + 1 => ReplaceAt(s, n, e)[m] = s[m]
    BY <1>0, <2>1
  <2>3. QED BY <2>2 DEF Later
<1>3. QED BY <1>1, <1>2
-----------------------------------------------------------------------------
(***************************************************************************)
(* What a plan consists of at any time.                                    *)
(***************************************************************************)
\* What every step may take for granted.
LEMMA PlanFacts ==
  ASSUME PlanInv
  PROVE  /\ Nil \notin Name /\ Mistake \notin Name /\ Nil # Mistake
         /\ Sources \subseteq Name /\ Sources \subseteq job.files
         /\ Live \subseteq Sources /\ IsFiniteSet(Sources)
         /\ job \in Job /\ JobOK(job) /\ job.to \in [Name -> Name]
         /\ job.files \subseteq Name /\ IsInjective(job.reps)
         /\ list \in Seq(Name) /\ Len(list) \in Nat /\ DOMAIN list = 1..Len(list)
         /\ i \in Nat /\ i # 0
         /\ thendo \in [Name -> Name \cup {Nil}] /\ first \in [Name -> Name]
         /\ fdel \in [Name -> Name \cup {Nil}]
         /\ fiRep \in [Name -> Name \cup {Nil, Mistake}]
<1> USE DEF PlanInv, PlanTypeOK, RepTypeOK, CursorOK
<1>1. job \in Job /\ JobOK(job) /\ list \in Seq(Name)
  OBVIOUS
<1>2. job.to \in [Name -> Name] /\ job.files \subseteq Name
  BY <1>1 DEF Job
<1>3. Sources \subseteq job.files /\ IsInjective(job.reps)
  BY <1>1 DEF JobOK, Sources
<1>4. IsFiniteSet(Sources)
  BY <1>2, <1>3, NameAssumption, FS_Subset
<1>5. QED BY <1>1, <1>2, <1>3, <1>4, LenProperties, NameAssumption DEF Live

\* A cursor inside the list is at a rep.
LEMMA AtCursor ==
  ASSUME PlanInv, MoreHeads
  PROVE  i \in 1..Len(list) /\ p \in Name /\ p \in Heads
BY PlanFacts, ElementAt DEF MoreHeads, p, Heads, Range

\* The phases up to the end of findorder.
EarlyPhases == {"collisions", "scan", "order", "walk", "firsts"}

\* The entry of a rep's target in the snapshot.
Snapshot(n) == IF n \in Sources /\ job.to[n] \in job.files THEN job.to[n] ELSE Nil

\* A source is live or refused, in the order of the code first by R_SKIP; and
\* r_fdel is what the scan has found, unless findorder has cleared it.
StoreInv ==
    /\ \A n \in Name : \/ fiRep[n] = Mistake
                       \/ fiRep[n] = IF n \in Sources THEN n ELSE Nil
    /\ Live \cap skip = {}
    /\ pc \in EarlyPhases => Live = Sources \ skip
    /\ pc \in EarlyPhases => \A n \in Name : fdel[n] \in {Snapshot(n), Nil}
    /\ ~IsMove => \A n \in Name : fdel[n] = Snapshot(n)
    /\ pc \in {"collisions", "scan"} =>
         /\ list = job.reps /\ cycle = {} /\ aliased = {}
         /\ thendo = [n \in Name |-> Nil] /\ first = [n \in Name |-> n]
         /\ \A n \in Name : fdel[n] = Snapshot(n)

\* Nothing is planned at first, and nothing is chained.
LEMMA StoreInit == PlanInit => StoreInv
<1> SUFFICES ASSUME PlanInit PROVE StoreInv
  OBVIOUS
<1>1. PlanInv
  BY PlanInvInit
<1>2. /\ pc = "collisions" /\ skip = {} /\ list = job.reps /\ cycle = {}
      /\ aliased = {}
      /\ thendo = [n \in Name |-> Nil] /\ first = [n \in Name |-> n]
  BY DEF PlanInit, RepInit, RepStart
<1>3. \A n \in Name : fdel[n] = Snapshot(n)
  BY DEF PlanInit, RepInit, RepStart, Snapshot
<1>4. \A n \in Name : \/ fiRep[n] = Mistake
                      \/ fiRep[n] = IF n \in Sources THEN n ELSE Nil
  BY DEF PlanInit, RepInit, RepStart
<1>5. Live = Sources
  BY <1>1, PlanFacts DEF PlanInit, RepInit, RepStart, Live
<1>6. QED BY <1>2, <1>3, <1>4, <1>5 DEF StoreInv, EarlyPhases

\* The steps that change no field of a rep and not the list.
Quietly == UNCHANGED <<job, repVars>>

QuietStep ==
    \/ CheckCollisions \/ ScanDone \/ OrderFree \/ OrderDone
    \/ ChainKeep \/ ChainEnter \/ PrintChainCall \/ ChainsDone
    \/ DelNothing \/ BadDelKeep \/ BadDelDone \/ GoOn \/ OrDie
    \/ SkipDelYes \/ SkipDelQuit \/ SkipDelDone \/ Breakout

\* Each of those actions leaves the lists and the links alone.
LEMMA QuietSteps == QuietStep => Quietly
BY DEF QuietStep, Quietly, repVars, CheckCollisions, ScanDone, OrderFree,
       OrderDone, ChainKeep, ChainEnter, PrintChainCall, ChainsDone, DelNothing,
       BadDelKeep, KeepHead, BadDelDone, GoOn, OrDie, SkipDelYes, SkipDelQuit,
       SkipDelDone, Breakout

\* A refusal, wherever it comes from, makes one rep a mistake.
LEMMA RefusedLive ==
  ASSUME PlanInv, StoreInv, UNCHANGED job, NEW r \in Name,
         fiRep' = [fiRep EXCEPT ![r] = Mistake]
  PROVE  /\ Live' = Live \ {r}
         /\ \A n \in Name : \/ fiRep'[n] = Mistake
                            \/ fiRep'[n] = IF n \in Sources THEN n ELSE Nil
BY PlanFacts DEF StoreInv, Live, Sources

\* Every step of planning keeps the accounts, the lists and the links in order.
LEMMA StoreStep == PlanInv /\ StoreInv /\ [PlanNext]_vars => StoreInv'
<1> SUFFICES ASSUME PlanInv, StoreInv, [PlanNext]_vars PROVE StoreInv'
  OBVIOUS
<1> USE DEF EarlyPhases
<1>0. Nil \notin Name /\ Sources \subseteq Name /\ Live \subseteq Sources
  BY PlanFacts
<1>p. MoreHeads => p \in Name
  BY AtCursor
<1>e. pc' \notin {"collisions", "scan"} \/ pc' = pc \/ CheckCollisions
  BY DEF PlanNext, PlanStep, ScanPair, ScanDone, OrderSkip, OrderFree,
         OrderCycle, OrderWait, WalkChain, UpdateFirst, UnlinkHead, OrderDone,
         ChainKeep, ChainEnter, PrintChainCall, PrintChainReturn, ChainUnlink,
         ChainsDone, DelNothing, BadDelKeep, BadDelRefuse, BadDelDone, GoOn,
         OrDie, SkipDelYes, SkipDelNo, SkipDelQuit, SkipDelDone, Breakout,
         KeepHead, RefuseHead, Goto, Exit, vars
<1>1. CASE QuietStep
  <2>1. Quietly
    BY <1>1, QuietSteps
  <2>2. UNCHANGED <<Live, Sources, IsMove>> /\ \A n \in Name : Snapshot(n)' = Snapshot(n)
    BY <2>1 DEF Quietly, repVars, Live, Sources, IsMove, Snapshot
  <2>3. pc' \in EarlyPhases => pc \in EarlyPhases
    BY <1>1 DEF QuietStep, CheckCollisions, ScanDone, OrderFree,
       OrderDone, ChainKeep, ChainEnter, PrintChainCall, ChainsDone, DelNothing,
       BadDelKeep, KeepHead, BadDelDone, GoOn, OrDie, SkipDelYes, SkipDelQuit,
       SkipDelDone, Breakout, Goto, Exit
  <2>4. pc' \in {"collisions", "scan"} => pc \in {"collisions", "scan"}
    BY <1>1, <1>e DEF CheckCollisions
  <2>5. QED BY <2>1, <2>2, <2>3, <2>4 DEF StoreInv, Quietly, repVars
<1>2. CASE ScanPair
  <2>1. /\ pc = "scan" /\ pc' = "scan"
        /\ UNCHANGED <<job, list, thendo, first, fdel, cycle, aliased>>
        /\ \/ UNCHANGED <<fiRep, skip>>
           \/ MarkCollision(rd[i])
    BY <1>2 DEF ScanPair
  <2>2. UNCHANGED <<Sources, IsMove>> /\ \A n \in Name : Snapshot(n)' = Snapshot(n)
    BY <2>1 DEF Sources, IsMove, Snapshot
  <2>3. CASE UNCHANGED <<fiRep, skip>>
    BY <2>1, <2>2, <2>3 DEF StoreInv, Live
  <2>4. CASE MarkCollision(rd[i])
    <3>1. rd[i] \in Name
      BY <1>2, ElementAt DEF ScanPair, PlanInv, PlanTypeOK, CursorOK
    <3>2. fiRep' = [fiRep EXCEPT ![rd[i]] = Mistake] /\ skip' = skip \cup {rd[i]}
      BY <2>4 DEF MarkCollision
    <3>3. /\ Live' = Live \ {rd[i]}
          /\ \A n \in Name : \/ fiRep'[n] = Mistake
                              \/ fiRep'[n] = IF n \in Sources THEN n ELSE Nil
      BY <2>1, <3>1, <3>2, RefusedLive
    <3>4. QED BY <2>1, <2>2, <3>2, <3>3 DEF StoreInv
  <2>5. QED BY <2>1, <2>3, <2>4
<1>3. CASE OrderSkip \/ WalkChain \/ UpdateFirst \/ UnlinkHead \/ ChainUnlink
  <2>1. /\ UNCHANGED <<job, fdel, fiRep, skip>>
        /\ pc' \in EarlyPhases => pc \in EarlyPhases
        /\ pc' \notin {"collisions", "scan"}
    BY <1>3 DEF OrderSkip, WalkChain, UpdateFirst, UnlinkHead, ChainUnlink, Goto
  <2>2. UNCHANGED <<Live, Sources, IsMove>> /\ \A n \in Name : Snapshot(n)' = Snapshot(n)
    BY <2>1 DEF Live, Sources, IsMove, Snapshot
  <2>3. QED BY <2>1, <2>2 DEF StoreInv
<1>4. CASE OrderCycle \/ OrderWait
  <2>1. /\ UNCHANGED <<job, fiRep, skip>> /\ p \in Name
        /\ pc \in EarlyPhases /\ pc' \notin {"collisions", "scan"}
        /\ fdel' = IF IsMove THEN [fdel EXCEPT ![p] = Nil] ELSE fdel
    BY <1>4, <1>p DEF OrderCycle, OrderWait, ForgetDelete, Goto
  <2>2. UNCHANGED <<Live, Sources, IsMove>> /\ \A n \in Name : Snapshot(n)' = Snapshot(n)
    BY <2>1 DEF Live, Sources, IsMove, Snapshot
  <2>3. fdel \in [Name -> Name \cup {Nil}]
    BY PlanFacts
  <2>4. QED BY <2>1, <2>2, <2>3 DEF StoreInv
<1>5. CASE PrintChainReturn
  <2>1. /\ UNCHANGED <<job, fdel, skip, pc>> /\ pc = "unwind"
        /\ fiRep' = [fiRep EXCEPT ![Last(stack)] = Mistake]
        /\ Last(stack) \in Name
    BY <1>5, FrontProperties DEF PrintChainReturn, Refuse, PlanInv, PlanTypeOK
  <2>2. UNCHANGED <<Sources, IsMove>> /\ \A n \in Name : Snapshot(n)' = Snapshot(n)
    BY <2>1 DEF Sources, IsMove, Snapshot
  <2>3. QED BY <2>1, <2>2, RefusedLive DEF StoreInv
<1>6. CASE BadDelRefuse \/ SkipDelNo
  <2>1. /\ UNCHANGED <<job, skip, pc>> /\ pc \in {"baddel", "skipdel"}
        /\ fiRep' = [fiRep EXCEPT ![p] = Mistake] /\ p \in Name
        /\ ~IsMove => UNCHANGED fdel
    BY <1>6, <1>p DEF BadDelRefuse, SkipDelNo, RefuseHead, Refuse, TakesOver,
                      DelTested
  <2>2. UNCHANGED <<Sources, IsMove>> /\ \A n \in Name : Snapshot(n)' = Snapshot(n)
    BY <2>1 DEF Sources, IsMove, Snapshot
  <2>3. QED BY <2>1, <2>2, RefusedLive DEF StoreInv
<1>7. CASE UNCHANGED vars
  <2>1. UNCHANGED <<job, repVars, pc>>
    BY <1>7 DEF vars
  <2>2. UNCHANGED <<Live, Sources, IsMove>> /\ \A n \in Name : Snapshot(n)' = Snapshot(n)
    BY <2>1 DEF repVars, Live, Sources, IsMove, Snapshot
  <2>3. QED BY <2>1, <2>2 DEF StoreInv, repVars
<1>8. QED
  BY <1>1, <1>2, <1>3, <1>4, <1>5, <1>6, <1>7 DEF PlanNext, PlanStep, QuietStep
-----------------------------------------------------------------------------
(***************************************************************************)
(* The chains.                                                             *)
(***************************************************************************)
\* The heads findorder has not come to yet.
Todo == IF pc \in {"collisions", "scan"} THEN Heads
        ELSE IF pc = "order" THEN Later(list, i)
        ELSE IF pc \in {"walk", "firsts"} THEN Later(list, i + 1)
        ELSE {}

\* They are heads, and the one at the cursor is one only before its turn.
LEMMA TodoFacts ==
  ASSUME PlanInv
  PROVE  /\ Todo \subseteq Heads
         /\ IsInjective(list) /\ pc \in {"walk", "firsts"} => p \notin Todo
         /\ pc = "order" /\ MoreHeads => p \in Todo
         /\ pc = "order" /\ ~MoreHeads => Todo = {}
<1>1. list \in Seq(Name) /\ i \in Nat /\ i # 0 /\ i + 1 \in Nat
  BY PlanFacts
<1>2. pc \in {"walk", "firsts"} => MoreHeads
  BY DEF PlanInv, CursorOK, MoreHeads
<1>3. MoreHeads => i \in 1..Len(list)
  BY AtCursor
<1>4. ~MoreHeads => i > Len(list)
  BY PlanFacts DEF MoreHeads
<1>5. QED BY <1>1, <1>2, <1>3, <1>4, LaterFacts DEF Todo, Heads, p

\* findorder takes them one by one; nothing else changes them.
LEMMA TodoStep ==
  ASSUME PlanInv, ScanInv, IsInjective(list), PlanNext, pc' # "exit"
  PROVE  Todo' = IF pc = "order" /\ MoreHeads THEN Todo \ {p} ELSE Todo
<1> USE DEF Goto, planVars, repVars
<1>0. list \in Seq(Name) /\ i \in Nat
  BY PlanFacts
<1>p. MoreHeads => i \in 1..Len(list) /\ p \in Name
  BY AtCursor
<1>1. CASE CheckCollisions
  BY <1>0, <1>1, LaterFacts DEF CheckCollisions, ScanInv, Todo, Heads
<1>2. CASE ScanPair
  BY <1>2 DEF ScanPair, Todo, Heads
<1>3. CASE ScanDone
  BY <1>0, <1>3, LaterFacts DEF ScanDone, Todo, Heads
<1>4. CASE OrderSkip
  <2>1. /\ Todo' = Later(RemoveAt(list, i), i)
        /\ Todo = Later(list, i) /\ pc = "order" /\ MoreHeads
    BY <1>4 DEF OrderSkip, Todo
  <2>2. Later(RemoveAt(list, i), i) = Later(list, i + 1)
    BY <1>0, <1>p, <2>1, LaterKept
  <2>3. QED BY <1>0, <1>p, <2>1, <2>2, LaterFacts DEF p
<1>5. CASE OrderFree \/ OrderCycle \/ OrderWait
  <2>1. /\ Todo' = Later(list, i + 1)
        /\ Todo = Later(list, i) /\ pc = "order" /\ MoreHeads
    BY <1>5 DEF OrderFree, OrderCycle, OrderWait, Todo
  <2>2. QED BY <1>0, <1>p, <2>1, LaterFacts DEF p
<1>6. CASE WalkChain \/ UpdateFirst
  BY <1>6 DEF WalkChain, UpdateFirst, Todo
<1>7. CASE UnlinkHead
  <2>1. /\ Todo' = Later(RemoveAt(list, i), i)
        /\ Todo = Later(list, i + 1) /\ pc = "firsts" /\ MoreHeads
    BY <1>7 DEF UnlinkHead, Todo, PlanInv, CursorOK, MoreHeads
  <2>2. QED BY <1>0, <1>p, <2>1, LaterKept
<1>8. CASE OrderDone
  <2>1. Todo = {}
    BY <1>8, TodoFacts DEF OrderDone
  <2>2. Todo' = {}
    BY <1>8 DEF OrderDone, Todo
  <2>3. QED BY <1>8, <2>1, <2>2 DEF OrderDone
<1>9. CASE pc \notin EarlyPhases
  <2>1. pc' \notin EarlyPhases
    BY <1>9 DEF EarlyPhases, PlanNext, PlanStep, CheckCollisions, ScanPair,
        ScanDone, OrderSkip, OrderFree,
         OrderCycle, OrderWait, WalkChain, UpdateFirst, UnlinkHead, OrderDone,
         ChainKeep, ChainEnter, PrintChainCall, PrintChainReturn, ChainUnlink,
         ChainsDone, DelNothing, BadDelKeep, BadDelRefuse, BadDelDone, GoOn, OrDie,
         SkipDelYes, SkipDelNo, SkipDelQuit, SkipDelDone, Breakout,
         KeepHead, RefuseHead, Exit
  <2>2. QED BY <1>9, <2>1 DEF Todo, EarlyPhases
<1>10. CASE Breakout
  BY <1>10 DEF Breakout, Exit
<1>11. pc \in EarlyPhases => \/ CheckCollisions \/ ScanPair \/ ScanDone
           \/ OrderSkip \/ OrderFree \/ OrderCycle \/ OrderWait \/ WalkChain
           \/ UpdateFirst \/ UnlinkHead \/ OrderDone \/ Breakout
  BY DEF EarlyPhases, PlanNext, PlanStep, 
         ChainKeep, ChainEnter, PrintChainCall, PrintChainReturn, ChainUnlink,
         ChainsDone, DelNothing, BadDelKeep, BadDelRefuse, BadDelDone, GoOn, OrDie,
         SkipDelYes, SkipDelNo, SkipDelQuit, SkipDelDone
<1>12. QED
  BY <1>1, <1>2, <1>3, <1>4, <1>5, <1>6, <1>7, <1>8, <1>9, <1>10, <1>11
\* The heads of the chains that are as they will be: while r_first is brought
\* up to date, p hangs behind another rep already.
Tops == IF pc = "firsts" THEN Heads \ {p} ELSE Heads

\* r_thendo leads from a source to a source, no two to the same one, and never
\* in a circle: every set of sources has one that r_thendo does not lead to
\* from within it.
Acyclic == \A T \in SUBSET Sources : T # {} => \E x \in T : \A y \in T : thendo[y] # x

Threads ==
    /\ \A x \in Name : thendo[x] # Nil => x \in Sources /\ thendo[x] \in Sources
    /\ \A x, y \in Name : thendo[x] # Nil /\ thendo[x] = thendo[y] => x = y
    /\ Acyclic

\* A live rep leads to a live one, unless printchain has just refused that.
Follows ==
    \A x \in Live : \/ thendo[x] \in Live \cup {Nil}
                    \/ pc = "unwind" /\ stack # << >> /\ x = Last(stack)

\* A live rep is at the head of a chain or waits for a live one, never both.
Placed == \A r \in Live : r \in Tops <=> \A x \in Live : thendo[x] # r

\* Only the heads findorder has still to look at may be refused ones, and the
\* one printchain has just refused.
HeadsLive == \A h \in Heads : h \in Live \/ h \in Todo \/ (pc = "unwind" /\ h = p)

\* The records of printchain are those of the chain from p on.
StackInv ==
    pc \in {"descend", "unwind"} =>
      /\ \A m \in DOMAIN stack : stack[m] \in Live
      /\ stack # << >> => stack[1] = p
      /\ \A m \in DOMAIN stack : m < Len(stack) => stack[m + 1] = thendo[stack[m]]
      /\ IsInjective(stack)
      /\ pc = "unwind" => IF stack = << >> THEN p \notin Live
                          ELSE thendo[Last(stack)] \notin Live

LinkInv ==
    pc # "exit" =>
      /\ IsInjective(list) /\ Heads \subseteq Sources
      /\ Threads /\ Follows /\ Placed /\ HeadsLive /\ StackInv
      /\ pc \in EarlyPhases => \A x \in Name : thendo[x] # Nil => x \in Live

\* r_first is the head of a rep's chain; a chain that has just been hung
\* behind another one is brought up to date from walk on.
FirstInv ==
    /\ pc \in EarlyPhases => \A h \in Tops : first[h] = h
    /\ pc \in EarlyPhases \ {"firsts"} =>
         \A x \in Live : thendo[x] # Nil => first[thendo[x]] = first[x]
    /\ pc = "walk" => walk \in Live /\ first[walk] = head /\ head # p
    /\ pc = "firsts" =>
         /\ head # p /\ (walk # Nil => walk \in Live /\ first[walk] = p)
         /\ \A x \in Live : thendo[x] # Nil =>
               IF thendo[x] = walk THEN first[x] = head
               ELSE first[thendo[x]] = first[x]

ChainInv == LinkInv /\ FirstInv

\* When planning starts every rep is a chain of its own.
LEMMA ChainInit == PlanInit => ChainInv
<1> SUFFICES ASSUME PlanInit PROVE ChainInv
  OBVIOUS
<1>1. PlanInv /\ StoreInv
  BY PlanInvInit, StoreInit
<1>2. /\ pc = "collisions" /\ list = job.reps
      /\ thendo = [n \in Name |-> Nil] /\ first = [n \in Name |-> n]
  BY DEF PlanInit, RepInit, RepStart
<1>3. Nil \notin Name /\ IsInjective(list) /\ Heads = Sources /\ Sources \subseteq Name
      /\ Live \subseteq Sources
  BY <1>1, <1>2, PlanFacts DEF Heads, Sources
<1>4. Threads
  BY <1>2, <1>3 DEF Threads, Acyclic
<1>5. Follows /\ Placed /\ HeadsLive /\ StackInv /\ FirstInv
  BY <1>2, <1>3 DEF Follows, Placed, HeadsLive, StackInv, FirstInv, Tops, Todo,
                    EarlyPhases
<1>6. QED BY <1>2, <1>3, <1>4, <1>5 DEF ChainInv, LinkInv

\* What the chains are while the program is still planning.
LEMMA ChainFacts ==
  ASSUME PlanInv, StoreInv, LinkInv, pc # "exit"
  PROVE  /\ IsInjective(list) /\ Heads \subseteq Sources
         /\ Threads /\ Follows /\ Placed /\ HeadsLive /\ StackInv
         /\ pc \in EarlyPhases => \A x \in Name : thendo[x] # Nil => x \in Live
         /\ \A x \in Name : thendo[x] # x
         /\ MoreHeads /\ p \notin Todo /\ pc # "unwind" => p \in Live
<1> USE DEF LinkInv
<1>1. ASSUME NEW x \in Name, thendo[x] = x
      PROVE  FALSE
  <2>1. x \in Sources
    BY <1>1, PlanFacts DEF Threads
  <2>2. \E z \in {x} : \A y \in {x} : thendo[y] # z
    BY <2>1 DEF Threads, Acyclic
  <2>3. QED BY <1>1, <2>2
<1>2. QED BY <1>1, AtCursor DEF HeadsLive

\* The quiet steps, outside printchain.
LEMMA ChainQuiet ==
  ASSUME PlanInv, StoreInv, ScanInv, ChainInv, QuietStep, pc' # "exit",
         ~ChainEnter, ~PrintChainCall
  PROVE  ChainInv'
<1>1. Quietly /\ PlanNext
  BY QuietSteps DEF QuietStep, PlanNext, PlanStep
<1>2. /\ pc \notin {"exit", "walk", "firsts", "descend", "unwind"}
      /\ pc' \notin {"walk", "firsts", "descend", "unwind"}
      /\ pc' \in EarlyPhases => pc \in EarlyPhases
  BY DEF QuietStep, CheckCollisions, ScanDone, OrderFree, EarlyPhases,
         OrderDone, ChainKeep, ChainEnter, PrintChainCall, ChainsDone, DelNothing,
         BadDelKeep, KeepHead, BadDelDone, GoOn, OrDie, SkipDelYes, SkipDelQuit,
         SkipDelDone, Breakout, Goto, Exit
<1>3. Todo' = IF OrderFree THEN Todo \ {p} ELSE Todo
  <2>1. pc = "order" /\ MoreHeads => OrderFree
    BY DEF QuietStep, CheckCollisions, ScanDone, OrderFree, OrderDone, ChainKeep,
         ChainEnter, PrintChainCall, ChainsDone, DelNothing, MoreHeads,
         BadDelKeep, KeepHead, BadDelDone, GoOn, OrDie, SkipDelYes, SkipDelQuit,
         SkipDelDone, Breakout, Goto, Exit
  <2>2. OrderFree => pc = "order" /\ MoreHeads
    BY DEF OrderFree
  <2>3. IsInjective(list)
    BY <1>2 DEF ChainInv, LinkInv
  <2>4. QED BY <1>1, <2>1, <2>2, <2>3, TodoStep
<1>4. UNCHANGED <<job, list, thendo, first, Live, Sources, Heads>>
  BY <1>1 DEF Quietly, repVars, Live, Sources, Heads
<1>5. Tops = Heads /\ Tops' = Heads
  BY <1>2, <1>4 DEF Tops
<1>6. LinkInv'
  <2>1. Threads'
    BY <1>2, <1>4 DEF ChainInv, LinkInv, Threads, Acyclic
  <2>2. Follows' /\ Placed' /\ StackInv'
    BY <1>2, <1>4, <1>5 DEF ChainInv, LinkInv, Follows, Placed, StackInv
  <2>3. OrderFree => p \in Live
    BY <1>2, AtCursor DEF OrderFree, StoreInv, ChainInv, LinkInv, EarlyPhases
  <2>4. HeadsLive'
    BY <1>2, <1>3, <1>4, <2>3 DEF ChainInv, LinkInv, HeadsLive
  <2>5. QED BY <1>2, <1>4, <2>1, <2>2, <2>4 DEF ChainInv, LinkInv
<1>7. FirstInv'
  BY <1>2, <1>4, <1>5 DEF ChainInv, FirstInv, EarlyPhases
<1>8. QED BY <1>6, <1>7 DEF ChainInv
\* printchain is called for a head and then along its chain.
LEMMA ChainDescends ==
  ASSUME PlanInv, StoreInv, ScanInv, ChainInv, ChainEnter \/ PrintChainCall
  PROVE  ChainInv'
<1>0. /\ pc \in {"chains", "descend"} /\ pc' \in {"descend", "unwind"} /\ PlanNext
      /\ ~(pc = "order") /\ UNCHANGED <<job, repVars, i>>
  BY DEF ChainEnter, PrintChainCall, Goto, PlanNext, PlanStep
<1>1. UNCHANGED <<list, thendo, Live, Sources, Heads, p>>
  BY <1>0 DEF repVars, Live, Sources, Heads, p
<1>2. /\ IsInjective(list) /\ Heads \subseteq Sources
      /\ Threads /\ Follows /\ Placed /\ HeadsLive /\ StackInv
      /\ MoreHeads => p \in Live
      /\ Nil \notin Name /\ Live \subseteq Name
  <2>1. pc # "exit" /\ pc # "unwind" /\ Todo = {}
    BY <1>0 DEF Todo
  <2>2. QED BY <2>1, ChainFacts, PlanFacts DEF ChainInv
<1>3. Todo' = {} /\ Todo = {}
  BY <1>0 DEF Todo
<1>4. Tops = Heads /\ Tops' = Heads
  BY <1>0, <1>1 DEF Tops
<1>5. Threads' /\ Placed' /\ HeadsLive'
  BY <1>1, <1>2, <1>3, <1>4, <1>0
     DEF Threads, Acyclic, Placed, HeadsLive
<1>6. Follows'
  BY <1>0, <1>1, <1>2 DEF Follows
<1>7. StackInv'
  <2>1. CASE ChainEnter
    <3>1. stack' = <<p>> /\ MoreHeads /\ pc' = "descend"
      BY <2>1 DEF ChainEnter, Goto
    <3>2. /\ DOMAIN stack' = {1} /\ stack'[1] = p /\ Len(stack') = 1
      BY <3>1
    <3>3. QED BY <1>1, <1>2, <3>1, <3>2 DEF StackInv, IsInjective
  <2>2. CASE PrintChainCall /\ thendo[Last(stack)] = Nil
    <3>1. stack' = stack /\ pc' = "unwind" /\ pc = "descend" /\ stack # << >>
      BY <2>2 DEF PrintChainCall, PlanInv, CursorOK
    <3>2. QED BY <1>1, <1>2, <2>2, <3>1 DEF StackInv
  <2>3. CASE PrintChainCall /\ thendo[Last(stack)] # Nil
    <3> DEFINE l == Last(stack)
               n == Len(stack)
    <3>1. /\ stack' = Append(stack, thendo[l]) /\ pc' = "descend" /\ pc = "descend"
          /\ stack \in Seq(Name) /\ stack # << >>
      BY <2>3 DEF PrintChainCall, PlanInv, CursorOK, PlanTypeOK
    <3>2. n \in Nat /\ n # 0 /\ DOMAIN stack = 1..n /\ l = stack[n]
      BY <3>1, EmptySeq, LenProperties DEF Last
    <3>3. l \in Live /\ stack[1] = p
      BY <1>2, <3>1, <3>2 DEF StackInv
    <3>4. thendo[l] \in Live /\ thendo[l] \in Name
      BY <1>2, <2>3, <3>1, <3>3 DEF Follows
    <3>5. /\ Len(stack') = n + 1 /\ DOMAIN stack' = 1..(n + 1)
          /\ stack'[n + 1] = thendo[l]
          /\ \A m \in 1..n : stack'[m] = stack[m]
          /\ stack' # << >>
      <4>1. stack' \in Seq(Name)
        BY <3>1, <3>4, AppendProperties
      <4>2. QED BY <3>1, <3>2, <3>4, <4>1, AppendProperties, LenProperties
    <3>6. ASSUME NEW m \in 1..n PROVE stack[m] # thendo[l]
      <4>1. CASE m = 1
        <5>1. thendo[l] # p
          <6>1. MoreHeads
            BY <3>1 DEF PlanInv, CursorOK, MoreHeads
          <6>2. p \in Heads /\ p \in Live
            BY <1>2, <6>1, AtCursor
          <6>3. QED BY <1>2, <1>4, <3>3, <6>2 DEF Placed
        <5>2. QED BY <3>3, <4>1, <5>1
      <4>2. CASE m # 1
        <5>1. m - 1 \in DOMAIN stack /\ m - 1 < n /\ (m - 1) + 1 = m
          BY <3>2, <4>2
        <5>2. stack[m] = thendo[stack[m - 1]] /\ stack[m - 1] \in Live
          BY <1>2, <3>1, <5>1 DEF StackInv
        <5>3. stack[m - 1] # l
          BY <1>2, <3>1, <3>2, <5>1 DEF StackInv, IsInjective
        <5>4. QED BY <1>2, <2>3, <3>3, <5>2, <5>3 DEF Threads
      <4>3. QED BY <4>1, <4>2
    <3>7. IsInjective(stack')
      <4>1. ASSUME NEW a \in 1..(n + 1), NEW b \in 1..(n + 1), stack'[a] = stack'[b]
            PROVE  a = b
        <5>1. CASE a \in 1..n /\ b \in 1..n
          BY <1>2, <3>1, <3>2, <3>5, <4>1, <5>1 DEF StackInv, IsInjective
        <5>2. CASE a = n + 1 \/ b = n + 1
          BY <3>2, <3>5, <3>6, <4>1, <5>2
        <5>3. QED BY <3>2, <5>1, <5>2
      <4>2. QED BY <3>5, <4>1 DEF IsInjective
    <3>8. \A m \in DOMAIN stack' : stack'[m] \in Live
      BY <1>2, <3>1, <3>2, <3>4, <3>5 DEF StackInv
    <3>9. ASSUME NEW m \in DOMAIN stack', m < Len(stack')
          PROVE  stack'[m + 1] = thendo[stack'[m]]
      <4>1. CASE m = n
        BY <3>2, <3>5, <4>1
      <4>2. CASE m # n
        <5>1. m \in DOMAIN stack /\ m < Len(stack) /\ m + 1 \in 1..n /\ m \in 1..n
          BY <3>2, <3>5, <3>9, <4>2
        <5>2. QED BY <1>2, <3>1, <3>5, <5>1 DEF StackInv
      <4>3. QED BY <4>1, <4>2
    <3>10. stack'[1] = p
      BY <3>2, <3>3, <3>5
    <3> HIDE DEF l, n
    <3>11. QED BY <1>1, <3>1, <3>7, <3>8, <3>9, <3>10 DEF StackInv
  <2>4. QED BY <2>1, <2>2, <2>3
<1>8. FirstInv'
  BY <1>0 DEF FirstInv, EarlyPhases
<1>9. QED BY <1>0, <1>1, <1>2, <1>5, <1>6, <1>7, <1>8
          DEF ChainInv, LinkInv, EarlyPhases

\* check_duplicates refuses reps before there are any chains.
LEMMA ChainScans ==
  ASSUME PlanInv, StoreInv, ScanInv, ChainInv, ScanPair
  PROVE  ChainInv'
<1>0. /\ pc = "scan" /\ pc' = "scan"
      /\ UNCHANGED <<job, list, thendo, first>>
  BY DEF ScanPair
<1>1. UNCHANGED <<Sources, Heads>> /\ Heads = Sources
  BY <1>0 DEF Sources, Heads, StoreInv
<1>2. /\ thendo = [n \in Name |-> Nil] /\ first = [n \in Name |-> n]
      /\ Nil \notin Name /\ Sources \subseteq Name
  BY <1>0, PlanFacts DEF StoreInv
<1>3. Live' \subseteq Sources
  BY <1>1 DEF Live
<1>4. Threads'
  BY <1>0, <1>1, <1>2 DEF Threads, Acyclic
<1>5. Follows' /\ Placed' /\ HeadsLive' /\ StackInv' /\ FirstInv'
  BY <1>0, <1>1, <1>2, <1>3 DEF Follows, Placed, HeadsLive, StackInv, FirstInv,
         Tops, Todo, EarlyPhases
<1>6. QED BY <1>0, <1>1, <1>2, <1>4, <1>5 DEF ChainInv, LinkInv

\* findorder closes a cycle, or finds that a head has to wait.
LEMMA ChainTurns ==
  ASSUME PlanInv, StoreInv, ScanInv, ChainInv, OrderCycle \/ OrderWait
  PROVE  ChainInv'
<1>0. /\ pc = "order" /\ pc' \in {"order", "walk"} /\ PlanNext /\ MoreHeads
      /\ p \notin skip /\ Waits(p)
      /\ UNCHANGED <<job, list, thendo, first, fiRep>>
      /\ pc' = "walk" => /\ head' = first[Pred(p)] /\ walk' = Pred(p)
                         /\ first[Pred(p)] # p /\ i' = i
  BY DEF OrderCycle, OrderWait, Goto, PlanNext, PlanStep
<1>1. UNCHANGED <<Live, Sources, Heads>>
  BY <1>0 DEF Live, Sources, Heads
<1>2. /\ IsInjective(list) /\ Heads \subseteq Sources
      /\ Threads /\ Follows /\ Placed /\ HeadsLive
      /\ \A x \in Name : thendo[x] # Nil => x \in Live
  BY <1>0, ChainFacts DEF ChainInv, EarlyPhases
<1>3. p \in Live
  BY <1>0, <1>2, AtCursor DEF StoreInv, EarlyPhases
<1>4. Todo' = Todo \ {p}
  BY <1>0, <1>2, TodoStep
<1>5. Tops = Heads /\ Tops' = Heads
  BY <1>0, <1>1 DEF Tops
<1>6. Threads' /\ Follows' /\ Placed' /\ HeadsLive' /\ StackInv'
  BY <1>0, <1>1, <1>2, <1>3, <1>4, <1>5
     DEF Threads, Acyclic, Follows, Placed, HeadsLive, StackInv
<1>7. Pred(p) \in Live
  <2>1. p \in Name /\ fdel[p] \in Name \cup {Nil} /\ Sources \subseteq Name
    BY <1>0, AtCursor, PlanFacts
  <2>2. fdel[p] \in Name /\ fiRep[fdel[p]] \notin {Nil, Mistake}
    BY <1>0, <2>1 DEF Waits, Pred
  <2>3. fdel[p] \in Sources /\ fiRep[fdel[p]] = fdel[p]
    BY <2>2 DEF StoreInv
  <2>4. QED BY <2>3 DEF Live, Pred
<1>8. FirstInv'
  <2>1. UNCHANGED p \/ pc' = "order"
    BY <1>0 DEF p
  <2>2. QED BY <1>0, <1>1, <1>5, <1>7, <2>1 DEF ChainInv, FirstInv, EarlyPhases
<1>9. QED BY <1>0, <1>1, <1>2, <1>6, <1>8 DEF ChainInv, LinkInv, EarlyPhases
\* findorder runs along pred's chain and hangs p behind its end.
LEMMA ChainWalks ==
  ASSUME PlanInv, StoreInv, ScanInv, ChainInv, WalkChain
  PROVE  ChainInv'
<1>0. /\ pc = "walk" /\ PlanNext /\ MoreHeads
      /\ UNCHANGED <<job, list, first, fiRep, i, head>>
      /\ walk \in Name
  BY DEF WalkChain, PlanNext, PlanStep, PlanInv, CursorOK, MoreHeads
<1>1. UNCHANGED <<Live, Sources, Heads, p>>
  BY <1>0 DEF Live, Sources, Heads, p
<1>2. /\ IsInjective(list) /\ Heads \subseteq Sources
      /\ Threads /\ Follows /\ Placed /\ HeadsLive
      /\ \A x \in Name : thendo[x] # Nil => x \in Live
      /\ \A x \in Name : thendo[x] # x
      /\ p \in Live /\ p \in Heads
  BY <1>0, ChainFacts, TodoFacts, AtCursor DEF ChainInv, EarlyPhases
<1>3. /\ Nil \notin Name /\ Live \subseteq Name /\ Sources \subseteq Name
      /\ Live \subseteq Sources
      /\ thendo \in [Name -> Name \cup {Nil}]
  BY PlanFacts
<1>4. UNCHANGED Todo
  <2>1. pc' # "exit"
    BY <1>0 DEF WalkChain
  <2>2. QED BY <1>0, <1>2, <2>1, TodoStep
<1>5. /\ walk \in Live /\ first[walk] = head /\ head # p
      /\ \A h \in Heads : first[h] = h
      /\ \A x \in Live : thendo[x] # Nil => first[thendo[x]] = first[x]
  BY <1>0 DEF ChainInv, FirstInv, EarlyPhases, Tops
<1>6. CASE thendo[walk] # Nil
  <2>1. pc' = "walk" /\ walk' = thendo[walk] /\ thendo' = thendo
    BY <1>0, <1>6 DEF WalkChain, AtChainEnd
  <2>2. walk' \in Live /\ first[walk'] = head
    BY <1>0, <1>2, <1>5, <1>6, <2>1 DEF Follows
  <2>3. Threads' /\ Follows' /\ Placed' /\ HeadsLive' /\ StackInv'
    BY <1>0, <1>1, <1>2, <1>4, <2>1
       DEF Threads, Acyclic, Follows, Placed, Tops, HeadsLive, StackInv
  <2>4. FirstInv'
    BY <1>0, <1>1, <1>5, <2>1, <2>2 DEF FirstInv, EarlyPhases, Tops
  <2>5. QED BY <1>0, <1>1, <1>2, <2>1, <2>3, <2>4
            DEF ChainInv, LinkInv, EarlyPhases
<1>7. CASE thendo[walk] = Nil
  <2>1. /\ pc' = "firsts" /\ walk' = p
        /\ thendo' = [thendo EXCEPT ![walk] = p]
    BY <1>0, <1>7 DEF WalkChain, AtChainEnd
  <2>2. \A x \in Name : thendo'[x] = IF x = walk THEN p ELSE thendo[x]
    BY <1>3, <2>1
  <2>3. \A x \in Name : thendo[x] # p
    BY <1>0, <1>2, <1>3 DEF Placed, Tops
  <2>4. walk # p
    BY <1>2, <1>5
  <2>5. ASSUME NEW T \in SUBSET Sources, T # {}
        PROVE  \E x \in T : \A y \in T : thendo'[y] # x
    <3> DEFINE A == {x \in T : first[x] # p}
    <3>1. CASE A # {}
      <4>1. PICK x \in A : \A y \in A : thendo[y] # x
        BY <1>2, <3>1 DEF Threads, Acyclic
      <4>2. ASSUME NEW y \in T, thendo'[y] = x
            PROVE  FALSE
        <5>1. y # walk
          BY <1>2, <1>3, <1>5, <2>2, <4>1, <4>2
        <5>2. thendo[y] = x /\ x \in Name /\ y \in Name
          BY <1>3, <2>2, <4>1, <4>2, <5>1
        <5>3. first[y] = first[x]
          BY <1>2, <1>3, <1>5, <5>2
        <5>4. QED BY <4>1, <4>2, <5>2, <5>3
      <4>3. QED BY <4>1, <4>2
    <3>2. CASE A = {}
      <4>1. walk \notin T
        BY <1>5, <3>2
      <4>2. QED BY <1>2, <1>3, <2>2, <2>5, <4>1 DEF Threads, Acyclic
    <3>3. QED BY <3>1, <3>2
  <2>6. \A x \in Name : thendo'[x] # Nil => x \in Sources /\ thendo'[x] \in Sources
    BY <1>2, <1>3, <1>5, <2>2 DEF Threads
  <2>7. \A x, y \in Name : thendo'[x] # Nil /\ thendo'[x] = thendo'[y] => x = y
    BY <1>2, <2>2, <2>3 DEF Threads
  <2>8. Threads'
    BY <1>1, <2>5, <2>6, <2>7 DEF Threads, Acyclic
  <2>9. Follows'
    BY <1>0, <1>1, <1>2, <1>3, <2>2 DEF Follows
  <2>10. Placed'
    <3>1. Tops' = Heads \ {p} /\ Tops = Heads
      BY <1>0, <1>1, <2>1 DEF Tops
    <3>2. ASSUME NEW r \in Live
          PROVE  r \in Heads \ {p} <=> \A x \in Live : thendo'[x] # r
      <4>1. CASE r = p
        BY <1>3, <1>5, <2>2, <4>1
      <4>2. CASE r # p
        <5>1. \A x \in Live : thendo'[x] = r <=> thendo[x] = r
          BY <1>3, <1>7, <2>2, <4>2
        <5>2. QED BY <1>2, <3>1, <3>2, <4>2, <5>1 DEF Placed
      <4>3. QED BY <4>1, <4>2
    <3>3. QED BY <1>1, <3>1, <3>2 DEF Placed
  <2>11. HeadsLive' /\ StackInv'
    BY <1>0, <1>1, <1>2, <1>4, <2>1 DEF HeadsLive, StackInv
  <2>12. FirstInv'
    <3>1. ASSUME NEW x \in Live, thendo'[x] # Nil
          PROVE  IF thendo'[x] = p THEN first[x] = head
                 ELSE first[thendo'[x]] = first[x]
      BY <1>3, <1>5, <2>2, <2>3, <3>1
    <3>2. first[p] = p
      BY <1>2, <1>5
    <3>3. QED BY <1>0, <1>1, <1>2, <1>5, <2>1, <3>1, <3>2
              DEF FirstInv, EarlyPhases, Tops
  <2>13. \A x \in Name : thendo'[x] # Nil => x \in Live
    BY <1>2, <1>5, <2>2
  <2>14. QED BY <1>0, <1>1, <1>2, <2>1, <2>8, <2>9, <2>10, <2>11, <2>12, <2>13
             DEF ChainInv, LinkInv
<1>8. QED BY <1>6, <1>7

\* The chain that was hung gets the head it now has.
LEMMA ChainUpdates ==
  ASSUME PlanInv, StoreInv, ScanInv, ChainInv, UpdateFirst
  PROVE  ChainInv'
<1>0. /\ pc = "firsts" /\ pc' = "firsts" /\ PlanNext /\ walk # Nil
      /\ UNCHANGED <<job, list, thendo, fiRep, i, head>>
      /\ walk' = thendo[walk] /\ first' = [first EXCEPT ![walk] = head]
  BY DEF UpdateFirst, FirstMoved, PlanNext, PlanStep
<1>1. UNCHANGED <<Live, Sources, Heads, p>>
  BY <1>0 DEF Live, Sources, Heads, p
<1>2. /\ IsInjective(list) /\ Heads \subseteq Sources
      /\ Threads /\ Follows /\ Placed /\ HeadsLive
      /\ \A x \in Name : thendo[x] # Nil => x \in Live
      /\ \A x \in Name : thendo[x] # x
  BY <1>0, ChainFacts DEF ChainInv, EarlyPhases
<1>3. /\ Nil \notin Name /\ Live \subseteq Name /\ Sources \subseteq Name
      /\ first \in [Name -> Name] /\ Tops = Heads \ {p} /\ Tops' = Heads \ {p}
  BY <1>0, <1>1, PlanFacts DEF Tops
<1>4. UNCHANGED Todo
  BY <1>0, <1>2, TodoStep
<1>5. /\ walk \in Live /\ first[walk] = p /\ head # p
      /\ \A h \in Heads \ {p} : first[h] = h
      /\ \A x \in Live : thendo[x] # Nil =>
               IF thendo[x] = walk THEN first[x] = head
               ELSE first[thendo[x]] = first[x]
  BY <1>0, <1>3 DEF ChainInv, FirstInv, EarlyPhases
<1>6. Threads' /\ Follows' /\ Placed' /\ HeadsLive' /\ StackInv'
  BY <1>0, <1>1, <1>2, <1>3, <1>4
     DEF Threads, Acyclic, Follows, Placed, HeadsLive, StackInv
<1>7. \A x \in Name : first'[x] = IF x = walk THEN head ELSE first[x]
  BY <1>0, <1>3
<1>8. walk' # Nil => walk' \in Live /\ first'[walk'] = p
  BY <1>0, <1>2, <1>3, <1>5, <1>7 DEF Follows
<1>9. ASSUME NEW x \in Live, thendo[x] # Nil
      PROVE  IF thendo[x] = walk' THEN first'[x] = head
             ELSE first'[thendo[x]] = first'[x]
  <2>1. thendo[x] \in Name /\ x \in Name /\ thendo[x] # x
    BY <1>2, <1>3, <1>9 DEF Threads
  <2>2. CASE x = walk
    BY <1>0, <1>7, <2>1, <2>2
  <2>3. CASE x # walk
    <3>1. thendo[x] # walk'
      BY <1>0, <1>2, <1>3, <1>5, <1>9, <2>1, <2>3 DEF Threads
    <3>2. QED BY <1>5, <1>7, <1>9, <2>1, <2>3, <3>1
  <2>4. QED BY <2>2, <2>3
<1>10. \A h \in Heads \ {p} : first'[h] = h
  BY <1>2, <1>3, <1>5, <1>7
<1>11. FirstInv'
  BY <1>0, <1>1, <1>3, <1>5, <1>8, <1>9, <1>10 DEF FirstInv, EarlyPhases
<1>12. QED BY <1>0, <1>1, <1>2, <1>6, <1>11 DEF ChainInv, LinkInv

\* A head is unlinked: a refused one, or one that hangs behind another rep.
LEMMA ChainUnlinks ==
  ASSUME PlanInv, StoreInv, ScanInv, ChainInv,
         OrderSkip \/ UnlinkHead \/ ChainUnlink
  PROVE  ChainInv'
<1>0. /\ pc \in {"order", "firsts", "unwind"} /\ pc' \in {"order", "chains"}
      /\ pc \in {"order", "firsts"} => pc' = "order"
      /\ pc' = "order" => pc \in EarlyPhases
      /\ PlanNext /\ MoreHeads
      /\ UNCHANGED <<job, thendo, first, fiRep, i>>
      /\ list' = RemoveAt(list, i)
      /\ pc = "order" => p \in skip
      /\ pc = "firsts" => walk = Nil
      /\ pc = "unwind" => stack = << >>
  BY DEF OrderSkip, UnlinkHead, ChainUnlink, PlanNext, PlanStep, Goto, planVars,
         PlanInv, CursorOK, MoreHeads, EarlyPhases
<1>1. UNCHANGED <<Live, Sources>>
  BY <1>0 DEF Live, Sources
<1>2. /\ IsInjective(list) /\ Heads \subseteq Sources
      /\ Threads /\ Follows /\ Placed /\ HeadsLive /\ StackInv
      /\ pc \in EarlyPhases => \A x \in Name : thendo[x] # Nil => x \in Live
  BY <1>0, ChainFacts DEF ChainInv
<1>3. /\ Nil \notin Name /\ Live \subseteq Name
      /\ list \in Seq(Name) /\ i \in 1..Len(list) /\ p = list[i]
  BY <1>0, PlanFacts, AtCursor DEF p
<1>4. IsInjective(list') /\ Heads' = Heads \ {p}
  BY <1>0, <1>2, <1>3, RemoveAtRange DEF Heads
<1>5. pc # "firsts" => p \notin Live
  BY <1>0, <1>2 DEF StoreInv, StackInv
<1>6. Todo' = IF pc = "order" THEN Todo \ {p} ELSE Todo
  BY <1>0, <1>2, TodoStep
<1>7. Tops' = Heads \ {p} /\ (pc # "firsts" => Tops = Heads)
  BY <1>0, <1>4 DEF Tops
<1>8. Threads' /\ StackInv'
  BY <1>0, <1>1, <1>2 DEF Threads, Acyclic, StackInv
<1>9. Follows'
  BY <1>0, <1>1, <1>2 DEF Follows
<1>10. Placed'
  <2>1. pc = "firsts" => Tops = Heads \ {p}
    BY DEF Tops
  <2>2. QED BY <1>0, <1>1, <1>2, <1>5, <1>7, <2>1 DEF Placed
<1>11. HeadsLive'
  BY <1>0, <1>1, <1>2, <1>4, <1>6 DEF HeadsLive
<1>12. FirstInv'
  <2>1. CASE pc' = "chains"
    BY <2>1 DEF FirstInv, EarlyPhases
  <2>2. CASE pc' = "order"
    <3>1. \A h \in Heads \ {p} : first[h] = h
      BY <1>0, <1>7, <2>2 DEF ChainInv, FirstInv, Tops
    <3>2. \A x \in Live : thendo[x] # Nil => first[thendo[x]] = first[x]
      BY <1>0, <2>2 DEF ChainInv, FirstInv, EarlyPhases
    <3>3. QED BY <1>0, <1>1, <1>7, <2>2, <3>1, <3>2 DEF FirstInv, EarlyPhases
  <2>3. QED BY <1>0, <2>1, <2>2
<1>13. QED BY <1>0, <1>1, <1>2, <1>4, <1>8, <1>9, <1>10, <1>11, <1>12
           DEF ChainInv, LinkInv, EarlyPhases
\* printchain returns: the rep of its record is refused.
LEMMA ChainReturns ==
  ASSUME PlanInv, StoreInv, ScanInv, ChainInv, PrintChainReturn
  PROVE  ChainInv'
<1> DEFINE l == Last(stack)
           n == Len(stack)
<1>0. /\ pc = "unwind" /\ pc' = "unwind" /\ MoreHeads /\ stack # << >>
      /\ UNCHANGED <<job, list, thendo, i>>
      /\ fiRep' = [fiRep EXCEPT ![l] = Mistake]
      /\ stack' = Front(stack) /\ stack \in Seq(Name)
  BY DEF PrintChainReturn, Refuse, PlanInv, CursorOK, PlanTypeOK, MoreHeads
<1>1. /\ n \in Nat /\ n # 0 /\ DOMAIN stack = 1..n /\ l = stack[n]
      /\ l \in Name
  BY <1>0, EmptySeq, LenProperties, FrontProperties DEF Last
<1>2. /\ stack' \in Seq(Name) /\ Len(stack') = n - 1
      /\ DOMAIN stack' = 1..(n - 1)
      /\ \A m \in 1..(n - 1) : stack'[m] = stack[m]
  <2>1. \A m \in 1..(n - 1) : stack[m] \in Name
    BY <1>0, <1>1, ElementOfSeq
  <2>2. stack' = SubSeq(stack, 1, n - 1)
    BY <1>0 DEF Front
  <2>3. /\ stack' \in Seq(Name)
        /\ Len(stack') = IF 1 <= n - 1 THEN (n - 1) - 1 + 1 ELSE 0
        /\ \A m \in 1..((n - 1) - 1 + 1) : stack'[m] = stack[1 + m - 1]
    BY <1>1, <2>1, <2>2, SubSeqProperties
  <2>4. (n - 1) - 1 + 1 = n - 1 /\ (~(1 <= n - 1) => n - 1 = 0)
        /\ \A m \in 1..(n - 1) : 1 + m - 1 = m
    BY <1>1
  <2>5. Len(stack') = n - 1
    BY <2>3, <2>4
  <2>6. DOMAIN stack' = 1..(n - 1)
    BY <2>3, <2>5, LenProperties
  <2>7. \A m \in 1..(n - 1) : stack'[m] = stack[m]
    BY <2>3, <2>4
  <2>8. QED BY <2>3, <2>5, <2>6, <2>7
<1>3. /\ IsInjective(list) /\ Heads \subseteq Sources
      /\ Threads /\ Follows /\ Placed /\ HeadsLive /\ StackInv
      /\ \A x \in Name : thendo[x] # x
  BY <1>0, ChainFacts DEF ChainInv
<1>4. /\ Nil \notin Name /\ Live \subseteq Name /\ p \in Heads /\ p \in Name
  BY <1>0, PlanFacts, AtCursor
<1>5. UNCHANGED <<Sources, Heads, p>> /\ Tops = Heads /\ Tops' = Heads
      /\ Todo = {} /\ Todo' = {}
  BY <1>0 DEF Sources, Heads, p, Tops, Todo
<1>6. Live' = Live \ {l}
  BY <1>0, <1>1, RefusedLive
<1> HIDE DEF l, n
<1>7. /\ \A m \in 1..n : stack[m] \in Live
      /\ stack[1] = p
      /\ \A m \in 1..n : m < n => stack[m + 1] = thendo[stack[m]]
      /\ \A a, b \in 1..n : stack[a] = stack[b] => a = b
      /\ thendo[l] \notin Live
  BY <1>0, <1>1, <1>3 DEF StackInv, IsInjective, l, n
<1>8. Threads'
  BY <1>0, <1>3, <1>5 DEF Threads, Acyclic
<1>9. ASSUME NEW r \in Live \ {l}
      PROVE  thendo[l] # r
  BY <1>7
<1>10. Placed'
  BY <1>0, <1>3, <1>5, <1>6, <1>9 DEF Placed
<1>11. Follows' /\ StackInv' /\ HeadsLive'
  <2>1. CASE n = 1
    <3>1. l = p /\ DOMAIN stack' = {} /\ stack' = << >>
      BY <1>1, <1>2, <1>7, <2>1, EmptySeq
    <3>2. \A x \in Live : thendo[x] # p
      BY <1>1, <1>3, <1>4, <1>5, <1>7, <3>1 DEF Placed
    <3>3. Follows'
      BY <1>0, <1>3, <1>5, <1>6, <3>1, <3>2 DEF Follows, l
    <3>4. StackInv'
      BY <1>0, <1>5, <1>6, <3>1 DEF StackInv, IsInjective
    <3>5. HeadsLive'
      BY <1>0, <1>3, <1>5, <1>6, <3>1 DEF HeadsLive
    <3>6. QED BY <3>3, <3>4, <3>5
  <2>2. CASE n # 1
    <3> DEFINE q == stack[n - 1]
    <3>1. n - 1 \in 1..n /\ n \in 1..n /\ n - 1 < n /\ (n - 1) + 1 = n
      BY <1>1, <2>2
    <3>2. q \in Live /\ thendo[q] = l /\ l \in Live
      BY <1>1, <1>7, <3>1
    <3>3. l \notin Heads
      BY <1>3, <1>5, <3>2 DEF Placed
    <3>4. stack' # << >> /\ Last(stack') = q
      BY <1>1, <1>2, <2>2 DEF Last
    <3>5. Follows'
      <4>1. ASSUME NEW x \in Live', thendo[x] \notin Live' \cup {Nil}
            PROVE  x = q
        BY <1>3, <1>4, <1>6, <3>2, <4>1 DEF Follows, Threads, l
      <4>2. stack' # << >> /\ q = Last(stack')
        BY <3>4
      <4> HIDE DEF q
      <4>3. QED BY <1>0, <4>1, <4>2 DEF Follows
    <3>6. HeadsLive'
      BY <1>0, <1>3, <1>5, <1>6, <3>3 DEF HeadsLive
    <3>7. StackInv'
      <4>1. \A m \in 1..(n - 1) : m \in 1..n /\ m # n /\ (m < n - 1 => m < n /\ m + 1 \in 1..(n - 1))
        BY <1>1
      <4>2. \A m \in 1..(n - 1) : stack'[m] \in Live'
        BY <1>1, <1>2, <1>6, <1>7, <3>1, <4>1
      <4>3. \A m \in 1..(n - 1) : m < n - 1 => stack'[m + 1] = thendo[stack'[m]]
        BY <1>2, <1>7, <4>1
      <4>4. IsInjective(stack')
        BY <1>2, <1>7, <4>1 DEF IsInjective
      <4>5. stack'[1] = p
        BY <1>1, <1>2, <1>7, <2>2
      <4>6. thendo[Last(stack')] \notin Live'
        BY <1>6, <3>2, <3>4
      <4> HIDE DEF q
      <4>7. QED BY <1>0, <1>2, <1>5, <3>4, <4>2, <4>3, <4>4, <4>5, <4>6 DEF StackInv
    <3>8. QED BY <3>5, <3>6, <3>7
  <2>3. QED BY <2>1, <2>2
<1>12. FirstInv'
  BY <1>0 DEF FirstInv, EarlyPhases
<1>13. QED BY <1>0, <1>3, <1>5, <1>8, <1>10, <1>11, <1>12
           DEF ChainInv, LinkInv, EarlyPhases

\* scandeletes refuses a head; what waits for it comes to the front.
LEMMA ChainRefuses ==
  ASSUME PlanInv, StoreInv, ScanInv, ChainInv, BadDelRefuse \/ SkipDelNo
  PROVE  ChainInv'
<1>0. /\ pc \in {"baddel", "skipdel"} /\ pc' = pc /\ MoreHeads
      /\ UNCHANGED <<job, thendo, i>>
      /\ fiRep' = [fiRep EXCEPT ![p] = Mistake]
      /\ list' = IF thendo[p] = Nil THEN RemoveAt(list, i)
                 ELSE ReplaceAt(list, i, thendo[p])
  BY DEF BadDelRefuse, SkipDelNo, RefuseHead, Refuse, TakesOver, DelTested
<1>1. /\ IsInjective(list) /\ Heads \subseteq Sources
      /\ Threads /\ Follows /\ Placed /\ HeadsLive
      /\ \A x \in Name : thendo[x] # x
  BY <1>0, ChainFacts DEF ChainInv
<1>2. /\ Nil \notin Name /\ Live \subseteq Name /\ p \in Heads /\ p \in Name
      /\ list \in Seq(Name) /\ i \in 1..Len(list) /\ p = list[i]
      /\ Live \subseteq Sources
  BY <1>0, PlanFacts, AtCursor DEF p
<1>3. UNCHANGED Sources /\ Tops = Heads /\ Tops' = Heads'
      /\ Todo = {} /\ Todo' = {}
  BY <1>0 DEF Sources, Tops, Todo
<1>4. Live' = Live \ {p}
  BY <1>0, <1>2, RefusedLive
<1>5. p \in Live
  BY <1>0, <1>1, <1>2, <1>3 DEF HeadsLive
<1>6. \A x \in Live : thendo[x] # p
  BY <1>1, <1>2, <1>3, <1>5 DEF Placed
<1>7. IsInjective(list') /\ Heads' = (Heads \ {p}) \cup ({thendo[p]} \ {Nil})
  <2>1. CASE thendo[p] = Nil
    BY <1>0, <1>1, <1>2, <2>1, RemoveAtRange DEF Heads
  <2>2. CASE thendo[p] # Nil
    <3>1. thendo[p] \in Live
      BY <1>0, <1>1, <1>5, <2>2 DEF Follows
    <3>2. thendo[p] \notin Heads /\ thendo[p] \in Name
      BY <1>1, <1>2, <1>3, <1>5, <3>1 DEF Placed
    <3>3. QED BY <1>0, <1>1, <1>2, <2>2, <3>2, ReplaceAtRange DEF Heads
  <2>3. QED BY <2>1, <2>2
<1>8. Threads'
  BY <1>0, <1>1, <1>3 DEF Threads, Acyclic
<1>9. Follows'
  BY <1>0, <1>1, <1>4, <1>6 DEF Follows
<1>10. Placed'
  <2>1. ASSUME NEW r \in Live, r # p
        PROVE  r \in Heads' <=> \A x \in Live \ {p} : thendo[x] # r
    <3>1. CASE r = thendo[p]
      <4>1. \A x \in Live \ {p} : thendo[x] # r
        BY <1>1, <1>2, <2>1, <3>1 DEF Threads
      <4>2. QED BY <1>2, <1>7, <3>1, <4>1
    <3>2. CASE r # thendo[p]
      BY <1>1, <1>3, <1>5, <1>7, <2>1, <3>2 DEF Placed
    <3>3. QED BY <3>1, <3>2
  <2>2. QED BY <1>0, <1>3, <1>4, <2>1 DEF Placed
<1>11. HeadsLive'
  <2>1. thendo[p] \in Live \cup {Nil}
    BY <1>0, <1>1, <1>5 DEF Follows
  <2>2. QED BY <1>1, <1>2, <1>3, <1>4, <1>7, <2>1, <1>0 DEF HeadsLive
<1>12. StackInv' /\ FirstInv'
  BY <1>0 DEF StackInv, FirstInv, EarlyPhases
<1>13. Heads' \subseteq Sources
  BY <1>1, <1>2, <1>5, <1>7 DEF Threads
<1>14. QED BY <1>0, <1>3, <1>7, <1>8, <1>9, <1>10, <1>11, <1>12, <1>13
           DEF ChainInv, LinkInv, EarlyPhases

\* Every step of planning keeps the chains in shape.
LEMMA ChainStep ==
  PlanInv /\ StoreInv /\ ScanInv /\ ChainInv /\ [PlanNext]_vars => ChainInv'
<1> SUFFICES ASSUME PlanInv, StoreInv, ScanInv, ChainInv, [PlanNext]_vars
             PROVE  ChainInv'
  OBVIOUS
<1>1. CASE pc' = "exit"
  BY <1>1 DEF ChainInv, LinkInv, FirstInv, EarlyPhases
<1>2. CASE UNCHANGED vars
  <2>1. UNCHANGED <<job, repVars, pc, planVars>>
    BY <1>2 DEF vars
  <2>2. UNCHANGED <<Live, Sources, Heads, Tops, Todo, p>>
    BY <2>1 DEF repVars, planVars, Live, Sources, Heads, Tops, Todo, p
  <2>3. LinkInv'
    BY <2>1, <2>2 DEF ChainInv, LinkInv, Threads, Acyclic, Follows, Placed,
                      HeadsLive, StackInv, repVars, planVars
  <2>4. FirstInv'
    BY <2>1, <2>2 DEF ChainInv, FirstInv, repVars, planVars
  <2>5. QED BY <2>3, <2>4 DEF ChainInv
<1>3. CASE PlanNext /\ pc' # "exit"
  BY <1>3, ChainQuiet, ChainDescends, ChainScans, ChainTurns, ChainWalks,
     ChainUpdates, ChainUnlinks, ChainReturns, ChainRefuses
     DEF PlanNext, PlanStep, QuietStep
<1>4. QED BY <1>1, <1>2, <1>3
-----------------------------------------------------------------------------
(***************************************************************************)
(* The counters.                                                           *)
(***************************************************************************)
\* What check_duplicates is about to refuse has not been refused before.
LEMMA ScannedLive ==
  ASSUME PlanInv, StoreInv, ScanInv, pc = "scan", i <= Len(rd)
  PROVE  rd[i] \in Live
<1>1. i \in 1..Len(rd) /\ Len(rd) \in Nat /\ DOMAIN rd = 1..Len(rd)
  BY LenProperties DEF PlanInv, PlanTypeOK, CursorOK
<1>2. rd[i] \in Sources
  BY <1>1 DEF ScanInv, Range
<1>3. rd[i] \notin skip
  <2>1. \A a \in 1..(i - 1) : a \in 1..Len(rd) /\ a # i
    BY <1>1
  <2>2. \A a \in 1..(i - 1) : rd[a] # rd[i]
    BY <1>1, <2>1 DEF ScanInv, IsInjective
  <2>3. QED BY <2>2 DEF ScanInv
<1>4. QED BY <1>2, <1>3 DEF StoreInv, EarlyPhases

\* As many reps were given as there are sources.
LEMMA SourcesCounted ==
  ASSUME PlanInv
  PROVE  IsFiniteSet(Sources) /\ Cardinality(Sources) = Len(job.reps)
<1>0. /\ job.reps \in Seq(Name) /\ IsInjective(job.reps) /\ Len(job.reps) \in Nat
      /\ DOMAIN job.reps = 1..Len(job.reps)
  BY PlanFacts, LenProperties DEF Job
<1>1. job.reps \in [1..Len(job.reps) -> Sources]
  <2>1. job.reps = [n \in DOMAIN job.reps |-> job.reps[n]]
    BY <1>0
  <2>2. QED BY <1>0, <2>1 DEF Sources, Range
<1>2. job.reps \in Bijection(1..Len(job.reps), Sources)
  <2>1. \A a, b \in 1..Len(job.reps) : job.reps[a] = job.reps[b] => a = b
    BY <1>0 DEF IsInjective
  <2>2. \A r \in Sources : \E n \in 1..Len(job.reps) : job.reps[n] = r
    BY <1>0 DEF Sources, Range
  <2>3. QED BY <1>1, <2>1, <2>2, Fun_IsBij
<1>3. ExistsBijection(1..Len(job.reps), Sources)
  BY <1>2 DEF ExistsBijection
<1>4. IsFiniteSet(1..Len(job.reps)) /\ Cardinality(1..Len(job.reps)) = Len(job.reps)
  BY <1>0, FS_Interval
<1>5. QED BY <1>3, <1>4, FS_Bijection

\* When planning starts there are as many reps as sources.
LEMMA AccountsInit == PlanInit => AccountsBalance
<1> SUFFICES ASSUME PlanInit PROVE AccountsBalance
  OBVIOUS
<1>1. PlanInv
  BY PlanInvInit
<1>2. /\ nreps = Len(job.reps) /\ badreps = Cardinality(job.bad)
      /\ list = job.reps /\ Live = Sources
  BY <1>1, PlanFacts DEF PlanInit, RepInit, RepStart, Live
<1>3. QED BY <1>1, <1>2, SourcesCounted DEF AccountsBalance

\* A rep is counted out when it is refused, and only once.
LEMMA AccountsStep ==
  PlanInv /\ StoreInv /\ ScanInv /\ ChainInv /\ AccountsBalance /\ [PlanNext]_vars
    => AccountsBalance'
<1> SUFFICES ASSUME PlanInv, StoreInv, ScanInv, ChainInv, AccountsBalance,
                    [PlanNext]_vars
             PROVE  AccountsBalance'
  OBVIOUS
<1> DEFINE Asking == {"skipdel", "doreps", "exit"}
<1>0. /\ IsFiniteSet(Live) /\ Cardinality(Live) \in Nat
      /\ nreps \in Int /\ badreps \in Nat
  <2>1. IsFiniteSet(Live)
    BY PlanFacts, FS_Subset
  <2>2. QED BY <2>1, FS_CardinalityType DEF PlanInv, PlanTypeOK, RepTypeOK
<1>a. pc \in Asking => pc' \in Asking
  BY DEF PlanNext, PlanStep, CheckCollisions, ScanPair, ScanDone, OrderSkip,
         OrderFree, OrderCycle, OrderWait, WalkChain, UpdateFirst, UnlinkHead,
         OrderDone, ChainKeep, ChainEnter, PrintChainCall, PrintChainReturn,
         ChainUnlink, ChainsDone, DelNothing, BadDelKeep, BadDelRefuse, BadDelDone,
         GoOn, OrDie, SkipDelYes, SkipDelNo, SkipDelQuit, SkipDelDone, Breakout,
         KeepHead, RefuseHead, Goto, Exit, vars
<1>r. ASSUME NEW r \in Live, UNCHANGED job, nreps' = nreps - 1,
             fiRep' = [fiRep EXCEPT ![r] = Mistake],
             badreps' = badreps + 1 \/ pc = "skipdel"
      PROVE  AccountsBalance'
  <2>1. Live' = Live \ {r}
    <3>1. r \in Name
      BY PlanFacts
    <3>2. QED BY <1>r, <3>1, RefusedLive
  <2>2. Cardinality(Live') = Cardinality(Live) - 1
    BY <1>0, <2>1, FS_RemoveElement
  <2>3. QED BY <1>0, <1>a, <1>r, <2>2 DEF AccountsBalance
<1>1. CASE ScanPair
  <2>1. UNCHANGED <<job, pc>> /\ pc = "scan" /\ i <= Len(rd)
    BY <1>1 DEF ScanPair
  <2>2. CASE UNCHANGED <<fiRep, nreps, badreps>>
    BY <2>1, <2>2 DEF AccountsBalance, Live, Sources
  <2>3. CASE MarkCollision(rd[i])
    BY <1>r, <2>1, <2>3, ScannedLive DEF MarkCollision
  <2>4. QED BY <1>1, <2>2, <2>3 DEF ScanPair
<1>2. CASE PrintChainReturn
  <2>1. /\ UNCHANGED job /\ nreps' = nreps - 1 /\ badreps' = badreps + 1
        /\ fiRep' = [fiRep EXCEPT ![Last(stack)] = Mistake]
        /\ pc = "unwind" /\ stack # << >>
    BY <1>2 DEF PrintChainReturn, Refuse
  <2>2. Last(stack) \in Live
    <3>1. Len(stack) \in DOMAIN stack
      BY <2>1, EmptySeq, LenProperties DEF PlanInv, PlanTypeOK
    <3>2. QED BY <2>1, <3>1 DEF ChainInv, LinkInv, StackInv, Last
  <2>3. QED BY <1>r, <2>1, <2>2
<1>3. CASE BadDelRefuse \/ SkipDelNo
  <2>1. /\ UNCHANGED job /\ nreps' = nreps - 1 /\ MoreHeads
        /\ badreps' = badreps + 1 \/ pc = "skipdel"
        /\ fiRep' = [fiRep EXCEPT ![p] = Mistake]
        /\ pc \in {"baddel", "skipdel"}
    BY <1>3 DEF BadDelRefuse, SkipDelNo, RefuseHead, Refuse, DelTested
  <2>2. p \in Live
    <3>1. p \notin Todo
      BY <2>1 DEF Todo
    <3>2. QED BY <2>1, <3>1, ChainFacts DEF ChainInv
  <2>3. QED BY <1>r, <2>1, <2>2
<1>4. CASE \/ OrderSkip \/ OrderCycle \/ OrderWait \/ WalkChain \/ UpdateFirst
           \/ UnlinkHead \/ ChainUnlink
  <2>1. UNCHANGED <<job, fiRep, nreps, badreps>>
    BY <1>4 DEF OrderSkip, OrderCycle, OrderWait, WalkChain, UpdateFirst,
                UnlinkHead, ChainUnlink
  <2>2. QED BY <1>a, <2>1 DEF AccountsBalance, Live, Sources
<1>5. CASE QuietStep \/ UNCHANGED vars
  <2>1. UNCHANGED <<job, fiRep, nreps, badreps>>
    BY <1>5, QuietSteps DEF Quietly, repVars, vars
  <2>2. QED BY <1>a, <2>1 DEF AccountsBalance, Live, Sources
<1>6. QED
  BY <1>1, <1>2, <1>3, <1>4, <1>5 DEF PlanNext, PlanStep, QuietStep

\* The chains keep their shape through the whole of planning.
LEMMA ChainsKept == PlanSpec => [](PlanInv /\ StoreInv /\ ScanInv /\ ChainInv)
<1>1. PlanSpec => []PlanInv
  BY PlanInvariant DEF PlanInv
<1>2. PlanSpec => []StoreInv
  BY <1>1, StoreInit, StoreStep, PTL DEF PlanSpec
<1>3. PlanSpec => []ScanInv
  BY <1>1, ScanInvInit, ScanInvStep, PTL DEF PlanSpec
<1>4. PlanSpec => []ChainInv
  BY <1>1, <1>2, <1>3, ChainInit, ChainStep, PTL DEF PlanSpec
<1>5. QED BY <1>1, <1>2, <1>3, <1>4, PTL

\* nreps is the number of reps still to be done at every moment, wherever it
\* is decremented, and until the user is asked every refusal is in badreps.
THEOREM AccountsAlwaysBalance == PlanSpec => []AccountsBalance
BY ChainsKept, AccountsInit, AccountsStep, PTL DEF PlanSpec
-----------------------------------------------------------------------------
(***************************************************************************)
(* What a chain is.  (The reps r_thendo leads to are the least set that it *)
(* does not leave, so that these facts need no induction along the chain.) *)
(***************************************************************************)
\* A chain has its head, and r_thendo does not leave it.
LEMMA ChainCloses ==
  ASSUME Threads, Sources \subseteq Name, NEW h \in Sources
  PROVE  h \in Chain(h) /\ Closed(Chain(h)) /\ Chain(h) \in SUBSET Sources
<1>1. ASSUME NEW x \in Chain(h), thendo[x] # Nil
      PROVE  thendo[x] \in Chain(h)
  <2>1. thendo[x] \in Sources
    BY <1>1 DEF Chain, Threads
  <2>2. \A C \in SUBSET Sources : h \in C /\ Closed(C) => thendo[x] \in C
    BY <1>1 DEF Chain, Closed
  <2>3. QED BY <2>1, <2>2 DEF Chain
<1>2. QED BY <1>1 DEF Chain, Closed

\* It is the least such set.
LEMMA ChainLeast ==
  ASSUME NEW h \in Sources, NEW C \in SUBSET Sources, h \in C, Closed(C)
  PROVE  Chain(h) \subseteq C
BY DEF Chain

\* What is behind the head is the chain of the next one.
LEMMA ChainBehind ==
  ASSUME Threads, Sources \subseteq Name, NEW h \in Sources, NEW x \in Chain(h), x # h
  PROVE  thendo[h] # Nil /\ x \in Chain(thendo[h])
<1>1. CASE thendo[h] = Nil
  <2>1. Closed({h})
    BY <1>1 DEF Closed
  <2>2. QED BY <2>1, ChainLeast
<1>2. CASE thendo[h] # Nil
  <2>1. thendo[h] \in Sources
    BY <1>2 DEF Threads
  <2>2. Closed({h} \cup Chain(thendo[h])) /\ Chain(thendo[h]) \in SUBSET Sources
    BY <2>1, ChainCloses DEF Closed
  <2>3. QED BY <1>2, <2>2, ChainLeast
<1>3. QED BY <1>1, <1>2

\* The chain of a rep in a chain is part of that chain.
LEMMA ChainWithin ==
  ASSUME Threads, Sources \subseteq Name, NEW h \in Sources, NEW x \in Chain(h)
  PROVE  Chain(x) \subseteq Chain(h)
<1>1. x \in Sources
  BY DEF Chain
<1>2. QED BY <1>1, ChainCloses, ChainLeast

\* Hanging a chain behind the end of another one takes nothing out of any.
LEMMA ChainGrows ==
  ASSUME UNCHANGED job, NEW w \in Sources, NEW q,
         thendo \in [Name -> Name \cup {Nil}], Sources \subseteq Name,
         thendo[w] = Nil, thendo' = [thendo EXCEPT ![w] = q], NEW h
  PROVE  Chain(h) \subseteq Chain(h)'
<1>1. Sources' = Sources
  BY DEF Sources
<1>2. \A C \in SUBSET Sources : Closed(C)' => Closed(C)
  BY DEF Closed
<1>3. QED BY <1>1, <1>2 DEF Chain

\* From a live rep on all are live.
LEMMA ChainsLive ==
  ASSUME PlanInv, StoreInv, LinkInv, pc \notin {"unwind", "exit"}, NEW r \in Live
  PROVE  Chain(r) \subseteq Live
<1>1. Closed(Live) /\ Live \in SUBSET Sources
  BY PlanFacts DEF LinkInv, Follows, Closed
<1>2. QED BY <1>1, ChainLeast

\* Every live rep is in the chain of a head.
LEMMA LiveChained ==
  ASSUME PlanInv, StoreInv, LinkInv, pc \notin {"firsts", "exit"}, NEW r \in Live
  PROVE  \E h \in Heads : r \in Chain(h)
<1> DEFINE T == {x \in Live : \A h \in Heads : x \notin Chain(h)}
<1>1. /\ Threads /\ Placed /\ Heads \subseteq Sources /\ Sources \subseteq Name
      /\ Live \subseteq Sources /\ Nil \notin Name /\ Tops = Heads
  BY PlanFacts DEF LinkInv, Tops
<1>2. SUFFICES ASSUME r \in T PROVE FALSE
  OBVIOUS
<1>3. PICK x \in T : \A y \in T : thendo[y] # x
  BY <1>1, <1>2 DEF Threads, Acyclic
<1>4. x \notin Heads
  BY <1>1, ChainCloses
<1>5. PICK y \in Live : thendo[y] = x
  BY <1>1, <1>4 DEF Placed
<1>6. PICK h \in Heads : y \in Chain(h)
  BY <1>3, <1>5
<1>7. x \in Chain(h)
  BY <1>1, <1>3, <1>5, <1>6, ChainCloses DEF Closed, Threads
<1>8. QED BY <1>7

\* doreps finds every live rep in exactly one place, and no refused one.
THEOREM EveryRepOnce == PlanSpec => []EachOnce
<1>1. PlanInv /\ StoreInv /\ ScanInv /\ ChainInv => EachOnce
  <2> SUFFICES ASSUME PlanInv, StoreInv, ChainInv, pc = "doreps"
               PROVE  /\ UNION {Chain(h) : h \in Heads} = Live
                      /\ IsInjective(list)
                      /\ \A r \in Live : Cardinality({x \in Live : thendo[x] = r})
                                          = IF r \in Heads THEN 0 ELSE 1
    BY DEF EachOnce
  <2>1. /\ IsInjective(list) /\ Threads /\ Placed /\ HeadsLive
        /\ Tops = Heads /\ Todo = {} /\ LinkInv
        /\ Live \subseteq Name /\ Nil \notin Name
    BY PlanFacts DEF ChainInv, LinkInv, Tops, Todo
  <2>2. Heads \subseteq Live
    BY <2>1 DEF HeadsLive
  <2>3. UNION {Chain(h) : h \in Heads} \subseteq Live
    BY <2>1, <2>2, ChainsLive
  <2>4. Live \subseteq UNION {Chain(h) : h \in Heads}
    BY <2>1, LiveChained
  <2>5. ASSUME NEW r \in Live
        PROVE  Cardinality({x \in Live : thendo[x] = r})
                 = IF r \in Heads THEN 0 ELSE 1
    <3>1. CASE r \in Heads
      <4>1. {x \in Live : thendo[x] = r} = {}
        BY <2>1, <3>1 DEF Placed
      <4>2. QED BY <3>1, <4>1, FS_EmptySet
    <3>2. CASE r \notin Heads
      <4>1. PICK y \in Live : thendo[y] = r
        BY <2>1, <3>2 DEF Placed
      <4>2. {x \in Live : thendo[x] = r} = {y}
        BY <2>1, <4>1 DEF Threads
      <4>3. QED BY <3>2, <4>2, FS_Singleton
    <3>3. QED BY <3>1, <3>2
  <2>6. QED BY <2>1, <2>3, <2>4, <2>5
<1>2. QED BY <1>1, ChainsKept, PTL
-----------------------------------------------------------------------------
(***************************************************************************)
(* The order of the reps.                                                  *)
(***************************************************************************)
BaseInv == PlanInv /\ StoreInv /\ ScanInv /\ ChainInv /\ ChainedReplace

\* What the proofs about the order rest on, of every state of planning.
LEMMA BaseKept == PlanSpec => []BaseInv
<1>1. PlanSpec => []ChainedReplace
  BY ChainsKept, ChainedReplaceInit, ChainedReplaceStep, PTL DEF PlanSpec
<1>2. BaseInv <=> (PlanInv /\ StoreInv /\ ScanInv /\ ChainInv) /\ ChainedReplace
  BY DEF BaseInv
<1>3. QED BY <1>1, <1>2, ChainsKept, PTL

\* In a chain every rep but its head is behind another one.
LEMMA ChainPred ==
  ASSUME Threads, Sources \subseteq Name, Nil \notin Name,
         NEW h \in Sources, NEW x \in Chain(h), x # h
  PROVE  \E y \in Chain(h) : thendo[y] = x
<1>1. SUFFICES ASSUME \A y \in Chain(h) : thendo[y] # x PROVE FALSE
  OBVIOUS
<1>2. Closed(Chain(h) \ {x})
  BY <1>1, ChainCloses DEF Closed
<1>3. h \in Chain(h) \ {x} /\ Chain(h) \ {x} \in SUBSET Sources
  BY ChainCloses
<1>4. QED BY <1>2, <1>3, ChainLeast

\* A head is in no other chain.
LEMMA HeadAlone ==
  ASSUME PlanInv, StoreInv, LinkInv, pc \notin {"unwind", "exit"},
         NEW h \in Live, h \in Tops, NEW r \in Live, h \in Chain(r)
  PROVE  h = r
<1>1. /\ Threads /\ Placed /\ Sources \subseteq Name /\ Live \subseteq Sources
      /\ Nil \notin Name
  BY PlanFacts DEF LinkInv
<1>2. ASSUME h # r PROVE FALSE
  <2>1. PICK y \in Chain(r) : thendo[y] = h
    BY <1>1, <1>2, ChainPred
  <2>2. y \in Live
    BY ChainsLive
  <2>3. QED BY <1>1, <2>1, <2>2 DEF Placed
<1>3. QED BY <1>2

\* While findorder looks at heads, a rep is in the chain r_first says it is in.
LEMMA FirstReaches ==
  ASSUME PlanInv, StoreInv, ChainInv, pc = "order", NEW r \in Live,
         first[r] \in Sources
  PROVE  r \in Chain(first[r])
<1> DEFINE T == {x \in Live : first[x] = first[r] /\ x \notin Chain(first[r])}
<1>1. /\ Threads /\ Placed /\ Sources \subseteq Name /\ Live \subseteq Sources
      /\ Nil \notin Name /\ Tops = Heads
      /\ \A h \in Heads : first[h] = h
      /\ \A x \in Live : thendo[x] # Nil => first[thendo[x]] = first[x]
  BY PlanFacts DEF ChainInv, LinkInv, FirstInv, Tops, EarlyPhases
<1>2. SUFFICES ASSUME r \in T PROVE FALSE
  OBVIOUS
<1>3. PICK x \in T : \A y \in T : thendo[y] # x
  BY <1>1, <1>2 DEF Threads, Acyclic
<1>4. x \notin Heads
  BY <1>1, <1>3, ChainCloses
<1>5. PICK y \in Live : thendo[y] = x
  BY <1>1, <1>4 DEF Placed
<1>6. first[y] = first[r]
  BY <1>1, <1>3, <1>5
<1>7. y \in Chain(first[r])
  BY <1>3, <1>5, <1>6
<1>8. x \in Chain(first[r])
  BY <1>1, <1>3, <1>5, <1>7, ChainCloses DEF Closed
<1>9. QED BY <1>3, <1>8

\* Chains change only by r_thendo.
LEMMA SameChains ==
  ASSUME UNCHANGED <<job, thendo>>
  PROVE  \A h : Chain(h)' = Chain(h)
BY DEF Chain, Closed, Sources

\* findorder has not touched the reps it has not come to.
Untried == \A r \in Todo : fdel[r] = Snapshot(r)

\* A rep is hung behind another one because that is the source of its target,
\* or, for an append, behind the last rep of the chain that is in.
Threaded ==
    \A x \in Name : thendo[x] # Nil =>
       /\ job.to[thendo[x]] \in Sources
       /\ ~IsAppend => job.to[thendo[x]] = x

\* Where findorder is on its way to hang p.
Walking ==
    pc = "walk" => /\ job.to[p] \in Live /\ job.to[p] # p
                   /\ walk \in Chain(job.to[p])
                   /\ ~IsAppend => walk = job.to[p]

\* A cycle is broken at the head of its chain, which needs no file of its own
\* to be deleted, and at the rep whose source the head replaces.
Cycles ==
    pc # "exit" /\ (pc \in EarlyPhases \/ IsMove) =>
      /\ \A c \in cycle : /\ c \in Heads \ Todo /\ (pc = "walk" => c # p)
                          /\ \A x \in Name : thendo[x] # c
                          /\ IsMove => fdel[c] = Nil
      /\ \A r \in aliased : \E h \in cycle \cap Heads : job.to[h] = r /\ r \in Chain(h)

\* What a rep replaces is out of its way before its turn, or at its turn.
Behind(r) ==
    IF IsAppend THEN r # job.to[r] /\ r \in Chain(job.to[r])
    ELSE thendo[job.to[r]] = r

Breaks(r) ==
    /\ r \in cycle \cap Heads /\ job.to[r] \in aliased \cap Chain(r)
    /\ ~IsAppend => thendo[job.to[r]] = Nil

Ordered ==
    pc # "exit" =>
      \A r \in Live \ Todo : \/ pc = "walk" /\ r = p
                             \/ job.to[r] \notin Live \/ Behind(r) \/ Breaks(r)

\* What a move is going to delete.
Recorded ==
    IsMove /\ pc # "exit" =>
      \A r \in Live \ Todo :
         fdel[r] = IF job.to[r] \in Live THEN Nil ELSE Snapshot(r)

\* The heads of the cycles of appends; when scandeletes refuses one, it is
\* about to refuse the rest of the chain, which appends to refused sources.
AppendCycles ==
    IsAppend /\ pc # "exit" =>
      /\ \A r \in aliased \cap Live :
            \/ \E h \in cycle \cap Heads : job.to[h] = r /\ r \in Chain(h)
            \/ again /\ r \in Chain(p)
      /\ again => fiRep[fdel[p]] = Mistake

OrderInv ==
    /\ Untried /\ Threaded /\ Walking /\ Cycles /\ Ordered /\ Recorded
    /\ AppendCycles
    /\ pc \in {"chains", "descend", "unwind"} => job.op \in CopyOps \cup LinkOps
    /\ pc = "skipdel" => ~IsAppend

\* No rep is in any list at first.
LEMMA OrderInit == PlanInit => OrderInv
<1> SUFFICES ASSUME PlanInit PROVE OrderInv
  OBVIOUS
<1>1. PlanInv /\ StoreInv
  BY PlanInvInit, StoreInit
<1>2. /\ pc = "collisions" /\ list = job.reps
      /\ thendo = [n \in Name |-> Nil] /\ cycle = {} /\ aliased = {} /\ again = FALSE
  BY DEF PlanInit, RepInit, RepStart
<1>3. /\ Todo = Sources /\ Live \subseteq Sources /\ Sources \subseteq Name
      /\ \A n \in Name : fdel[n] = Snapshot(n)
  BY <1>1, <1>2, PlanFacts DEF Todo, Heads, Sources, StoreInv
<1>4. QED BY <1>2, <1>3 DEF OrderInv, Untried, Threaded, Walking, Cycles,
                Ordered, Recorded, AppendCycles

\* A scan that refuses reps orders nothing.
LEMMA OrderScans ==
  ASSUME BaseInv, OrderInv, ScanPair
  PROVE  OrderInv'
<1>0. /\ pc = "scan" /\ pc' = "scan"
      /\ UNCHANGED <<job, list, thendo, fdel, cycle, aliased, again>>
  BY DEF ScanPair
<1>1. /\ thendo = [n \in Name |-> Nil] /\ cycle = {} /\ aliased = {}
      /\ list = job.reps /\ Sources \subseteq Name /\ again = FALSE
  BY <1>0, PlanFacts DEF BaseInv, StoreInv, ChainedReplace, PlanInv, PlanTypeOK
<1>2. Todo = Sources /\ Todo' = Sources /\ Live' \subseteq Sources
      /\ Sources' = Sources /\ UNCHANGED IsAppend
  BY <1>0, <1>1 DEF Todo, Heads, Sources, Live, IsAppend
<1>3. Untried'
  BY <1>0, <1>2 DEF OrderInv, Untried, Snapshot, Sources
<1>4. QED BY <1>0, <1>1, <1>2, <1>3
          DEF OrderInv, Threaded, Walking, Cycles, Ordered, Recorded, AppendCycles
\* What OrderInv's proofs use of the chains.
LEMMA OrderFacts ==
  ASSUME BaseInv, pc # "exit"
  PROVE  /\ PlanInv /\ StoreInv /\ ScanInv /\ ChainInv /\ LinkInv
         /\ IsInjective(list) /\ Heads \subseteq Sources
         /\ Threads /\ Follows /\ Placed /\ HeadsLive
         /\ Nil \notin Name /\ Sources \subseteq Name /\ Live \subseteq Sources
         /\ Todo \subseteq Heads
         /\ \A x \in Name : thendo[x] \in Name \cup {Nil} /\ thendo[x] # x
         /\ \A r \in Name : job.to[r] \in Name
         /\ Sources \subseteq job.files
BY ChainFacts, PlanFacts, TodoFacts DEF BaseInv, ChainInv

\* Two live reps never have the same target.
LEMMA OneEach ==
  ASSUME BaseInv, pc \notin {"collisions", "scan", "exit"}, ~IsAppend,
         NEW r \in Live, NEW s \in Live, job.to[r] = job.to[s]
  PROVE  r = s
<1>1. skip = {x \in Sources : ~IsAppend /\ \E y \in Sources \ {x} : SameTarget(x, y)}
  BY DEF BaseInv, ScanInv, CollisionsExact
<1>2. r \notin skip /\ s \in Sources /\ r \in Sources
  BY DEF BaseInv, StoreInv, Live
<1>3. QED BY <1>1, <1>2 DEF SameTarget

\* The quiet steps.
LEMMA OrderQuiet ==
  ASSUME BaseInv, BaseInv', OrderInv, QuietStep, pc' # "exit"
  PROVE  OrderInv'
<1>1. Quietly /\ PlanNext
  BY QuietSteps DEF QuietStep, PlanNext, PlanStep
<1>2. /\ pc \notin {"exit", "walk"} /\ pc' # "walk"
      /\ pc' \in EarlyPhases => pc \in EarlyPhases
      /\ pc = "order" /\ MoreHeads => OrderFree
      /\ OrderFree => pc = "order" /\ MoreHeads
      /\ pc' \in {"chains", "descend", "unwind"} =>
           pc \in {"chains", "descend", "unwind"} \/ OrderDone
  BY DEF QuietStep, CheckCollisions, ScanDone, OrderFree, EarlyPhases,
         OrderDone, ChainKeep, ChainEnter, PrintChainCall, ChainsDone, DelNothing,
         BadDelKeep, KeepHead, BadDelDone, GoOn, OrDie, SkipDelYes, SkipDelQuit,
         SkipDelDone, Breakout, Goto, Exit, MoreHeads
<1>3. Todo' = IF OrderFree THEN Todo \ {p} ELSE Todo
  BY <1>1, <1>2, OrderFacts, TodoStep
<1>4. /\ UNCHANGED <<job, list, thendo, fdel, fiRep, cycle, aliased, Live, Sources, Heads>>
      /\ UNCHANGED <<IsAppend, IsMove>>
      /\ \A n \in Name : Snapshot(n)' = Snapshot(n)
      /\ \A h : Chain(h)' = Chain(h)
  BY <1>1, SameChains DEF Quietly, repVars, Live, Sources, Heads, IsAppend, IsMove,
                          Snapshot
<1>5. Untried' /\ Threaded' /\ Walking'
  BY <1>2, <1>3, <1>4, OrderFacts DEF OrderInv, Untried, Threaded, Walking
<1>6. Cycles'
  BY <1>2, <1>3, <1>4 DEF OrderInv, Cycles
<1>7. OrderFree => p \in Live /\ job.to[p] \notin Live /\ fdel[p] = Snapshot(p)
  <2> SUFFICES ASSUME OrderFree
               PROVE  p \in Live /\ job.to[p] \notin Live /\ fdel[p] = Snapshot(p)
    OBVIOUS
  <2>1. /\ pc = "order" /\ MoreHeads /\ p \notin skip /\ ~Waits(p)
        /\ p \in Heads /\ p \in Todo
    BY OrderFacts, AtCursor, TodoFacts DEF OrderFree
  <2>2. p \in Live /\ p \in Sources /\ p \in Name
    BY <2>1, OrderFacts DEF StoreInv, EarlyPhases
  <2>3. fdel[p] = Snapshot(p)
    BY <2>1 DEF OrderInv, Untried
  <2>4. ASSUME job.to[p] \in Live PROVE FALSE
    <3>1. job.to[p] \in Sources /\ fiRep[job.to[p]] = job.to[p] /\ job.to[p] \in job.files
      BY <1>2, <2>4, OrderFacts DEF Live
    <3>2. fdel[p] = job.to[p]
      BY <2>2, <2>3, <3>1 DEF Snapshot
    <3>3. QED BY <1>2, <2>1, <3>1, <3>2, OrderFacts, PlanFacts DEF Waits, Pred
  <2>5. QED BY <2>2, <2>3, <2>4
<1>8. Ordered'
  BY <1>2, <1>3, <1>4, <1>7 DEF OrderInv, Ordered, Behind, Breaks
<1>9. Recorded'
  BY <1>2, <1>3, <1>4, <1>7, OrderFacts DEF OrderInv, Recorded
<1>10. AppendCycles'
  <2>1. ASSUME IsAppend, again
        PROVE  UNCHANGED <<again, i>>
    <3>1. pc \in {"baddel", "skipdel"} /\ MoreHeads /\ fiRep[fdel[p]] = Mistake
      BY <1>2, <2>1 DEF BaseInv, ChainedReplace, OrderInv, AppendCycles
    <3>2. ~DelNothing /\ ~BadDelKeep /\ ~BadDelDone /\ ~SkipDelDone
      BY <2>1, <3>1 DEF DelNothing, BadDelKeep, BadDel, BadDelDone, SkipDelDone
    <3>3. ~SkipDelYes /\ ~SkipDelQuit
      BY <2>1, <3>1 DEF OrderInv, SkipDelYes, SkipDelQuit
    <3>4. QED BY <1>2, <3>1, <3>2, <3>3
              DEF QuietStep, CheckCollisions, ScanDone, OrderFree, OrderDone,
                  ChainKeep, ChainEnter, PrintChainCall, ChainsDone, GoOn, OrDie,
                  Breakout, Exit
  <2>2. again' => again
    BY DEF QuietStep, CheckCollisions, ScanDone, OrderFree,
         OrderDone, ChainKeep, ChainEnter, PrintChainCall, ChainsDone, DelNothing,
         BadDelKeep, KeepHead, BadDelDone, GoOn, OrDie, SkipDelYes, SkipDelQuit,
         SkipDelDone, Breakout, planVars
  <2>3. IsAppend /\ again => UNCHANGED p
    BY <1>4, <2>1 DEF p
  <2>4. QED BY <1>2, <1>4, <2>1, <2>2, <2>3 DEF OrderInv, AppendCycles
<1>11. pc' \in {"chains", "descend", "unwind"} => job'.op \in CopyOps \cup LinkOps
  BY <1>2, <1>4 DEF OrderInv, OrderDone, Goto
<1>12. pc' = "skipdel" => ~IsAppend'
  <2>1. pc' = "skipdel" => pc = "skipdel" \/ ~IsAppend
    BY DEF QuietStep, CheckCollisions, ScanDone, OrderFree,
         OrderDone, ChainKeep, ChainEnter, PrintChainCall, ChainsDone, DelNothing,
         BadDelKeep, KeepHead, BadDelDone, GoOn, OrDie, SkipDelYes, SkipDelQuit,
         SkipDelDone, Breakout, Goto, Exit
  <2>2. QED BY <1>4, <2>1 DEF OrderInv
<1>13. QED BY <1>5, <1>6, <1>8, <1>9, <1>10, <1>11, <1>12 DEF OrderInv
\* A head that has to wait: its pred is the live rep of its target, and what
\* is behind pred already does not have that target.
LEMMA WaitsFor ==
  ASSUME BaseInv, OrderInv, pc = "order", MoreHeads, p \notin skip, Waits(p)
  PROVE  /\ p \in Live /\ p \in Todo /\ p \in Heads
         /\ Pred(p) = job.to[p] /\ job.to[p] \in Live
         /\ \A x \in Name : thendo[x] # p
         /\ ~IsAppend => thendo[job.to[p]] = Nil
<1>0. /\ Placed /\ Tops = Heads /\ Nil \notin Name /\ Live \subseteq Name
      /\ Sources \subseteq Name /\ Heads \subseteq Sources /\ Follows /\ StoreInv
      /\ \A x \in Name : thendo[x] # Nil => x \in Live
      /\ \A x \in Name : thendo[x] \in Name \cup {Nil}
  BY OrderFacts DEF Tops, LinkInv, EarlyPhases
<1>1. p \in Heads /\ p \in Todo /\ p \in Name
  BY OrderFacts, AtCursor, TodoFacts
<1>2. p \in Live
  BY <1>0, <1>1 DEF StoreInv, EarlyPhases
<1>3. fdel[p] = Snapshot(p) /\ p \in Sources
  BY <1>0, <1>1 DEF OrderInv, Untried
<1>4. fdel[p] = job.to[p] /\ job.to[p] \in Name
  <2>1. job.to[p] \in Name
    BY <1>1, OrderFacts
  <2>2. fdel[p] # Nil
    BY DEF Waits
  <2>3. QED BY <1>3, <2>1, <2>2 DEF Snapshot
<1>5. Pred(p) = job.to[p] /\ job.to[p] \in Live
  <2>1. fiRep[job.to[p]] \notin {Nil, Mistake}
    BY <1>4 DEF Waits, Pred
  <2>2. job.to[p] \in Sources /\ fiRep[job.to[p]] = job.to[p]
    BY <1>0, <1>4, <2>1 DEF StoreInv
  <2>3. QED BY <1>4, <2>2 DEF Pred, Live
<1>6. \A x \in Name : thendo[x] # p
  BY <1>0, <1>1, <1>2 DEF Placed
<1>7. ASSUME ~IsAppend, thendo[job.to[p]] # Nil PROVE FALSE
  <2> DEFINE y == thendo[job.to[p]]
  <2>1. y \in Live
    BY <1>0, <1>5, <1>7 DEF Follows
  <2>2. job.to[y] = job.to[p]
    BY <1>4, <1>7 DEF OrderInv, Threaded
  <2>3. y = p
    BY <1>2, <1>7, <2>1, <2>2, OneEach
  <2>4. QED BY <1>4, <1>6, <2>3
<1>8. QED BY <1>1, <1>2, <1>5, <1>6, <1>7

\* A refused head leaves the list.
LEMMA OrderSkips ==
  ASSUME BaseInv, BaseInv', OrderInv, OrderSkip
  PROVE  OrderInv'
<1>0. /\ pc = "order" /\ pc' = "order" /\ MoreHeads /\ p \in skip /\ PlanNext
      /\ UNCHANGED <<job, thendo, fdel, fiRep, cycle, aliased>>
      /\ list' = RemoveAt(list, i)
  BY DEF OrderSkip, PlanNext, PlanStep
<1>1. /\ UNCHANGED <<Live, Sources, IsAppend, IsMove>>
      /\ \A n \in Name : Snapshot(n)' = Snapshot(n)
      /\ \A h : Chain(h)' = Chain(h)
  BY <1>0, SameChains DEF Live, Sources, IsAppend, IsMove, Snapshot
<1>2. /\ IsInjective(list) /\ Todo \subseteq Heads /\ Heads \subseteq Sources
      /\ Sources \subseteq Name /\ PlanInv /\ p \in Todo
      /\ p \notin Live
  BY <1>0, OrderFacts, TodoFacts DEF StoreInv
<1>3. Todo' = Todo \ {p} /\ Heads' = Heads \ {p}
  <2>1. Todo' = Todo \ {p}
    BY <1>0, <1>2, TodoStep DEF BaseInv
  <2>2. list \in Seq(Name) /\ i \in 1..Len(list) /\ p = list[i]
    BY <1>0, <1>2, PlanFacts, AtCursor DEF p
  <2>3. QED BY <1>0, <1>2, <2>1, <2>2, RemoveAtRange DEF Heads
<1>4. Untried' /\ Threaded' /\ Walking'
  BY <1>0, <1>1, <1>2, <1>3 DEF OrderInv, Untried, Threaded, Walking
<1>5. Cycles'
  BY <1>0, <1>1, <1>2, <1>3 DEF OrderInv, Cycles, EarlyPhases
<1>6. Ordered' /\ Recorded'
  <2>1. Live' \ Todo' = Live \ Todo
    BY <1>1, <1>2, <1>3
  <2>2. ASSUME NEW r \in Live \ Todo
        PROVE  job.to[r] \notin Live \/ Behind(r)' \/ Breaks(r)'
    <3>1. r # p
      BY <1>2
    <3>2. job.to[r] \notin Live \/ Behind(r) \/ Breaks(r)
      BY <1>0 DEF OrderInv, Ordered
    <3>3. QED BY <1>0, <1>1, <1>3, <3>1, <3>2 DEF Behind, Breaks
  <2>3. Ordered'
    BY <1>0, <1>1, <2>1, <2>2 DEF Ordered
  <2>4. Recorded'
    <3>1. Live \subseteq Name
      BY <1>0, OrderFacts
    <3>2. QED BY <1>0, <1>1, <2>1, <3>1 DEF OrderInv, Recorded
  <2>5. QED BY <2>3, <2>4
<1>7. AppendCycles'
  BY <1>0, <1>5 DEF AppendCycles, Cycles, EarlyPhases, BaseInv, ChainedReplace
<1>8. QED BY <1>0, <1>4, <1>5, <1>6, <1>7 DEF OrderInv

\* The head whose pred is in its own chain: the cycle is broken there.
LEMMA OrderCycles ==
  ASSUME BaseInv, BaseInv', OrderInv, OrderCycle
  PROVE  OrderInv'
<1> DEFINE t == job.to[p]
<1>0. /\ pc = "order" /\ pc' = "order" /\ MoreHeads /\ p \notin skip /\ Waits(p)
      /\ PlanNext
      /\ UNCHANGED <<job, list, thendo, fiRep>>
      /\ cycle' = cycle \cup {p} /\ aliased' = aliased \cup {Pred(p)}
      /\ first[Pred(p)] = p
      /\ fdel' = IF IsMove THEN [fdel EXCEPT ![p] = Nil] ELSE fdel
  BY DEF OrderCycle, ForgetDelete, PlanNext, PlanStep
<1>1. /\ UNCHANGED <<Live, Sources, Heads, IsAppend, IsMove>>
      /\ \A n \in Name : Snapshot(n)' = Snapshot(n)
      /\ \A h : Chain(h)' = Chain(h)
  BY <1>0, SameChains DEF Live, Sources, Heads, IsAppend, IsMove, Snapshot
<1>2. /\ IsInjective(list) /\ Todo \subseteq Heads /\ Heads \subseteq Sources
      /\ Sources \subseteq Name /\ PlanInv /\ Live \subseteq Sources
      /\ p \in Live /\ p \in Todo /\ p \in Heads
      /\ Pred(p) = t /\ t \in Live
      /\ \A x \in Name : thendo[x] # p
      /\ ~IsAppend => thendo[t] = Nil
      /\ fdel \in [Name -> Name \cup {Nil}]
  BY <1>0, OrderFacts, WaitsFor, PlanFacts
<1>3. Todo' = Todo \ {p}
  BY <1>0, <1>2, TodoStep DEF BaseInv
<1>4. t \in Chain(p)
  BY <1>0, <1>2, FirstReaches DEF BaseInv
<1>5. /\ \A x \in Name : x # p => fdel'[x] = fdel[x]
      /\ IsMove => fdel'[p] = Nil
  BY <1>0, <1>2
<1> HIDE DEF t
<1>6. Untried' /\ Threaded' /\ Walking'
  BY <1>0, <1>1, <1>2, <1>3, <1>5 DEF OrderInv, Untried, Threaded, Walking
<1>7. Cycles'
  <2>1. \A c \in cycle' : /\ c \in Heads \ (Todo \ {p})
                          /\ \A x \in Name : thendo[x] # c
                          /\ IsMove => fdel'[c] = Nil
    BY <1>0, <1>2, <1>5 DEF OrderInv, Cycles, EarlyPhases
  <2>2. \A r \in aliased' : \E h \in cycle' \cap Heads : job.to[h] = r /\ r \in Chain(h)
    BY <1>0, <1>2, <1>4 DEF OrderInv, Cycles, EarlyPhases, t
  <2>3. QED BY <1>0, <1>1, <1>3, <2>1, <2>2 DEF Cycles
<1>8. Ordered'
  <2>1. ASSUME NEW r \in Live, r = p
        PROVE  Breaks(r)'
    <3>1. job.to[r] = t /\ t \in aliased' /\ r \in cycle' \cap Heads
      BY <1>0, <1>2, <2>1 DEF t
    <3>2. job'.to[r] = t /\ t \in Chain(r)'
      BY <1>0, <1>1, <1>4, <2>1, <3>1
    <3>3. QED BY <1>0, <1>1, <1>2, <3>1, <3>2 DEF Breaks
  <2>2. ASSUME NEW r \in Live \ Todo
        PROVE  job.to[r] \notin Live \/ Behind(r)' \/ Breaks(r)'
    <3>1. job.to[r] \notin Live \/ Behind(r) \/ Breaks(r)
      BY <1>0 DEF OrderInv, Ordered
    <3>2. QED BY <1>0, <1>1, <3>1 DEF Behind, Breaks
  <2>3. QED BY <1>0, <1>1, <1>3, <2>1, <2>2 DEF Ordered
<1>9. Recorded'
  <2>1. job.to[p] \in Live
    BY <1>2 DEF t
  <2>2. QED BY <1>0, <1>1, <1>2, <1>3, <1>5, <2>1 DEF OrderInv, Recorded
<1>10. AppendCycles'
  BY <1>0, <1>7 DEF AppendCycles, Cycles, EarlyPhases, BaseInv, ChainedReplace
<1>11. QED BY <1>0, <1>6, <1>7, <1>8, <1>9, <1>10 DEF OrderInv
\* The head that has to wait: findorder sets out for the end of pred's chain.
LEMMA OrderWaits ==
  ASSUME BaseInv, BaseInv', OrderInv, OrderWait
  PROVE  OrderInv'
<1> DEFINE t == job.to[p]
<1>0. /\ pc = "order" /\ pc' = "walk" /\ MoreHeads /\ p \notin skip /\ Waits(p)
      /\ PlanNext
      /\ UNCHANGED <<job, list, thendo, fiRep, cycle, aliased, i>>
      /\ first[Pred(p)] # p /\ walk' = Pred(p)
      /\ fdel' = IF IsMove THEN [fdel EXCEPT ![p] = Nil] ELSE fdel
  BY DEF OrderWait, ForgetDelete, Goto, PlanNext, PlanStep
<1>1. /\ UNCHANGED <<Live, Sources, Heads, IsAppend, IsMove, p>>
      /\ \A n \in Name : Snapshot(n)' = Snapshot(n)
      /\ \A h : Chain(h)' = Chain(h)
  BY <1>0, SameChains DEF Live, Sources, Heads, IsAppend, IsMove, Snapshot, p
<1>2. /\ IsInjective(list) /\ Todo \subseteq Heads /\ Heads \subseteq Sources
      /\ Sources \subseteq Name /\ PlanInv /\ Live \subseteq Sources /\ Threads
      /\ p \in Live /\ p \in Todo /\ p \in Heads
      /\ Pred(p) = t /\ t \in Live
      /\ \A x \in Name : thendo[x] # p
      /\ fdel \in [Name -> Name \cup {Nil}]
      /\ first[p] = p
  BY <1>0, OrderFacts, WaitsFor, PlanFacts
     DEF BaseInv, ChainInv, FirstInv, EarlyPhases, Tops
<1>3. Todo' = Todo \ {p}
  BY <1>0, <1>2, TodoStep DEF BaseInv
<1>5. /\ \A x \in Name : x # p => fdel'[x] = fdel[x]
      /\ IsMove => fdel'[p] = Nil
  BY <1>0, <1>2
<1>6. Untried' /\ Threaded'
  BY <1>0, <1>1, <1>2, <1>3, <1>5 DEF OrderInv, Untried, Threaded
<1>7. Walking'
  <2>1. t \in Chain(t)
    BY <1>2, ChainCloses
  <2>2. t # p
    BY <1>0, <1>2
  <2>3. QED BY <1>0, <1>1, <1>2, <2>1, <2>2 DEF Walking
<1> HIDE DEF t
<1>8. Cycles'
  <2>1. \A c \in cycle : /\ c \in Heads \ (Todo \ {p}) /\ c # p
                         /\ \A x \in Name : thendo[x] # c
                         /\ IsMove => fdel'[c] = Nil
    BY <1>0, <1>2, <1>5 DEF OrderInv, Cycles, EarlyPhases
  <2>2. \A r \in aliased : \E h \in cycle \cap Heads : job.to[h] = r /\ r \in Chain(h)
    BY <1>0 DEF OrderInv, Cycles, EarlyPhases
  <2>3. QED BY <1>0, <1>1, <1>3, <2>1, <2>2 DEF Cycles
<1>9. Ordered'
  <2>1. ASSUME NEW r \in Live \ Todo
        PROVE  job.to[r] \notin Live \/ Behind(r)' \/ Breaks(r)'
    <3>1. job.to[r] \notin Live \/ Behind(r) \/ Breaks(r)
      BY <1>0 DEF OrderInv, Ordered
    <3>2. QED BY <1>0, <1>1, <3>1 DEF Behind, Breaks
  <2>2. QED BY <1>0, <1>1, <1>3, <2>1 DEF Ordered
<1>10. Recorded'
  <2>1. job.to[p] \in Live
    BY <1>2 DEF t
  <2>2. QED BY <1>0, <1>1, <1>2, <1>3, <1>5, <2>1 DEF OrderInv, Recorded
<1>11. AppendCycles'
  BY <1>0, <1>8 DEF AppendCycles, Cycles, EarlyPhases, BaseInv, ChainedReplace
<1>12. QED BY <1>0, <1>6, <1>7, <1>8, <1>9, <1>10, <1>11 DEF OrderInv

\* One step along pred's chain.
LEMMA OrderWalks ==
  ASSUME BaseInv, BaseInv', OrderInv, WalkChain
  PROVE  OrderInv'
<1> DEFINE t == job.to[p]
<1>0. /\ pc = "walk" /\ MoreHeads /\ PlanNext /\ pc' # "exit"
      /\ UNCHANGED <<job, list, fdel, fiRep, cycle, aliased, i>>
      /\ walk \in Name
  BY DEF WalkChain, PlanNext, PlanStep, BaseInv, PlanInv, CursorOK, MoreHeads
<1>1. /\ UNCHANGED <<Live, Sources, Heads, IsAppend, IsMove, p>>
      /\ \A n \in Name : Snapshot(n)' = Snapshot(n)
  BY <1>0 DEF Live, Sources, Heads, IsAppend, IsMove, Snapshot, p
<1>2. /\ IsInjective(list) /\ Todo \subseteq Heads /\ Heads \subseteq Sources
      /\ Sources \subseteq Name /\ PlanInv /\ Live \subseteq Sources /\ Threads
      /\ Nil \notin Name /\ Follows /\ Placed /\ Tops = Heads
      /\ p \in Heads /\ p \notin Todo /\ p \in Live
      /\ \A x \in Name : thendo[x] # Nil => x \in Live
      /\ walk \in Live
      /\ t \in Live /\ t # p /\ walk \in Chain(t) /\ (~IsAppend => walk = t)
      /\ thendo \in [Name -> Name \cup {Nil}]
  BY <1>0, OrderFacts, AtCursor, TodoFacts, PlanFacts
     DEF BaseInv, ChainInv, LinkInv, HeadsLive, FirstInv, EarlyPhases, Tops,
         OrderInv, Walking
<1>3. UNCHANGED Todo
  BY <1>0, <1>2, TodoStep DEF BaseInv
<1>4. \A x \in Name : thendo[x] # p
  BY <1>2 DEF Placed
<1>5. ASSUME ~IsAppend PROVE thendo[walk] = Nil
  <2>1. ASSUME thendo[walk] # Nil PROVE FALSE
    <3>1. thendo[walk] \in Live /\ job.to[thendo[walk]] = walk
      BY <1>0, <1>2, <1>5, <2>1 DEF Follows, OrderInv, Threaded
    <3>2. thendo[walk] = p
      BY <1>0, <1>2, <1>5, <3>1, OneEach
    <3>3. QED BY <1>0, <1>4, <3>2
  <2>2. QED BY <2>1
<1> HIDE DEF t
<1>6. CASE thendo[walk] # Nil
  <2>1. pc' = "walk" /\ walk' = thendo[walk] /\ thendo' = thendo
    BY <1>6 DEF WalkChain, AtChainEnd
  <2>2. \A h : Chain(h)' = Chain(h)
    BY <1>0, <2>1, SameChains
  <2>3. walk' \in Chain(t)
    <3>1. Closed(Chain(t))
      BY <1>2, ChainCloses
    <3>2. QED BY <1>2, <1>6, <2>1, <3>1 DEF Closed
  <2>4. Untried' /\ Threaded'
    BY <1>0, <1>1, <1>2, <1>3, <2>1 DEF OrderInv, Untried, Threaded
  <2>5. Walking'
    BY <1>0, <1>1, <1>2, <1>5, <1>6, <2>1, <2>2, <2>3 DEF Walking, t
  <2>6. Cycles'
    BY <1>0, <1>1, <1>3, <2>1, <2>2 DEF OrderInv, Cycles
  <2>7. Ordered'
    BY <1>0, <1>1, <1>3, <2>1, <2>2 DEF OrderInv, Ordered, Behind, Breaks
  <2>8. Recorded'
    BY <1>0, <1>1, <1>2, <1>3, <2>1 DEF OrderInv, Recorded
  <2>9. AppendCycles'
    BY <2>1, <2>6 DEF AppendCycles, Cycles, EarlyPhases, BaseInv, ChainedReplace
  <2>10. QED BY <1>0, <2>1, <2>4, <2>5, <2>6, <2>7, <2>8, <2>9 DEF OrderInv
<1>7. CASE thendo[walk] = Nil
  <2>1. pc' = "firsts" /\ thendo' = [thendo EXCEPT ![walk] = p]
    BY <1>7 DEF WalkChain, AtChainEnd
  <2>2. \A x \in Name : thendo'[x] = IF x = walk THEN p ELSE thendo[x]
    BY <1>2, <2>1
  <2>3. \A h : Chain(h) \subseteq Chain(h)'
    BY <1>0, <1>2, <1>7, <2>1, ChainGrows
  <2>4. ASSUME NEW u, u = t PROVE p \in Chain(u)'
    <3>1. walk \in Chain(u)' /\ p \in Sources
      BY <1>2, <2>3, <2>4
    <3>2. ASSUME NEW C \in SUBSET Sources, u \in C, Closed(C)' PROVE p \in C
      <4>1. thendo'[walk] = p /\ p # Nil
        BY <1>0, <1>2, <2>2
      <4>2. walk \in C
        BY <1>1, <3>1, <3>2 DEF Chain
      <4>3. QED BY <3>2, <4>1, <4>2 DEF Closed
    <3>3. QED BY <1>1, <3>1, <3>2 DEF Chain
  <2>5. Untried'
    BY <1>0, <1>1, <1>2, <1>3 DEF OrderInv, Untried
  <2>6. Threaded'
    <3>1. ASSUME NEW x \in Name, thendo'[x] # Nil
          PROVE  /\ job.to[thendo'[x]] \in Sources
                 /\ ~IsAppend => job.to[thendo'[x]] = x
      <4>1. CASE x = walk
        BY <1>2, <2>2, <4>1 DEF t
      <4>2. CASE x # walk
        BY <2>2, <3>1, <4>2 DEF OrderInv, Threaded
      <4>3. QED BY <4>1, <4>2
    <3>2. QED BY <1>0, <1>1, <3>1 DEF Threaded
  <2>7. Cycles'
    <3>1. \A c \in cycle : /\ c \in Heads \ Todo
                           /\ \A x \in Name : thendo'[x] # c
                           /\ IsMove => fdel[c] = Nil
      BY <1>0, <2>2 DEF OrderInv, Cycles, EarlyPhases
    <3>2. \A r \in aliased : \E h \in cycle \cap Heads : job.to[h] = r /\ r \in Chain(h)'
      BY <1>0, <2>3 DEF OrderInv, Cycles, EarlyPhases
    <3>3. QED BY <1>0, <1>1, <1>3, <2>1, <3>1, <3>2 DEF Cycles
  <2>8. Ordered'
    <3>1. ASSUME NEW r \in Live \ Todo, r = p
          PROVE  Behind(r)'
      <4>1. job.to[r] = t /\ r # job.to[r] /\ r \in Chain(job.to[r])'
        BY <1>0, <1>2, <2>4, <3>1 DEF t
      <4>2. ~IsAppend => thendo'[job.to[r]] = r
        BY <1>0, <1>2, <2>2, <3>1, <4>1
      <4>3. QED BY <1>0, <1>1, <4>1, <4>2 DEF Behind
    <3>2. ASSUME NEW r \in Live \ Todo, r # p, job.to[r] \in Live
          PROVE  Behind(r)' \/ Breaks(r)'
      <4>1. Behind(r) \/ Breaks(r)
        BY <1>0, <3>2 DEF OrderInv, Ordered
      <4>2. job.to[r] \in Name /\ r # Nil
        BY <1>2, <3>2
      <4>3. CASE Behind(r)
        BY <1>0, <1>1, <1>7, <2>2, <2>3, <4>2, <4>3 DEF Behind
      <4>4. CASE Breaks(r)
        <5>1. ~IsAppend => job.to[r] # walk
          BY <1>0, <1>2, <3>2, OneEach DEF t
        <5>2. QED BY <1>0, <1>1, <2>2, <2>3, <4>2, <4>4, <5>1 DEF Breaks
      <4>5. QED BY <4>1, <4>3, <4>4
    <3>3. QED BY <1>0, <1>1, <1>3, <2>1, <3>1, <3>2 DEF Ordered
  <2>9. Recorded'
    BY <1>0, <1>1, <1>2, <1>3 DEF OrderInv, Recorded
  <2>10. Walking'
    BY <2>1 DEF Walking
  <2>11. AppendCycles'
    BY <2>1, <2>7 DEF AppendCycles, Cycles, EarlyPhases, BaseInv, ChainedReplace
  <2>12. QED BY <1>0, <2>1, <2>5, <2>6, <2>7, <2>8, <2>9, <2>10, <2>11 DEF OrderInv
<1>8. QED BY <1>6, <1>7

\* r_first is brought up to date, and what was hung leaves the list.
LEMMA OrderUnlinks ==
  ASSUME BaseInv, BaseInv', OrderInv, UpdateFirst \/ UnlinkHead
  PROVE  OrderInv'
<1>0. /\ pc = "firsts" /\ pc' \in {"firsts", "order"} /\ MoreHeads /\ PlanNext
      /\ UNCHANGED <<job, thendo, fdel, fiRep, cycle, aliased, i>>
      /\ list' = list \/ list' = RemoveAt(list, i)
  BY DEF UpdateFirst, UnlinkHead, Goto, planVars, PlanNext, PlanStep, BaseInv,
         PlanInv, CursorOK, MoreHeads
<1>1. /\ UNCHANGED <<Live, Sources, IsAppend, IsMove>>
      /\ \A n \in Name : Snapshot(n)' = Snapshot(n)
      /\ \A h : Chain(h)' = Chain(h)
  BY <1>0, SameChains DEF Live, Sources, IsAppend, IsMove, Snapshot
<1>2. /\ IsInjective(list) /\ Todo \subseteq Heads /\ Heads \subseteq Sources
      /\ Sources \subseteq Name /\ PlanInv /\ Live \subseteq Sources
      /\ Placed /\ Tops = Heads \ {p} /\ p \notin Todo /\ HeadsLive /\ p \in Heads
  BY <1>0, OrderFacts, AtCursor, TodoFacts DEF Tops
<1>3. UNCHANGED Todo
  BY <1>0, <1>2, TodoStep DEF BaseInv
<1>4. p \notin cycle
  <2>1. p \in Live
    BY <1>0, <1>2 DEF HeadsLive
  <2>2. PICK x \in Live : thendo[x] = p
    BY <1>2, <2>1 DEF Placed
  <2>3. QED BY <1>0, <1>2, <2>2 DEF OrderInv, Cycles, EarlyPhases
<1>5. Heads' = Heads \/ Heads' = Heads \ {p}
  <2>1. list \in Seq(Name) /\ i \in 1..Len(list) /\ p = list[i]
    BY <1>0, <1>2, PlanFacts, AtCursor DEF p
  <2>2. QED BY <1>0, <1>2, <2>1, RemoveAtRange DEF Heads
<1>6. Untried' /\ Threaded' /\ Walking'
  BY <1>0, <1>1, <1>2, <1>3 DEF OrderInv, Untried, Threaded, Walking
<1>7. Cycles'
  <2>1. \A c \in cycle : /\ c \in Heads \ Todo
                         /\ \A x \in Name : thendo[x] # c
                         /\ IsMove => fdel[c] = Nil
    BY <1>0 DEF OrderInv, Cycles, EarlyPhases
  <2>2. \A r \in aliased : \E h \in cycle \cap Heads : job.to[h] = r /\ r \in Chain(h)
    BY <1>0 DEF OrderInv, Cycles, EarlyPhases
  <2>3. cycle \cap Heads' = cycle \cap Heads
    BY <1>4, <1>5
  <2>4. QED BY <1>0, <1>1, <1>3, <1>4, <1>5, <2>1, <2>2, <2>3 DEF Cycles
<1>8. Ordered'
  <2>1. ASSUME NEW r \in Live \ Todo
        PROVE  job.to[r] \notin Live \/ Behind(r)' \/ Breaks(r)'
    <3>1. job.to[r] \notin Live \/ Behind(r) \/ Breaks(r)
      BY <1>0 DEF OrderInv, Ordered
    <3>2. QED BY <1>0, <1>1, <1>4, <1>5, <3>1 DEF Behind, Breaks
  <2>2. QED BY <1>0, <1>1, <1>3, <2>1 DEF Ordered
<1>9. Recorded'
  BY <1>0, <1>1, <1>2, <1>3 DEF OrderInv, Recorded
<1>10. AppendCycles'
  BY <1>0, <1>7 DEF AppendCycles, Cycles, EarlyPhases, BaseInv, ChainedReplace
<1>11. QED BY <1>0, <1>6, <1>7, <1>8, <1>9, <1>10 DEF OrderInv
\* nochains refuses reps; what is left is in order.
LEMMA OrderChains ==
  ASSUME BaseInv, BaseInv', OrderInv, PrintChainReturn \/ ChainUnlink
  PROVE  OrderInv'
<1>0. /\ pc = "unwind" /\ pc' \in {"unwind", "chains"} /\ MoreHeads /\ PlanNext
      /\ UNCHANGED <<job, thendo, fdel, cycle, aliased, i>>
      /\ list' = list \/ (list' = RemoveAt(list, i) /\ stack = << >>)
      /\ fiRep' = fiRep \/ fiRep' = [fiRep EXCEPT ![Last(stack)] = Mistake]
  BY DEF PrintChainReturn, Refuse, ChainUnlink, Goto, planVars, PlanNext, PlanStep,
         BaseInv, PlanInv, CursorOK, MoreHeads
<1>1. /\ UNCHANGED <<Sources, IsAppend, IsMove>>
      /\ \A h : Chain(h)' = Chain(h)
      /\ ~IsAppend /\ ~IsMove
  BY <1>0, SameChains
     DEF Sources, IsAppend, IsMove, OrderInv, CopyOps, LinkOps, MoveOps, AppendOps
<1>2. /\ IsInjective(list) /\ Live \subseteq Sources /\ PlanInv
      /\ Todo = {} /\ Todo' = {} /\ Sources \subseteq Name
  BY <1>0, OrderFacts DEF Todo
<1>3. Live' \subseteq Live
  BY <1>0, <1>1, <1>2, PlanFacts DEF Live
<1>4. \A r \in Live : r \in Heads => r \in Heads'
  <2>1. CASE list' = list
    BY <2>1 DEF Heads
  <2>2. CASE list' = RemoveAt(list, i) /\ stack = << >>
    <3>1. list \in Seq(Name) /\ i \in 1..Len(list) /\ p = list[i]
      BY <1>0, <1>2, PlanFacts, AtCursor DEF p
    <3>2. p \notin Live
      BY <1>0, <2>2 DEF BaseInv, ChainInv, LinkInv, StackInv
    <3>3. QED BY <1>2, <2>2, <3>1, <3>2, RemoveAtRange DEF Heads
  <2>3. QED BY <1>0, <2>1, <2>2
<1>5. Ordered'
  <2>1. ASSUME NEW r \in Live', job.to[r] \in Live'
        PROVE  Behind(r)' \/ Breaks(r)'
    <3>1. Behind(r) \/ Breaks(r)
      BY <1>0, <1>2, <1>3, <2>1 DEF OrderInv, Ordered
    <3>2. QED BY <1>0, <1>1, <1>3, <1>4, <2>1, <3>1 DEF Behind, Breaks
  <2>2. QED BY <1>0, <1>2, <2>1 DEF Ordered
<1>6. QED
  BY <1>0, <1>1, <1>2, <1>5
     DEF OrderInv, Untried, Threaded, Walking, Cycles, Recorded, AppendCycles,
         EarlyPhases

\* scandeletes refuses a head, and the rest of its chain moves up.
LEMMA OrderRefuses ==
  ASSUME BaseInv, BaseInv', OrderInv, BadDelRefuse \/ SkipDelNo
  PROVE  OrderInv'
<1> DEFINE n == thendo[p]
<1>0. /\ pc \in {"baddel", "skipdel"} /\ pc' = pc /\ MoreHeads /\ PlanNext
      /\ UNCHANGED <<job, thendo, cycle, aliased, i>>
      /\ again \/ fdel[p] # Nil
      /\ fiRep' = [fiRep EXCEPT ![p] = Mistake]
      /\ list' = IF n = Nil THEN RemoveAt(list, i) ELSE ReplaceAt(list, i, n)
      /\ again' = (n # Nil)
      /\ fdel' = IF n # Nil /\ IsMove THEN [fdel EXCEPT ![n] = p] ELSE fdel
  BY DEF BadDelRefuse, SkipDelNo, RefuseHead, Refuse, TakesOver, DelTested,
         PlanNext, PlanStep
<1>1. /\ UNCHANGED <<Sources, IsAppend, IsMove>>
      /\ \A m \in Name : Snapshot(m)' = Snapshot(m)
      /\ \A h : Chain(h)' = Chain(h)
  BY <1>0, SameChains DEF Sources, IsAppend, IsMove, Snapshot
<1>2. /\ IsInjective(list) /\ Live \subseteq Sources /\ PlanInv /\ StoreInv /\ LinkInv
      /\ Todo = {} /\ Todo' = {} /\ Sources \subseteq Name /\ Tops = Heads
      /\ p \in Heads /\ Heads \subseteq Sources /\ p \in Name
      /\ Threads /\ Follows /\ Placed /\ Nil \notin Name /\ Sources \subseteq job.files
      /\ fdel \in [Name -> Name \cup {Nil}]
      /\ list \in Seq(Name) /\ i \in 1..Len(list) /\ p = list[i]
      /\ \A x \in Name : thendo[x] \in Name \cup {Nil}
      /\ fdel[p] # Nil
  BY <1>0, OrderFacts, AtCursor, PlanFacts DEF Todo, Tops, p, BaseInv, ChainedReplace
<1>3. p \in Live
  BY <1>0, <1>2, OrderFacts DEF HeadsLive
<1>4. Live' = Live \ {p}
  BY <1>0, <1>2, RefusedLive
<1>5. n # Nil => /\ n \in Live /\ n \in Name /\ n \notin Heads /\ n # p
                 /\ job.to[n] \in Sources /\ (~IsAppend => job.to[n] = p)
  <2>1. n # Nil => n \in Live
    BY <1>0, <1>2, <1>3 DEF Follows
  <2>2. n # Nil => n \notin Heads
    BY <1>2, <1>3, <2>1 DEF Placed
  <2>3. QED BY <1>2, <2>1, <2>2 DEF OrderInv, Threaded
<1>6. Heads' = (Heads \ {p}) \cup ({n} \ {Nil})
  <2>1. n = Nil => Heads' = Heads \ {p}
    BY <1>0, <1>2, RemoveAtRange DEF Heads
  <2>2. n # Nil => Heads' = (Heads \ {p}) \cup {n}
    BY <1>0, <1>2, <1>5, ReplaceAtRange DEF Heads
  <2>3. QED BY <2>1, <2>2
<1>7. /\ \A x \in Name : x # n => fdel'[x] = fdel[x]
      /\ n # Nil /\ IsMove => fdel'[n] = p
      /\ ~IsMove => fdel' = fdel
  BY <1>0, <1>2, <1>5
<1>8. \A r \in Live \ {p} : p \notin Chain(r)
  BY <1>0, <1>2, <1>3, HeadAlone
<1> HIDE DEF n
<1>9. Untried' /\ Threaded' /\ Walking'
  BY <1>0, <1>1, <1>2 DEF OrderInv, Untried, Threaded, Walking
<1>10. Cycles'
  <2>1. ASSUME IsMove PROVE Cycles'
    <3>1. \A c \in cycle : c \in Heads /\ fdel[c] = Nil /\ \A x \in Name : thendo[x] # c
      BY <1>0, <2>1 DEF OrderInv, Cycles
    <3>2. p \notin cycle /\ n \notin cycle
      BY <1>2, <3>1 DEF n
    <3>3. \A c \in cycle : c \in Heads' /\ fdel'[c] = Nil
      BY <1>2, <1>6, <1>7, <3>1, <3>2
    <3>4. \A r \in aliased : \E h \in cycle \cap Heads : job.to[h] = r /\ r \in Chain(h)
      BY <1>0, <2>1 DEF OrderInv, Cycles
    <3>5. QED BY <1>0, <1>1, <1>2, <3>1, <3>3, <3>4 DEF Cycles
  <2>2. QED BY <1>0, <1>1, <2>1 DEF Cycles, EarlyPhases
<1>11. Ordered'
  <2>1. ASSUME NEW r \in Live', job.to[r] \in Live'
        PROVE  Behind(r)' \/ Breaks(r)'
    <3>1. Behind(r) \/ Breaks(r)
      BY <1>0, <1>2, <1>4, <2>1 DEF OrderInv, Ordered
    <3>2. r \in Heads => r \in Heads'
      BY <1>4, <1>6, <2>1
    <3>3. QED BY <1>0, <1>1, <2>1, <3>1, <3>2 DEF Behind, Breaks
  <2>2. QED BY <1>0, <1>2, <2>1 DEF Ordered
<1>12. Recorded'
  <2>1. ASSUME IsMove, NEW r \in Live'
        PROVE  fdel'[r] = IF job.to[r] \in Live' THEN Nil ELSE Snapshot(r)
    <3>1. r \in Live /\ r # p /\ r \in Name /\ r \in Sources /\ ~IsAppend
      BY <1>2, <1>4, <2>1 DEF IsMove, IsAppend, MoveOps, AppendOps
    <3>2. CASE r = n
      <4>1. job.to[r] = p /\ fdel'[r] = p
        BY <1>2, <1>5, <1>7, <2>1, <3>1, <3>2
      <4>2. QED BY <1>2, <1>4, <3>1, <4>1 DEF Snapshot
    <3>3. CASE r # n
      <4>1. job.to[r] # p
        <5>1. ASSUME job.to[r] = p PROVE FALSE
          <6>1. ~Behind(r) /\ ~Breaks(r)
            BY <1>8, <3>1, <3>3, <5>1 DEF Behind, Breaks, n
          <6>2. QED BY <1>0, <1>2, <1>3, <3>1, <5>1, <6>1 DEF OrderInv, Ordered
        <5>2. QED BY <5>1
      <4>2. fdel[r] = IF job.to[r] \in Live THEN Nil ELSE Snapshot(r)
        BY <1>0, <1>2, <2>1, <3>1 DEF OrderInv, Recorded
      <4>3. QED BY <1>4, <1>7, <3>1, <3>3, <4>1, <4>2
    <3>4. QED BY <3>2, <3>3
  <2>2. Live' \subseteq Name
    BY <1>2, <1>4
  <2>3. QED BY <1>0, <1>1, <1>2, <2>1, <2>2 DEF Recorded
<1>13. AppendCycles'
  <2> SUFFICES ASSUME IsAppend
               PROVE  /\ \A r \in aliased \cap Live' :
                            \/ \E h \in cycle \cap Heads' : job.to[h] = r /\ r \in Chain(h)
                            \/ again' /\ r \in Chain(p')
                      /\ again' => fiRep'[fdel'[p']] = Mistake
    BY <1>0, <1>1 DEF AppendCycles
  <2>1. ~IsMove /\ fdel' = fdel
    BY <1>7 DEF IsMove, IsAppend, MoveOps, AppendOps
  <2>2. n # Nil => p' = n
    <3>1. n # Nil => list' = [list EXCEPT ![i] = n]
      BY <1>0 DEF ReplaceAt
    <3>2. DOMAIN list = 1..Len(list)
      BY <1>2, PlanFacts
    <3>3. QED BY <1>0, <1>2, <3>1, <3>2 DEF p
  <2>3. ASSUME NEW r \in aliased \cap Live', r \in Chain(p)
        PROVE  again' /\ r \in Chain(p')
    <3>1. n # Nil /\ r \in Chain(n)
      BY <1>2, <1>4, <2>3, ChainBehind DEF n
    <3>2. QED BY <1>0, <2>2, <3>1
  <2>4. ASSUME NEW r \in aliased \cap Live'
        PROVE  \/ \E h \in cycle \cap Heads' : job.to[h] = r /\ r \in Chain(h)
               \/ again' /\ r \in Chain(p')
    <3>1. \/ \E h \in cycle \cap Heads : job.to[h] = r /\ r \in Chain(h)
          \/ r \in Chain(p)
      BY <1>0, <1>4 DEF OrderInv, AppendCycles
    <3>2. CASE r \in Chain(p)
      BY <2>3, <3>2
    <3>3. CASE r \notin Chain(p)
      BY <1>6, <3>1, <3>3
    <3>4. QED BY <3>2, <3>3
  <2>5. ASSUME n # Nil
        PROVE  fiRep'[fdel'[p']] = Mistake
    <3> DEFINE s == job.to[n]
    <3>1. s \in Sources /\ n \in Live /\ n \notin Heads /\ n \in Name /\ n # p
      BY <1>5, <2>5
    <3>2. fdel[n] = s
      BY <1>2, <2>1, <3>1 DEF StoreInv, Snapshot
    <3>3. s \in Live => s = p
      <4>1. ASSUME s \in Live, s # p PROVE FALSE
        <5>1. s # n /\ n \in Chain(s)
          BY <1>0, <1>2, <2>1, <3>1, <4>1 DEF OrderInv, Ordered, Behind, Breaks
        <5>2. PICK y \in Chain(s) : thendo[y] = n
          BY <1>2, <3>1, <5>1, ChainPred
        <5>3. y = p
          <6>1. y \in Name
            BY <1>2 DEF Chain
          <6>2. QED BY <1>2, <2>5, <5>2, <6>1 DEF Threads, n
        <5>4. QED BY <1>8, <4>1, <5>2, <5>3
      <4>2. QED BY <4>1
    <3>4. fiRep[s] = Mistake \/ s = p
      BY <1>2, <3>1, <3>3 DEF StoreInv, Live
    <3>5. fiRep'[s] = Mistake
      BY <1>0, <1>2, <3>1, <3>4, PlanFacts
    <3>6. QED BY <2>1, <2>2, <2>5, <3>2, <3>5
  <2>6. QED BY <1>0, <2>4, <2>5
<1>14. QED BY <1>0, <1>1, <1>9, <1>10, <1>11, <1>12, <1>13 DEF OrderInv

\* Every step of planning keeps what is chained in an order that works.
LEMMA OrderStep == BaseInv /\ BaseInv' /\ OrderInv /\ [PlanNext]_vars => OrderInv'
<1> SUFFICES ASSUME BaseInv, BaseInv', OrderInv, [PlanNext]_vars
             PROVE  OrderInv'
  OBVIOUS
<1>1. CASE pc' = "exit"
  <2>1. Todo' = {}
    BY <1>1 DEF Todo
  <2>2. CASE UNCHANGED vars
    <3>1. UNCHANGED <<job, thendo>>
      BY <2>2 DEF vars, repVars
    <3>2. UNCHANGED <<Sources, IsAppend>>
      BY <3>1 DEF Sources, IsAppend
    <3>3. Threaded'
      BY <3>1, <3>2 DEF OrderInv, Threaded
    <3>4. QED BY <1>1, <2>1, <3>3 DEF OrderInv, Untried, Walking, Cycles, Ordered,
                                      Recorded, AppendCycles
  <2>3. CASE PlanNext
    <3>1. UNCHANGED <<job, thendo>>
      BY <1>1, <2>3
         DEF PlanNext, PlanStep, CheckCollisions, ScanPair, ScanDone, OrderSkip,
         OrderFree, OrderCycle, OrderWait, WalkChain, UpdateFirst, UnlinkHead,
         OrderDone, ChainKeep, ChainEnter, PrintChainCall, PrintChainReturn,
         ChainUnlink, ChainsDone, DelNothing, BadDelKeep, BadDelRefuse, BadDelDone,
         GoOn, OrDie, SkipDelYes, SkipDelNo, SkipDelQuit, SkipDelDone, Breakout,
         KeepHead, RefuseHead, repVars
    <3>2. UNCHANGED <<Sources, IsAppend>>
      BY <3>1 DEF Sources, IsAppend
    <3>3. Threaded'
      BY <3>1, <3>2 DEF OrderInv, Threaded
    <3>4. QED BY <1>1, <2>1, <3>3 DEF OrderInv, Untried, Walking, Cycles, Ordered,
                                      Recorded, AppendCycles
  <2>4. QED BY <2>2, <2>3
<1>2. CASE UNCHANGED vars
  <2>1. UNCHANGED <<job, repVars, pc, planVars>>
    BY <1>2 DEF vars
  <2>2. UNCHANGED <<Live, Sources, Heads, Todo, p, IsAppend, IsMove>>
    BY <2>1 DEF repVars, planVars, Live, Sources, Heads, Todo, p, IsAppend, IsMove
  <2>3. (\A h : Chain(h)' = Chain(h)) /\ \A m \in Name : Snapshot(m)' = Snapshot(m)
    BY <2>1, SameChains DEF repVars, Snapshot, Sources
  <2>4. Live \subseteq Name /\ Todo \subseteq Name
    <3>1. Heads \subseteq Name
      BY PlanFacts, ElementOfSeq DEF BaseInv, Heads, Range
    <3>2. QED BY <3>1, PlanFacts, TodoFacts DEF BaseInv
  <2>5. Untried' /\ Threaded' /\ Walking' /\ Cycles'
    BY <2>1, <2>2, <2>3, <2>4
       DEF repVars, planVars, OrderInv, Untried, Threaded, Walking, Cycles
  <2>6. Ordered' /\ Recorded' /\ AppendCycles'
    BY <2>1, <2>2, <2>3, <2>4
       DEF repVars, planVars, OrderInv, Ordered, Behind, Breaks, Recorded,
           AppendCycles
  <2>7. QED BY <2>1, <2>2, <2>5, <2>6 DEF OrderInv
<1>3. CASE PlanNext /\ pc' # "exit"
  BY <1>3, OrderQuiet, OrderScans, OrderSkips, OrderCycles, OrderWaits, OrderWalks,
     OrderUnlinks, OrderChains, OrderRefuses
     DEF PlanNext, PlanStep, QuietStep
<1>4. QED BY <1>1, <1>2, <1>3

\* So the order is right all along.
LEMMA OrderKept == PlanSpec => []OrderInv
BY BaseKept, OrderInit, OrderStep, PTL DEF PlanSpec

\* A move comes right after the one whose source it replaces, or breaks a
\* cycle there; everything else it would replace is recorded for deletion.
THEOREM MovesInOrder == PlanSpec => []MoveOrderRight
<1>1. BaseInv /\ OrderInv => MoveOrderRight
  <2> SUFFICES ASSUME BaseInv, OrderInv, pc = "doreps", IsMove, NEW r \in Live
               PROVE  LET t == job.to[r] IN
                      /\ t \in Live => /\ fdel[r] = Nil
                                       /\ \/ thendo[t] = r
                                          \/ /\ r \in cycle /\ r \in Heads
                                             /\ t \in aliased /\ t \in Chain(r)
                                             /\ thendo[t] = Nil
                      /\ t \notin Live => fdel[r] = IF t \in job.files THEN t ELSE Nil
                      /\ r \in aliased => \E h \in cycle \cap Heads : job.to[h] = r
    BY DEF MoveOrderRight
  <2>1. /\ Todo = {} /\ ~IsAppend /\ r \in Sources
        /\ job.to[r] \notin Live \/ Behind(r) \/ Breaks(r)
        /\ fdel[r] = IF job.to[r] \in Live THEN Nil ELSE Snapshot(r)
    BY OrderFacts DEF Todo, IsMove, IsAppend, MoveOps, AppendOps, OrderInv, Ordered,
                      Recorded
  <2>2. r \in aliased => \E h \in cycle \cap Heads : job.to[h] = r
    BY DEF OrderInv, Cycles
  <2>3. QED BY <2>1, <2>2 DEF Behind, Breaks, Snapshot
<1>2. QED BY <1>1, BaseKept, OrderKept, PTL

\* A file is read before anything is appended to it, or its length is taken by
\* the head of the cycle.
THEOREM AppendsInOrder == PlanSpec => []AppendOrderRight
<1>1. BaseInv /\ OrderInv => AppendOrderRight
  <2> SUFFICES ASSUME BaseInv, OrderInv, pc = "doreps", IsAppend, NEW r \in Live
               PROVE  LET t == job.to[r] IN
                      /\ t \in Live =>
                           \/ r # t /\ r \in Chain(t)
                           \/ r \in cycle \cap Heads /\ t \in aliased \cap Chain(r)
                      /\ r \in aliased =>
                           \E h \in cycle \cap Heads : job.to[h] = r /\ r \in Chain(h)
    BY DEF AppendOrderRight
  <2>1. Todo = {} /\ (job.to[r] \notin Live \/ Behind(r) \/ Breaks(r))
    BY DEF Todo, OrderInv, Ordered
  <2>2. ~again
    BY DEF BaseInv, ChainedReplace
  <2>3. r \in aliased => \E h \in cycle \cap Heads : job.to[h] = r /\ r \in Chain(h)
    BY <2>2 DEF OrderInv, AppendCycles
  <2>4. QED BY <2>1, <2>3 DEF Behind, Breaks
<1>2. QED BY <1>1, BaseKept, OrderKept, PTL
-----------------------------------------------------------------------------
(***************************************************************************)
(* nochains, and what baddel and skipdel let through.                      *)
(***************************************************************************)
CopyOrLink == job.op \in CopyOps \cup LinkOps
ChainPhases == {"chains", "descend", "unwind"}
DelPhases == {"baddel", "goonordie", "skipdel", "doreps"}

\* nochains has looked at the heads before its cursor; when it is through
\* every rep that is left is alone, and its target is nobody's source.
NoChainInv ==
    /\ pc \in ChainPhases => \A h \in Heads \ Later(list, i) : ~Chained(h)
    /\ pc \in DelPhases /\ CopyOrLink =>
         \A r \in Live : r \in Heads /\ ~Chained(r) /\ job.to[r] \notin Live

\* When every head is unchained, every live rep is one, and replaces no source.
LEMMA AllAlone ==
  ASSUME BaseInv, OrderInv, pc = "chains", NoChainInv, ~MoreHeads, NEW r \in Live
  PROVE  r \in Heads /\ ~Chained(r) /\ job.to[r] \notin Live
<1>1. /\ Threads /\ Sources \subseteq Name /\ Heads \subseteq Sources
      /\ Live \subseteq Sources /\ Todo = {} /\ ~IsAppend /\ LinkInv /\ PlanInv
      /\ StoreInv
  BY OrderFacts DEF Todo, OrderInv, IsAppend, CopyOps, LinkOps, AppendOps
<1>2. Later(list, i) = {}
  BY <1>1, PlanFacts, LaterFacts DEF MoreHeads
<1>3. \A h \in Heads : h \notin cycle /\ thendo[h] = Nil
  BY <1>2 DEF NoChainInv, ChainPhases, Chained
<1>4. Live \subseteq Heads
  <2>1. ASSUME NEW x \in Live PROVE x \in Heads
    <3>1. PICK h \in Heads : x \in Chain(h)
      BY <1>1, LiveChained
    <3>2. QED BY <1>1, <1>3, <3>1, ChainBehind
  <2>2. QED BY <2>1
<1>5. ASSUME job.to[r] \in Live PROVE FALSE
  <2>1. Behind(r) \/ Breaks(r)
    BY <1>1, <1>5 DEF OrderInv, Ordered
  <2>2. r # Nil
    BY <1>1, OrderFacts
  <2>3. QED BY <1>1, <1>3, <1>4, <1>5, <2>1, <2>2 DEF Behind, Breaks
<1>6. QED BY <1>3, <1>4, <1>5 DEF Chained

\* Nothing is chained at first.
LEMMA NoChainInit == PlanInit => NoChainInv
BY DEF PlanInit, RepInit, NoChainInv, ChainPhases, DelPhases

\* Every step keeps this.
LEMMA NoChainStep ==
  BaseInv /\ OrderInv /\ NoChainInv /\ [PlanNext]_vars => NoChainInv'
<1> SUFFICES ASSUME BaseInv, OrderInv, NoChainInv, [PlanNext]_vars
             PROVE  NoChainInv'
  OBVIOUS
<1> USE DEF ChainPhases, DelPhases
<1>0. /\ PlanInv /\ StoreInv /\ list \in Seq(Name) /\ i \in Nat
      /\ MoreHeads => i \in 1..Len(list) /\ p = list[i]
  BY PlanFacts, AtCursor DEF BaseInv, p
<1>q. ASSUME UNCHANGED <<job, list, thendo, fiRep, cycle>>,
             pc' \in DelPhases => pc \in DelPhases,
             pc' \in ChainPhases => pc \in ChainPhases /\ UNCHANGED i
      PROVE  NoChainInv'
  <2>1. UNCHANGED <<Live, Heads, CopyOrLink>> /\ \A r : Chained(r)' = Chained(r)
    BY <1>q DEF Live, Sources, Heads, CopyOrLink, Chained
  <2>2. QED BY <1>q, <2>1 DEF NoChainInv
<1>1. CASE OrderDone
  <2>1. pc' = "chains" => Later(list', i') = Heads'
    BY <1>0, <1>1, LaterFacts DEF OrderDone, repVars, Heads
  <2>2. pc' # "chains" => pc' = "baddel" /\ ~CopyOrLink /\ ~CopyOrLink'
    BY <1>1 DEF OrderDone, Goto, CopyOrLink
  <2>3. QED BY <1>1, <2>1, <2>2 DEF OrderDone, Goto, NoChainInv
<1>2. CASE ChainKeep
  <2>1. /\ pc = "chains" /\ UNCHANGED <<pc, job, repVars>> /\ MoreHeads /\ ~Chained(p)
        /\ i' = i + 1
    BY <1>2 DEF ChainKeep
  <2>2. UNCHANGED Heads /\ \A r : Chained(r)' = Chained(r)
    BY <2>1 DEF repVars, Heads, Chained
  <2>3. Later(list, i) = Later(list, i + 1) \cup {p}
    BY <1>0, <2>1, LaterFacts
  <2>4. Later(list, i)' = Later(list, i + 1)
    BY <2>1 DEF repVars
  <2>5. QED BY <2>1, <2>2, <2>3, <2>4 DEF NoChainInv
<1>3. CASE ChainUnlink
  <2>1. /\ pc = "unwind" /\ pc' = "chains" /\ list' = RemoveAt(list, i) /\ i' = i
        /\ UNCHANGED <<thendo, cycle>> /\ MoreHeads /\ p \in Name
    BY <1>0, <1>3, PlanFacts, AtCursor
       DEF ChainUnlink, Goto, planVars, PlanInv, CursorOK, MoreHeads
  <2>2. IsInjective(list)
    BY <2>1, OrderFacts
  <2>3. Heads' = Heads \ {p} /\ Later(list', i) = Later(list, i + 1)
    BY <1>0, <2>1, <2>2, RemoveAtRange, LaterKept DEF Heads
  <2>4. Later(list, i) = Later(list, i + 1) \cup {p}
    BY <1>0, <2>1, LaterFacts
  <2>5. \A r : Chained(r)' = Chained(r)
    BY <2>1 DEF Chained
  <2>6. QED BY <2>1, <2>3, <2>4, <2>5 DEF NoChainInv
<1>4. CASE ChainsDone
  <2>1. /\ pc = "chains" /\ pc' = "baddel" /\ UNCHANGED <<job, repVars>> /\ ~MoreHeads
    BY <1>4 DEF ChainsDone, Goto
  <2>2. UNCHANGED <<Live, Heads>> /\ \A r : Chained(r)' = Chained(r)
    BY <2>1 DEF repVars, Live, Sources, Heads, Chained
  <2>3. QED BY <2>1, <2>2, AllAlone DEF NoChainInv
<1>5. CASE PrintChainReturn
  <2>1. pc = "unwind" /\ UNCHANGED <<pc, list, i, thendo, cycle>>
    BY <1>5 DEF PrintChainReturn
  <2>2. UNCHANGED Heads /\ \A r : Chained(r)' = Chained(r)
    BY <2>1 DEF Heads, Chained
  <2>3. QED BY <2>1, <2>2 DEF NoChainInv
<1>6. CASE BadDelRefuse \/ SkipDelNo
  <2>1. /\ pc \in {"baddel", "skipdel"} /\ pc' = pc /\ MoreHeads
        /\ UNCHANGED <<job, thendo, cycle>>
        /\ fiRep' = [fiRep EXCEPT ![p] = Mistake]
        /\ thendo[p] = Nil => list' = RemoveAt(list, i)
    BY <1>6 DEF BadDelRefuse, SkipDelNo, RefuseHead, Refuse, TakesOver, DelTested
  <2>2. /\ p \in Name /\ p \in Live /\ IsInjective(list)
    <3>1. Todo = {} /\ p \in Heads /\ p \in Name
      BY <1>0, <2>1, AtCursor DEF Todo
    <3>2. QED BY <2>1, <3>1, OrderFacts DEF HeadsLive
  <2>3. Live' = Live \ {p} /\ UNCHANGED CopyOrLink
    BY <1>0, <2>1, <2>2, RefusedLive DEF CopyOrLink
  <2>4. ASSUME CopyOrLink PROVE Heads' = Heads \ {p}
    <3>1. thendo[p] = Nil
      BY <2>1, <2>2, <2>4 DEF NoChainInv, Chained
    <3>2. QED BY <1>0, <2>1, <2>2, <3>1, RemoveAtRange DEF Heads
  <2>5. \A r : Chained(r)' = Chained(r)
    BY <2>1 DEF Chained
  <2>6. QED BY <2>1, <2>3, <2>4, <2>5 DEF NoChainInv
<1>7. CASE QuietStep /\ ~OrderDone /\ ~ChainKeep /\ ~ChainsDone
  BY <1>7, <1>q, QuietSteps
     DEF Quietly, repVars, QuietStep, CheckCollisions, ScanDone, OrderFree,
         ChainEnter, PrintChainCall, DelNothing, BadDelKeep, KeepHead, BadDelDone,
         GoOn, OrDie, SkipDelYes, SkipDelQuit, SkipDelDone, Breakout, Goto, Exit
<1>8. CASE \/ ScanPair \/ OrderSkip \/ OrderCycle \/ OrderWait \/ WalkChain
           \/ UpdateFirst \/ UnlinkHead
  BY <1>8 DEF ScanPair, OrderSkip, OrderCycle, OrderWait, WalkChain, UpdateFirst,
              UnlinkHead, Goto, NoChainInv
<1>9. CASE UNCHANGED vars
  BY <1>9, <1>q DEF vars, repVars, planVars
<1>10. QED
  BY <1>1, <1>2, <1>3, <1>4, <1>5, <1>6, <1>7, <1>8, <1>9
     DEF PlanNext, PlanStep, QuietStep

\* No copy or link that is left reads or replaces what another one writes.
THEOREM CopiesUnchained == PlanSpec => []NoChainCopies
<1>1. NoChainInv => NoChainCopies
  BY DEF NoChainInv, NoChainCopies, DelPhases, CopyOrLink, Chained
<1>2. PlanSpec => []NoChainInv
  BY BaseKept, OrderKept, NoChainInit, NoChainStep, PTL DEF PlanSpec
<1>3. QED BY <1>1, <1>2, PTL

\* What baddel asks of a head that replaces a file.
Fit(h) ==
    fdel[h] # Nil =>
      /\ job.delstyle = "NODEL" /\ ~IsAppend => h \in job.delok
      /\ job.op # "DIRMOVE" => fdel[h] \notin job.dirs
      /\ job.op \in AppendOps \cup {"OVERWRITE"} => fdel[h] \notin job.ro

Agreed(h) ==
    job.delstyle = "ASKDEL" /\ ~IsAppend /\ fdel[h] # Nil => h \in job.delok \cup yes

\* baddel has let the heads before its cursor through, and skipdel has asked
\* about the heads before its own.
DelInv ==
    /\ pc = "goonordie" => i = 1
    /\ pc = "skipdel" => job.delstyle = "ASKDEL"
    /\ pc \in DelPhases => \A h \in Heads : (pc = "baddel" => h \notin Later(list, i)) => Fit(h)
    /\ pc \in {"skipdel", "doreps"} =>
         \A h \in Heads : (pc = "skipdel" => h \notin Later(list, i)) => Agreed(h)

\* No deletion is planned at first.
LEMMA DelInit == PlanInit => DelInv
BY DEF PlanInit, RepInit, DelInv, DelPhases

\* A refused head is replaced by a rep that is unexamined, or is fit.
LEMMA DelRefuses ==
  ASSUME BaseInv, OrderInv, NoChainInv, DelInv, BadDelRefuse \/ SkipDelNo
  PROVE  DelInv'
<1> DEFINE n == thendo[p]
<1>0. /\ pc \in {"baddel", "skipdel"} /\ pc' = pc /\ MoreHeads
      /\ UNCHANGED <<job, thendo, i, yes>>
      /\ list' = IF n = Nil THEN RemoveAt(list, i) ELSE ReplaceAt(list, i, n)
      /\ fdel' = IF n # Nil /\ IsMove THEN [fdel EXCEPT ![n] = p] ELSE fdel
  BY DEF BadDelRefuse, SkipDelNo, RefuseHead, Refuse, TakesOver, DelTested
<1>1. /\ PlanInv /\ StoreInv /\ IsInjective(list) /\ Placed /\ Follows /\ HeadsLive
      /\ Tops = Heads /\ Todo = {} /\ p \in Heads /\ p \in Name /\ Nil \notin Name
      /\ Heads \subseteq Sources /\ Sources \subseteq Name /\ Live \subseteq Sources
      /\ list \in Seq(Name) /\ i \in 1..Len(list) /\ p = list[i]
      /\ fdel \in [Name -> Name \cup {Nil}] /\ JobOK(job) /\ job \in Job
  BY <1>0, OrderFacts, AtCursor, PlanFacts DEF Todo, Tops, p
<1>2. p \in Live
  BY <1>0, <1>1 DEF HeadsLive
<1>3. n # Nil => n \in Live /\ n \notin Heads /\ n \in Name
  BY <1>0, <1>1, <1>2 DEF Follows, Placed
<1>4. /\ Heads' = (Heads \ {p}) \cup ({n} \ {Nil})
      /\ Later(list, i) = Later(list, i + 1) \cup {p}
      /\ n = Nil => Later(list', i) = Later(list, i + 1)
      /\ n # Nil => Later(list', i) = Later(list, i + 1) \cup {n}
  <2>1. Later(list, i) = Later(list, i + 1) \cup {p}
    BY <1>1, LaterFacts
  <2>2. CASE n = Nil
    BY <1>0, <1>1, <2>1, <2>2, RemoveAtRange, LaterKept DEF Heads
  <2>3. CASE n # Nil
    <3>1. list' \in Seq(Name) /\ Len(list') = Len(list)
      <4>1. list \in Seq(Name) /\ i \in 1..Len(list) /\ n \in Name
        BY <1>1, <1>3, <2>3
      <4>2. list' = ReplaceAt(list, i, n)
        BY <1>0, <2>3
      <4> HIDE DEF n
      <4>3. QED BY <4>1, <4>2, ReplaceAtProperties
    <3>2. Later(list', i) = Later(list', i + 1) \cup {list'[i]}
      BY <1>1, <3>1, LaterFacts
    <3>3. list'[i] = n
      <4>1. DOMAIN list = 1..Len(list)
        BY <1>1, PlanFacts
      <4>2. QED BY <1>0, <1>1, <2>3, <4>1 DEF ReplaceAt
    <3>4. Later(list', i + 1) = Later(list, i + 1)
      BY <1>0, <1>1, <1>3, <2>3, LaterKept
    <3>5. Heads' = (Heads \ {p}) \cup {n}
      BY <1>0, <1>1, <1>3, <2>3, ReplaceAtRange DEF Heads
    <3>6. QED BY <2>1, <2>3, <3>2, <3>3, <3>4, <3>5
  <2>4. QED BY <2>2, <2>3
<1>5. UNCHANGED <<IsAppend, IsMove>>
  BY <1>0 DEF IsAppend, IsMove
<1>6. ASSUME NEW h \in Heads, h # p
      PROVE  (Fit(h) <=> Fit(h)') /\ (Agreed(h) <=> Agreed(h)')
  <2>1. fdel'[h] = fdel[h]
    BY <1>0, <1>1, <1>3, <1>6
  <2>2. QED BY <1>0, <1>5, <2>1 DEF Fit, Agreed
<1>7. ASSUME pc = "skipdel", n # Nil, NEW h, h = n
      PROVE  Fit(h)' /\ h \in Later(list', i)
  <2>1. IsMove
    <3>1. ~IsAppend
      BY <1>7 DEF OrderInv
    <3>2. ~CopyOrLink
      BY <1>2, <1>7 DEF NoChainInv, DelPhases, Chained
    <3>3. job.op \in Ops
      BY <1>1 DEF Job
    <3>4. QED BY <3>1, <3>2, <3>3 DEF IsMove, IsAppend, CopyOrLink, Ops
  <2>2. fdel'[n] = p
    BY <1>0, <1>1, <1>3, <1>7, <2>1
  <2>3. job.op # "DIRMOVE" => p \notin job.dirs
    BY <1>1 DEF JobOK, Sources
  <2>4. job.delstyle # "NODEL" /\ job.op \notin AppendOps \cup {"OVERWRITE"}
    BY <1>7, <2>1 DEF DelInv, IsMove, MoveOps, AppendOps
  <2>5. Fit(h)'
    BY <1>0, <1>7, <2>2, <2>3, <2>4 DEF Fit
  <2>6. QED BY <1>4, <1>7, <2>5
<1> HIDE DEF n
<1>8. \A h \in Heads' : (pc = "baddel" => h \notin Later(list', i)) => Fit(h)'
  BY <1>0, <1>4, <1>6, <1>7 DEF DelInv, DelPhases
<1>9. pc = "skipdel" => \A h \in Heads' : h \notin Later(list', i) => Agreed(h)'
  BY <1>0, <1>4, <1>6, <1>7 DEF DelInv
<1>10. QED BY <1>0, <1>8, <1>9 DEF DelInv

\* The other steps.
LEMMA DelStep ==
  BaseInv /\ OrderInv /\ NoChainInv /\ DelInv /\ [PlanNext]_vars => DelInv'
<1> SUFFICES ASSUME BaseInv, OrderInv, NoChainInv, DelInv, [PlanNext]_vars
             PROVE  DelInv'
  OBVIOUS
<1> USE DEF DelPhases
<1>0. /\ PlanInv /\ StoreInv /\ list \in Seq(Name) /\ i \in Nat /\ i # 0
      /\ MoreHeads => i \in 1..Len(list) /\ p = list[i]
      /\ ~MoreHeads => Later(list, i) = {}
      /\ Later(list, 1) = Heads
  BY PlanFacts, AtCursor, LaterFacts DEF BaseInv, p, MoreHeads, Heads
<1>1. CASE ~QuietStep /\ PlanNext /\ ~BadDelRefuse /\ ~SkipDelNo
  BY <1>1 DEF PlanNext, PlanStep, QuietStep, ScanPair, OrderSkip, OrderCycle,
              OrderWait, WalkChain, UpdateFirst, UnlinkHead, PrintChainReturn,
              ChainUnlink, Goto, DelInv
<1>2. CASE pc \notin DelPhases /\ QuietStep /\ ~OrderDone /\ ~ChainsDone
  BY <1>2 DEF QuietStep, CheckCollisions, ScanDone, OrderFree, ChainKeep, ChainEnter,
         PrintChainCall, DelNothing, BadDelKeep, BadDelDone, GoOn, OrDie, SkipDelYes,
         SkipDelQuit, SkipDelDone, Breakout, Goto, Exit, DelInv
<1>3. CASE OrderDone \/ ChainsDone
  <2>1. pc' \in {"chains", "baddel"} /\ i' = 1 /\ UNCHANGED list
    BY <1>3 DEF OrderDone, ChainsDone, Goto, repVars
  <2>2. Later(list', i') = Heads' /\ Heads' = Heads
    BY <1>0, <2>1 DEF Heads
  <2>3. QED BY <2>1, <2>2 DEF DelInv
<1>s. ASSUME UNCHANGED <<job, repVars>>
      PROVE  /\ UNCHANGED <<Heads, IsAppend>>
             /\ \A h : Fit(h)' <=> Fit(h)
             /\ yes \subseteq yes' => \A h : Agreed(h) => Agreed(h)'
  BY <1>s DEF repVars, Heads, IsAppend, Fit, Agreed
<1>4. CASE DelNothing \/ BadDelKeep \/ SkipDelYes
  <2>1. /\ pc \in {"baddel", "skipdel"} /\ pc' = pc /\ MoreHeads
        /\ UNCHANGED <<job, repVars>> /\ i' = i + 1 /\ yes \subseteq yes'
    BY <1>4 DEF DelNothing, BadDelKeep, SkipDelYes, KeepHead, DelTested
  <2>2. Later(list, i) = Later(list', i') \cup {p} /\ p \in Heads
    <3>1. Later(list, i) = Later(list, i + 1) \cup {p}
      BY <1>0, <2>1, LaterFacts
    <3>2. QED BY <1>0, <2>1, <3>1, AtCursor DEF repVars
  <2>3. Fit(p)
    <3>1. CASE DelNothing
      BY <3>1 DEF DelNothing, Fit
    <3>2. CASE BadDelKeep
      BY <3>2 DEF BadDelKeep, BadDel, Fit
    <3>3. CASE SkipDelYes
      BY <2>2, <3>3 DEF SkipDelYes, DelInv
    <3>4. QED BY <1>4, <3>1, <3>2, <3>3
  <2>4. ASSUME pc = "skipdel", NEW h, h = p
        PROVE  Agreed(h)'
    <3>1. CASE fdel[p] = Nil
      BY <2>1, <2>4, <3>1 DEF Agreed, repVars
    <3>2. CASE SkipDelYes
      BY <2>1, <2>4, <3>2 DEF SkipDelYes, Agreed
    <3>3. ~BadDelKeep
      BY <2>4 DEF BadDelKeep
    <3>4. DelNothing => fdel[p] = Nil
      BY DEF DelNothing
    <3>5. QED BY <1>4, <3>1, <3>2, <3>3, <3>4
  <2>5. \A h \in Heads' : (pc' = "baddel" => h \notin Later(list', i')) => Fit(h)'
    BY <1>s, <2>1, <2>2, <2>3 DEF DelInv
  <2>6. pc' = "skipdel" => \A h \in Heads' : h \notin Later(list', i') => Agreed(h)'
    BY <1>s, <2>1, <2>2, <2>4 DEF DelInv
  <2>7. QED BY <2>1, <2>5, <2>6 DEF DelInv
<1>5. CASE BadDelDone
  <2>1. /\ pc = "baddel" /\ pc' = "goonordie" /\ i' = 1 /\ ~MoreHeads
        /\ UNCHANGED <<job, repVars>>
    BY <1>5 DEF BadDelDone, Goto
  <2>2. QED BY <1>0, <1>s, <2>1 DEF DelInv
<1>6. CASE GoOn
  <2>1. /\ pc = "goonordie" /\ UNCHANGED <<job, repVars, planVars>>
        /\ pc' = IF ~IsAppend /\ job.delstyle = "ASKDEL" THEN "skipdel" ELSE "doreps"
    BY <1>6 DEF GoOn, Goto
  <2>2. i = 1 /\ UNCHANGED <<i, list, yes>>
    BY <2>1 DEF DelInv, planVars, repVars
  <2>3. Later(list', i') = Heads'
    BY <1>0, <2>2 DEF Heads
  <2>4. \A h \in Heads' : Fit(h)'
    BY <1>s, <2>1 DEF DelInv
  <2>5. pc' = "doreps" => \A h : Agreed(h)'
    BY <1>s, <2>1 DEF Agreed
  <2>6. QED BY <2>1, <2>3, <2>4, <2>5 DEF DelInv
<1>7. CASE SkipDelDone
  <2>1. /\ pc = "skipdel" /\ pc' = "doreps" /\ ~MoreHeads
        /\ UNCHANGED <<job, repVars, planVars>>
    BY <1>7 DEF SkipDelDone, Goto
  <2>2. UNCHANGED yes
    BY <2>1 DEF planVars
  <2>3. QED BY <1>0, <1>s, <2>1, <2>2 DEF DelInv
<1>8. CASE pc' = "exit"
  BY <1>8 DEF DelInv
<1>9. CASE BadDelRefuse \/ SkipDelNo
  BY <1>9, DelRefuses
<1>10. CASE UNCHANGED vars
  <2>1. UNCHANGED <<job, repVars, pc, i, yes, list>>
    BY <1>10 DEF vars, planVars, repVars
  <2>2. QED BY <1>s, <2>1 DEF DelInv
<1>11. OrDie \/ SkipDelQuit \/ Breakout => pc' = "exit"
  BY DEF OrDie, SkipDelQuit, Breakout, Exit
<1>12. pc \in DelPhases => ~CheckCollisions /\ ~ScanDone /\ ~OrderFree /\ ~ChainKeep
                           /\ ~ChainEnter /\ ~PrintChainCall
  BY DEF CheckCollisions, ScanDone, OrderFree, ChainKeep, ChainEnter, PrintChainCall
<1>13. QED
  BY <1>1, <1>2, <1>3, <1>4, <1>5, <1>6, <1>7, <1>8, <1>9, <1>10, <1>11, <1>12
     DEF QuietStep

\* Deletions and lists without chains, of every state of planning.
LEMMA DelKept == PlanSpec => [](NoChainInv /\ DelInv)
<1>1. PlanSpec => []NoChainInv
  BY BaseKept, OrderKept, NoChainInit, NoChainStep, PTL DEF PlanSpec
<1>2. PlanSpec => []DelInv
  BY <1>1, BaseKept, OrderKept, DelInit, DelStep, PTL DEF PlanSpec
<1>3. QED BY <1>1, <1>2, PTL
\* A rep that waits for another one replaces what a source of the job was.
LEMMA WaitingReplaces ==
  ASSUME BaseInv, OrderInv, NoChainInv, pc = "doreps", NEW r \in Live, r \notin Heads
  PROVE  /\ ~CopyOrLink
         /\ IsMove => fdel[r] = Nil
         /\ fdel[r] # Nil => fdel[r] \in Sources
<1>1. /\ StoreInv /\ Placed /\ Tops = Heads /\ Todo = {} /\ Live \subseteq Sources
      /\ Sources \subseteq Name /\ Nil \notin Name
  BY OrderFacts DEF Tops, Todo
<1>2. PICK x \in Live : thendo[x] = r
  BY <1>1 DEF Placed
<1>3. job.to[r] \in Sources /\ (~IsAppend => job.to[r] = x)
  BY <1>1, <1>2 DEF OrderInv, Threaded
<1>4. ~CopyOrLink
  BY DEF NoChainInv, DelPhases
<1>5. ASSUME IsMove PROVE fdel[r] = Nil
  <2>1. job.to[r] \in Live
    BY <1>2, <1>3, <1>5 DEF IsMove, IsAppend, MoveOps, AppendOps
  <2>2. QED BY <1>1, <1>5, <2>1 DEF OrderInv, Recorded
<1>6. ASSUME fdel[r] # Nil PROVE fdel[r] \in Sources
  <2>1. fdel[r] = Snapshot(r)
    BY <1>1, <1>5, <1>6 DEF StoreInv
  <2>2. QED BY <1>3, <1>6, <2>1 DEF Snapshot
<1>7. QED BY <1>4, <1>5, <1>6

\* Nothing is deleted that was not agreed to.
THEOREM DeletesAgreed == PlanSpec => []DeletionsApproved
<1>1. BaseInv /\ OrderInv /\ NoChainInv /\ DelInv => DeletionsApproved
  <2> SUFFICES ASSUME BaseInv, OrderInv, NoChainInv, DelInv, pc = "doreps", ~IsAppend,
                      NEW r \in Live, fdel[r] # Nil
               PROVE  r \in job.delok \/ job.delstyle = "ALLDEL" \/ r \in yes
    BY DEF DeletionsApproved
  <2>1. job.op \in Ops /\ job.delstyle \in DelStyles
    BY OrderFacts, PlanFacts DEF Job
  <2>2. r \in Heads
    BY <2>1, WaitingReplaces DEF Ops, IsMove, IsAppend, CopyOrLink
  <2>3. Fit(r) /\ Agreed(r)
    BY <2>2 DEF DelInv, DelPhases
  <2>4. QED BY <2>1, <2>3 DEF Fit, Agreed, DelStyles
<1>2. QED BY <1>1, BaseKept, OrderKept, DelKept, PTL

\* Nothing is replaced of which baddel can know that it will fail.
THEOREM ReplacesHopeful == PlanSpec => []NoHopelessReplacement
<1>1. BaseInv /\ OrderInv /\ NoChainInv /\ DelInv => NoHopelessReplacement
  <2> SUFFICES ASSUME BaseInv, OrderInv, NoChainInv, DelInv, pc = "doreps",
                      NEW r \in Live, fdel[r] # Nil
               PROVE  /\ job.op # "DIRMOVE" => fdel[r] \notin job.dirs
                      /\ job.op = "OVERWRITE" \/ (IsAppend /\ r \in Heads)
                           => fdel[r] \notin job.ro
    BY DEF NoHopelessReplacement
  <2>1. CASE r \in Heads
    <3>1. Fit(r)
      BY <2>1 DEF DelInv, DelPhases
    <3>2. QED BY <3>1 DEF Fit, IsAppend
  <2>2. CASE r \notin Heads
    <3>1. fdel[r] \in Sources /\ ~CopyOrLink
      BY <2>2, WaitingReplaces
    <3>2. job.op # "DIRMOVE" => Sources \cap job.dirs = {}
      BY OrderFacts, PlanFacts DEF JobOK, Sources
    <3>3. QED BY <2>2, <3>1, <3>2 DEF CopyOrLink, CopyOps
  <2>3. QED BY <2>1, <2>2
<1>2. QED BY <1>1, BaseKept, OrderKept, DelKept, PTL

\* With the totals of the code right, no doubts means that nothing was refused.
LEMMA NoDoubts ==
  ASSUME PlanInv, AccountsBalance, pc = "goonordie", ~Doubts
  PROVE  Live = {} \/ (Live = Sources /\ job.bad = {} /\ ~job.paterr)
<1>1. /\ IsFiniteSet(Sources) /\ Cardinality(Sources) = Len(job.reps)
      /\ Live \subseteq Sources /\ IsFiniteSet(job.bad) /\ Len(job.reps) \in Nat
      /\ badreps \in Nat
  <2>1. job.bad \subseteq Name /\ job.reps \in Seq(Name) /\ badreps \in Nat
    BY PlanFacts DEF Job, PlanInv, PlanTypeOK, RepTypeOK
  <2>2. QED BY <2>1, SourcesCounted, PlanFacts, FS_Subset, LenProperties,
               NameAssumption
<1>2. /\ IsFiniteSet(Live) /\ Cardinality(Live) \in Nat
      /\ Cardinality(Live) <= Cardinality(Sources) /\ Cardinality(job.bad) \in Nat
      /\ Cardinality(Live) = Cardinality(Sources) => Live = Sources
  BY <1>1, FS_Subset, FS_CardinalityType
<1>3. nreps = Cardinality(Live) /\ nreps + badreps = Len(job.reps) + Cardinality(job.bad)
  BY DEF AccountsBalance
<1>4. CASE nreps = 0
  BY <1>2, <1>3, <1>4, FS_EmptySet
<1>5. CASE nreps # 0
  <2>1. ~job.paterr /\ badreps = 0
    BY <1>1, <1>2, <1>3, <1>5 DEF Doubts
  <2>2. Cardinality(Live) = Cardinality(Sources) /\ Cardinality(job.bad) = 0
    BY <1>1, <1>2, <1>3, <2>1
  <2>3. job.bad = {}
    BY <1>1, <2>2, FS_EmptySet
  <2>4. QED BY <1>2, <2>1, <2>2, <2>3
<1>6. QED BY <1>4, <1>5

\* With -t, all of it is carried out or nothing.
THEOREM AbortsWhole == PlanSpec => []AbortAllOrNothing
<1>1. PlanInit => AbortAllOrNothing
  BY DEF PlanInit, RepInit, AbortAllOrNothing
<1>2. PlanInv /\ AccountsBalance /\ DelInv /\ AbortAllOrNothing /\ [PlanNext]_vars
        => AbortAllOrNothing'
  <2> SUFFICES ASSUME PlanInv, AccountsBalance, DelInv, AbortAllOrNothing,
                      [PlanNext]_vars, pc' = "doreps"
               PROVE  AbortAllOrNothing'
    BY DEF AbortAllOrNothing
  <2>1. CASE GoOn
    <3>1. UNCHANGED <<job, fiRep>> /\ pc = "goonordie"
      BY <2>1 DEF GoOn, repVars
    <3>2. UNCHANGED <<Live, Sources>>
      BY <3>1 DEF Live, Sources
    <3>3. job.badstyle = "ABORTBAD" => ~Doubts
      BY <2>1 DEF GoOn
    <3>4. QED BY <3>1, <3>2, <3>3, NoDoubts DEF AbortAllOrNothing
  <2>2. CASE SkipDelDone
    BY <2>2 DEF SkipDelDone, DelInv, AbortAllOrNothing
  <2>3. CASE UNCHANGED vars
    <3>1. UNCHANGED <<job, fiRep, pc>>
      BY <2>3 DEF vars, repVars
    <3>2. QED BY <3>1 DEF AbortAllOrNothing, Live, Sources
  <2>4. QED
    BY <2>1, <2>2, <2>3
       DEF PlanNext, PlanStep, CheckCollisions, ScanPair, ScanDone, OrderSkip,
           OrderFree, OrderCycle, OrderWait, WalkChain, UpdateFirst, UnlinkHead,
           OrderDone, ChainKeep, ChainEnter, PrintChainCall, PrintChainReturn,
           ChainUnlink, ChainsDone, DelNothing, BadDelKeep, KeepHead, BadDelRefuse,
           BadDelDone, RefuseHead, OrDie, SkipDelYes, SkipDelNo, SkipDelQuit,
           Breakout, Goto, Exit
<1>3. PlanSpec => []PlanInv
  BY PlanInvariant DEF PlanInv
<1>4. QED BY <1>1, <1>2, <1>3, AccountsAlwaysBalance, DelKept, PTL DEF PlanSpec
-----------------------------------------------------------------------------
(***************************************************************************)
(* What planning hands to doreps.                                          *)
(***************************************************************************)
\* The rep that is set aside for the head of a cycle is a source.
CycleTargets == \A c \in cycle : job.to[c] \in Sources

\* The cycles of copies and links go with their chains, whose refused reps
\* lead to refused ones.
CopyCycles ==
    CopyOrLink =>
      /\ pc \in ChainPhases =>
           /\ \A x \in Name : thendo[x] \in Live => x \in Live
           /\ \A r \in aliased \cap Live :
                \E h \in cycle \cap Live : job.to[h] = r /\ r \in Chain(h)
      /\ pc \in DelPhases => aliased \cap Live = {}

\* A cycle of appends is left only by refusing its head.
AppendHeads == IsAppend /\ pc \in DelPhases => cycle \cap Live \subseteq Heads

CycleInv == CycleTargets /\ CopyCycles /\ AppendHeads

\* No cycle has been found when planning begins.
LEMMA CycleInit == PlanInit => CycleInv
BY DEF PlanInit, RepInit, RepStart, CycleInv, CycleTargets, CopyCycles, AppendHeads,
       ChainPhases, DelPhases

\* findorder finds the cycles, nochains and scandeletes only refuse reps.
LEMMA CycleStep ==
  BaseInv /\ OrderInv /\ NoChainInv /\ CycleInv /\ [PlanNext]_vars => CycleInv'
<1> SUFFICES ASSUME BaseInv, OrderInv, NoChainInv, CycleInv, [PlanNext]_vars
             PROVE  CycleInv'
  OBVIOUS
<1> USE DEF ChainPhases, DelPhases
<1>0. /\ PlanInv /\ StoreInv /\ Nil \notin Name /\ Live \subseteq Sources
      /\ Sources \subseteq Name /\ \A x \in Name : job.to[x] \in Name
      /\ \A x \in Name : thendo[x] \in Name \cup {Nil}
  BY PlanFacts DEF BaseInv, PlanInv, PlanTypeOK, RepTypeOK
<1>q. QuietStep => UNCHANGED <<job, repVars>>
  BY QuietSteps DEF Quietly
<1>1. CASE OrderCycle
  <2>1. /\ pc = "order" /\ pc' = "order" /\ MoreHeads /\ Waits(p)
        /\ cycle' = cycle \cup {p} /\ UNCHANGED job
    BY <1>1 DEF OrderCycle
  <2>2. fdel[p] = job.to[p] /\ p \in Name
    BY <1>0, <2>1, AtCursor DEF StoreInv, EarlyPhases, Waits, Snapshot
  <2>3. job.to[p] \in Sources
    BY <1>0, <2>1, <2>2 DEF Waits, Pred, StoreInv
  <2>4. QED BY <2>1, <2>3 DEF CycleInv, CycleTargets, CopyCycles, AppendHeads, Sources
<1>2. CASE OrderDone
  <2>1. /\ pc = "order" /\ ~MoreHeads /\ pc' \in {"chains", "baddel"}
        /\ UNCHANGED <<job, repVars>> /\ (CopyOrLink => pc' = "chains")
    BY <1>2 DEF OrderDone, Goto, CopyOrLink
  <2>2. /\ UNCHANGED <<Live, Sources, CopyOrLink, thendo, cycle, aliased>>
        /\ \A h : Chain(h)' = Chain(h)
    BY <2>1, SameChains DEF repVars, Live, Sources, CopyOrLink
  <2>3. Heads \subseteq Live
    <3>1. Todo = {}
      BY <1>0, <2>1, TodoFacts
    <3>2. HeadsLive
      BY <2>1, OrderFacts
    <3>3. QED BY <2>1, <3>1, <3>2 DEF HeadsLive
  <2>4. \A x \in Name : thendo[x] \in Live => x \in Live
    BY <1>0, <2>1 DEF BaseInv, ChainInv, LinkInv, EarlyPhases
  <2>5. \A r \in aliased : \E h \in cycle \cap Heads : job.to[h] = r /\ r \in Chain(h)
    BY <2>1 DEF OrderInv, Cycles, EarlyPhases
  <2>6. cycle \subseteq Heads /\ UNCHANGED Heads
    BY <2>1 DEF OrderInv, Cycles, EarlyPhases, repVars, Heads
  <2>7. QED BY <2>1, <2>2, <2>3, <2>4, <2>5, <2>6
            DEF CycleInv, CycleTargets, CopyCycles, AppendHeads
<1>3. CASE PrintChainReturn
  <2> DEFINE l == Last(stack)
  <2>1. /\ pc = "unwind" /\ pc' = "unwind" /\ stack # << >>
        /\ UNCHANGED <<job, thendo, cycle, aliased>>
        /\ fiRep' = [fiRep EXCEPT ![l] = Mistake]
    BY <1>3 DEF PrintChainReturn, Refuse
  <2>2. stack \in Seq(Name)
    BY <1>0 DEF PlanInv, PlanTypeOK
  <2>3. l \in Live /\ thendo[l] \notin Live
    <3>1. StackInv
      BY <2>1 DEF BaseInv, ChainInv, LinkInv
    <3>2. Len(stack) \in DOMAIN stack /\ l = stack[Len(stack)]
      BY <2>1, <2>2, LenProperties DEF Last
    <3>3. QED BY <2>1, <3>1, <3>2 DEF StackInv
  <2> HIDE DEF l
  <2>4. Live' = Live \ {l}
    BY <1>0, <2>1, <2>3, RefusedLive
  <2>5. UNCHANGED <<Sources, CopyOrLink>> /\ \A h : Chain(h)' = Chain(h)
    BY <2>1, SameChains DEF Sources, CopyOrLink
  <2>6. ASSUME CopyOrLink, NEW r \in Live, r # l
        PROVE  r \notin Chain(l)
    <3>1. Closed({l} \cup (Sources \ Live))
      BY <1>0, <2>1, <2>3, <2>6
         DEF Closed, CycleInv, CopyCycles, BaseInv, ChainInv, LinkInv, Threads
    <3>2. Chain(l) \subseteq {l} \cup (Sources \ Live)
      BY <1>0, <2>3, <3>1, ChainLeast
    <3>3. QED BY <2>6, <3>2
  <2>7. QED BY <2>1, <2>3, <2>4, <2>5, <2>6
            DEF CycleInv, CycleTargets, CopyCycles, AppendHeads
<1>4. CASE ChainUnlink
  <2>1. /\ pc = "unwind" /\ pc' = "chains"
        /\ UNCHANGED <<job, thendo, cycle, aliased, fiRep>>
    BY <1>4 DEF ChainUnlink, Goto
  <2>2. /\ UNCHANGED <<Live, Sources, CopyOrLink>>
        /\ \A h : Chain(h)' = Chain(h)
    BY <2>1, SameChains DEF Live, Sources, CopyOrLink
  <2>3. QED BY <2>1, <2>2 DEF CycleInv, CycleTargets, CopyCycles, AppendHeads
<1>5. CASE ChainsDone
  <2>1. /\ pc = "chains" /\ pc' = "baddel" /\ ~MoreHeads /\ UNCHANGED <<job, repVars>>
    BY <1>5 DEF ChainsDone, Goto
  <2>2. UNCHANGED <<Live, Sources, CopyOrLink, cycle, aliased>>
    BY <2>1 DEF repVars, Live, Sources, CopyOrLink
  <2>3. \A r \in Live : r \notin cycle
    BY <2>1, AllAlone DEF Chained
  <2>4. ~IsAppend /\ UNCHANGED IsAppend
    BY <2>1 DEF OrderInv, IsAppend, AppendOps, CopyOps, LinkOps
  <2>5. QED BY <2>1, <2>2, <2>3, <2>4
            DEF CycleInv, CycleTargets, CopyCycles, AppendHeads
<1>6. CASE BadDelRefuse \/ SkipDelNo
  <2>1. /\ pc \in {"baddel", "skipdel"} /\ pc' = pc /\ MoreHeads
        /\ UNCHANGED <<job, cycle, aliased>> /\ fiRep' = [fiRep EXCEPT ![p] = Mistake]
        /\ list' = IF thendo[p] = Nil THEN RemoveAt(list, i)
                   ELSE ReplaceAt(list, i, thendo[p])
    BY <1>6 DEF BadDelRefuse, SkipDelNo, RefuseHead, Refuse, TakesOver, DelTested
  <2>2. Live' = Live \ {p}
    BY <1>0, <2>1, AtCursor, RefusedLive
  <2>3. UNCHANGED <<Sources, CopyOrLink, IsAppend>>
    BY <2>1 DEF Sources, CopyOrLink, IsAppend
  <2>4. Heads \ {p} \subseteq Heads'
    <3>1. /\ list \in Seq(Name) /\ i \in 1..Len(list) /\ p = list[i]
          /\ IsInjective(list) /\ DOMAIN list = 1..Len(list)
      BY <1>0, <2>1, AtCursor, PlanFacts, OrderFacts DEF p
    <3>2. CASE thendo[p] = Nil
      BY <2>1, <3>1, <3>2, RemoveAtRange DEF Heads
    <3>3. CASE thendo[p] # Nil
      BY <2>1, <3>1, <3>3 DEF ReplaceAt, Heads, Range
    <3>4. QED BY <3>2, <3>3
  <2>5. QED BY <2>1, <2>2, <2>3, <2>4
            DEF CycleInv, CycleTargets, CopyCycles, AppendHeads
<1>7. CASE (QuietStep /\ ~OrderDone /\ ~ChainsDone) \/ UNCHANGED vars
  <2>1. /\ UNCHANGED <<job, repVars>>
        /\ pc' \in ChainPhases => pc \in ChainPhases
        /\ pc' \in DelPhases => pc \in DelPhases
    BY <1>7, <1>q
       DEF vars, QuietStep, CheckCollisions, ScanDone, OrderFree, ChainKeep, ChainEnter,
           PrintChainCall, DelNothing, BadDelKeep, KeepHead, BadDelDone, GoOn, OrDie,
           SkipDelYes, SkipDelQuit, SkipDelDone, Breakout, Goto, Exit
  <2>2. /\ UNCHANGED <<Live, Sources, Heads, CopyOrLink, IsAppend>>
        /\ UNCHANGED <<thendo, cycle, aliased>> /\ \A h : Chain(h)' = Chain(h)
    BY <2>1, SameChains DEF repVars, Live, Sources, Heads, CopyOrLink, IsAppend
  <2>3. QED BY <2>1, <2>2 DEF CycleInv, CycleTargets, CopyCycles, AppendHeads
<1>8. CASE ScanPair \/ OrderSkip \/ OrderWait \/ WalkChain \/ UpdateFirst \/ UnlinkHead
  <2>1. UNCHANGED <<job, cycle>> /\ pc' \notin ChainPhases /\ pc' \notin DelPhases
    BY <1>8 DEF ScanPair, OrderSkip, OrderWait, WalkChain, UpdateFirst, UnlinkHead, Goto
  <2>2. UNCHANGED Sources
    BY <2>1 DEF Sources
  <2>3. QED BY <2>1, <2>2 DEF CycleInv, CycleTargets, CopyCycles, AppendHeads
<1>9. QED
  BY <1>1, <1>2, <1>3, <1>4, <1>5, <1>6, <1>7, <1>8 DEF PlanNext, PlanStep, QuietStep
\* All that has been shown of planning.
PlannedInv == /\ BaseInv /\ OrderInv /\ NoChainInv /\ DelInv /\ CycleInv
              /\ AccountsBalance

\* It holds when planning begins.
LEMMA PlannedInit == PlanInit => PlannedInv
BY PlanInvInit, StoreInit, ScanInvInit, ChainInit, ChainedReplaceInit, OrderInit,
   NoChainInit, DelInit, CycleInit, AccountsInit
   DEF PlannedInv, BaseInv

\* Every step of planning keeps it.
LEMMA PlannedStep == PlannedInv /\ [PlanNext]_vars => PlannedInv'
<1> SUFFICES ASSUME PlannedInv, [PlanNext]_vars PROVE PlannedInv'
  OBVIOUS
<1>1. BaseInv'
  BY PlanInvStep, StoreStep, ScanInvStep, ChainStep, ChainedReplaceStep
     DEF PlannedInv, BaseInv
<1>2. OrderInv'
  BY <1>1, OrderStep DEF PlannedInv
<1>3. NoChainInv' /\ DelInv' /\ CycleInv'
  BY NoChainStep, DelStep, CycleStep DEF PlannedInv
<1>4. AccountsBalance'
  BY AccountsStep DEF PlannedInv, BaseInv
<1>5. QED BY <1>1, <1>2, <1>3, <1>4 DEF PlannedInv

\* The plan doreps starts with: chains that share no rep and hold the live
\* ones, in the order their targets require.
Handed ==
    /\ job \in Job /\ JobOK(job) /\ list \in Seq(Name)
    /\ thendo \in [Name -> Name \cup {Nil}] /\ fdel \in [Name -> Name \cup {Nil}]
    /\ nreps = Cardinality(Live) /\ IsFiniteSet(Live) /\ Live \subseteq Sources
    /\ IsInjective(list) /\ Heads \subseteq Live /\ Threads
    /\ \A r \in Live : thendo[r] \in Live \cup {Nil}
    /\ \A r \in Live : r \in Heads <=> \A x \in Live : thendo[x] # r
    /\ UNION {Chain(h) : h \in Heads} = Live
    /\ ~IsAppend => \A r, s \in Live : job.to[r] = job.to[s] => r = s

\* For moves.
HandedMoves ==
    IsMove =>
      /\ \A r \in Live :
           /\ fdel[r] = IF job.to[r] \in Live THEN Nil ELSE Snapshot(r)
           /\ job.to[r] \in Live => thendo[job.to[r]] = r \/ Breaks(r)
           /\ thendo[r] # Nil => job.to[thendo[r]] = r
           /\ r \in aliased => \E h \in cycle \cap Heads : job.to[h] = r /\ r \in Chain(h)
      /\ \A c \in cycle : c \in Heads /\ job.to[c] \in Live /\ Breaks(c)

\* For copies and links.
HandedCopies ==
    CopyOrLink =>
      \A r \in Live : /\ r \in Heads /\ thendo[r] = Nil /\ r \notin cycle \cup aliased
                      /\ job.to[r] \notin Live /\ fdel[r] = Snapshot(r)

\* For appends.
HandedAppends ==
    IsAppend =>
      \A r \in Live :
        /\ job.to[r] \in Live => Behind(r) \/ Breaks(r)
        /\ r \in aliased => \E h \in cycle \cap Heads : job.to[h] = r /\ r \in Chain(h)
        /\ r \in cycle => r \in Heads

\* All of which is so by then.
LEMMA PlanHands ==
  ASSUME PlannedInv, pc = "doreps"
  PROVE  Handed /\ HandedMoves /\ HandedCopies /\ HandedAppends
<1>1. /\ BaseInv /\ OrderInv /\ NoChainInv /\ CycleInv /\ AccountsBalance
      /\ PlanInv /\ StoreInv /\ LinkInv /\ Tops = Heads /\ Todo = {} /\ ~again
  BY OrderFacts DEF PlannedInv, Tops, Todo, BaseInv, ChainedReplace
<1>2. Handed
  <2>1. /\ job \in Job /\ JobOK(job) /\ list \in Seq(Name)
        /\ thendo \in [Name -> Name \cup {Nil}] /\ fdel \in [Name -> Name \cup {Nil}]
        /\ IsFiniteSet(Live) /\ Live \subseteq Sources /\ nreps = Cardinality(Live)
    BY <1>1, PlanFacts, FS_Subset DEF PlanInv, PlanTypeOK, RepTypeOK, AccountsBalance
  <2>2. /\ IsInjective(list) /\ Threads /\ Follows /\ Placed /\ Heads \subseteq Live
    BY <1>1 DEF LinkInv, HeadsLive
  <2>3. UNION {Chain(h) : h \in Heads} = Live
    BY <1>1, <2>2, ChainsLive, LiveChained
  <2>4. \A r \in Live : thendo[r] \in Live \cup {Nil}
    BY <2>2 DEF Follows
  <2>5. \A r \in Live : r \in Heads <=> \A x \in Live : thendo[x] # r
    BY <1>1, <2>2 DEF Placed
  <2>6. ~IsAppend => \A r, s \in Live : job.to[r] = job.to[s] => r = s
    BY <1>1, OneEach
  <2>7. QED BY <2>1, <2>2, <2>3, <2>4, <2>5, <2>6 DEF Handed
<1>3. \A r \in Live : job.to[r] \in Live => Behind(r) \/ Breaks(r)
  BY <1>1 DEF OrderInv, Ordered
<1>4. ASSUME IsMove
      PROVE  /\ \A r \in Live :
                  fdel[r] = IF job.to[r] \in Live THEN Nil ELSE Snapshot(r)
             /\ \A c \in cycle : c \in Heads /\ job.to[c] \in Live /\ Breaks(c)
  <2>1. \A r \in Live : fdel[r] = IF job.to[r] \in Live THEN Nil ELSE Snapshot(r)
    BY <1>1, <1>4 DEF OrderInv, Recorded
  <2>2. ASSUME NEW c \in cycle
        PROVE  c \in Heads /\ job.to[c] \in Live /\ Breaks(c)
    <3>1. c \in Heads /\ c \in Live /\ fdel[c] = Nil /\ job.to[c] \in Sources
      BY <1>1, <1>2, <1>4, <2>2 DEF OrderInv, Cycles, CycleInv, CycleTargets, Handed
    <3>2. job.to[c] \in Live
      BY <1>2, <2>1, <3>1, PlanFacts, <1>1 DEF Snapshot, Handed
    <3>3. ~Behind(c)
      BY <1>2, <1>4, <3>1, <3>2
         DEF Behind, Handed, IsMove, IsAppend, MoveOps, AppendOps
    <3>4. QED BY <1>3, <3>1, <3>2, <3>3
  <2>3. QED BY <2>1, <2>2
<1>5. HandedMoves
  <2>1. IsMove => \A r \in aliased : \E h \in cycle \cap Heads : job.to[h] = r /\ r \in Chain(h)
    BY <1>1 DEF OrderInv, Cycles
  <2>2. IsMove => ~IsAppend
    BY DEF IsMove, IsAppend, MoveOps, AppendOps
  <2>3. IsMove => \A r \in Live : thendo[r] # Nil => job.to[thendo[r]] = r
    <3>1. Live \subseteq Name
      BY <1>1, PlanFacts
    <3>2. QED BY <1>1, <2>2, <3>1 DEF OrderInv, Threaded
  <2>4. QED BY <1>3, <1>4, <2>1, <2>2, <2>3 DEF HandedMoves, Behind
<1>6. HandedCopies
  <2>1. ASSUME CopyOrLink, NEW r \in Live
        PROVE  /\ r \in Heads /\ thendo[r] = Nil /\ r \notin cycle \cup aliased
               /\ job.to[r] \notin Live
    BY <1>1, <2>1 DEF NoChainInv, DelPhases, Chained, CycleInv, CopyCycles
  <2>2. CopyOrLink => ~IsMove
    BY DEF CopyOrLink, IsMove, MoveOps, CopyOps, LinkOps
  <2>3. CopyOrLink => \A r \in Live : fdel[r] = Snapshot(r)
    BY <1>1, <2>2, PlanFacts DEF StoreInv
  <2>4. QED BY <2>1, <2>3 DEF HandedCopies
<1>7. HandedAppends
  <2>1. IsAppend => \A r \in aliased \cap Live :
                       \E h \in cycle \cap Heads : job.to[h] = r /\ r \in Chain(h)
    BY <1>1 DEF OrderInv, AppendCycles
  <2>2. IsAppend => cycle \cap Live \subseteq Heads
    BY <1>1 DEF CycleInv, AppendHeads, DelPhases
  <2>3. QED BY <1>3, <2>1, <2>2 DEF HandedAppends
<1>8. QED BY <1>2, <1>5, <1>6, <1>7

\* Two chains share nothing.
LEMMA ChainsApart ==
  ASSUME Handed, NEW g \in Heads, NEW h \in Heads, NEW x \in Chain(g), x \in Chain(h)
  PROVE  g = h
<1>0. /\ Threads /\ Live \subseteq Sources /\ Sources \subseteq Name /\ Nil \notin Name
      /\ g \in Sources /\ h \in Sources /\ g \in Live /\ h \in Live
      /\ Chain(g) \subseteq Live /\ Chain(h) \subseteq Live
  BY NameAssumption, ElementOfSeq DEF Handed, Sources, Job, Range
<1>1. SUFFICES ASSUME g # h PROVE FALSE
  OBVIOUS
<1>2. g \notin Chain(h)
  BY <1>0, <1>1, ChainPred DEF Handed
<1>3. Closed(Chain(g) \ Chain(h))
  <2>1. SUFFICES ASSUME NEW y \in Chain(g) \ Chain(h), thendo[y] # Nil
                 PROVE  thendo[y] \in Chain(g) \ Chain(h)
    BY DEF Closed
  <2>2. thendo[y] \in Chain(g) /\ y \in Live /\ y \in Name
    BY <1>0, <2>1, ChainCloses DEF Closed
  <2>3. thendo[y] \notin Chain(h)
    <3>1. SUFFICES ASSUME thendo[y] \in Chain(h) PROVE FALSE
      OBVIOUS
    <3>2. thendo[y] # h
      BY <1>0, <2>2 DEF Handed
    <3>3. PICK z \in Chain(h) : thendo[z] = thendo[y]
      BY <1>0, <3>1, <3>2, ChainPred
    <3>4. z = y
      BY <1>0, <2>1, <2>2, <3>3 DEF Threads
    <3>5. QED BY <2>1, <3>3, <3>4
  <2>4. QED BY <2>2, <2>3
<1>4. g \in Chain(g)
  BY <1>0, ChainCloses
<1>5. Chain(g) \subseteq Chain(g) \ Chain(h)
  BY <1>0, <1>2, <1>3, <1>4, ChainLeast
<1>6. QED BY <1>5

\* A rep is not behind itself.
LEMMA NeverBehindItself ==
  ASSUME Threads, Sources \subseteq Name, Nil \notin Name,
         NEW r \in Sources, thendo[r] # Nil
  PROVE  /\ r \notin Chain(thendo[r])
         /\ Chain(r) = {r} \cup Chain(thendo[r])
<1>1. thendo[r] \in Sources
  BY DEF Threads
<1>2. r \notin Chain(thendo[r])
  <2>1. SUFFICES ASSUME r \in Chain(thendo[r]) PROVE FALSE
    OBVIOUS
  <2>2. Chain(thendo[r]) \subseteq Sources
    BY DEF Chain
  <2>3. PICK x \in Chain(thendo[r]) : \A y \in Chain(thendo[r]) : thendo[y] # x
    BY <2>1, <2>2 DEF Threads, Acyclic
  <2>4. x # thendo[r]
    BY <2>1, <2>3
  <2>5. QED BY <1>1, <2>3, <2>4, ChainPred
<1>3. Chain(r) \subseteq {r} \cup Chain(thendo[r])
  BY ChainBehind
<1>4. {r} \cup Chain(thendo[r]) \subseteq Chain(r)
  <2>1. r \in Chain(r) /\ thendo[r] \in Chain(r)
    BY ChainCloses DEF Closed
  <2>2. QED BY <2>1, ChainWithin
<1>5. QED BY <1>2, <1>3, <1>4
=============================================================================
