-------------------------- MODULE MmvExecuteProofs --------------------------
(***************************************************************************)
(* Theorems about mmv_execute as a whole, for every set of names and every *)
(* invocation.                                                             *)
(***************************************************************************)
EXTENDS MmvExecute, MmvPlanProofs, WellFoundedInduction

(***************************************************************************)
(* noex starts as -n says and is set for good by snap; the phases in which *)
(* doreps is about to make a system call are only entered while it is not. *)
(***************************************************************************)
WritingPhases == {"alias", "unlink", "transfer", "copying", "unlinksrc"}

NoexInv == noex \in BOOLEAN /\ (noex => pc \notin WritingPhases)

\* Planning comes first, so nothing is about to be written.
LEMMA NoexInvInit == Init => NoexInv
<1> SUFFICES ASSUME Init PROVE NoexInv
  OBVIOUS
<1>1. job \in Job
  BY JobsAssumption DEF Init, PlanInit, RepInit, RepStart
<1>2. noex \in BOOLEAN
  BY <1>1 DEF Init, DoInit, Job
<1>3. QED BY <1>2 DEF Init, PlanInit, NoexInv, WritingPhases

\* Where a step of planning leads.
LEMMA PlanningStays == PlanStep \/ Breakout => pc' \notin WritingPhases
<1> USE DEF Goto, Exit, WritingPhases, PlanPhases
<1>1. CASE \/ CheckCollisions \/ ScanPair \/ ScanDone
           \/ OrderSkip \/ OrderFree \/ OrderCycle \/ OrderWait \/ WalkChain
           \/ UpdateFirst \/ UnlinkHead \/ OrderDone
  BY <1>1 DEF CheckCollisions, ScanPair, ScanDone, OrderSkip, OrderFree,
              OrderCycle, OrderWait, WalkChain, UpdateFirst, UnlinkHead,
              OrderDone
<1>2. CASE \/ ChainKeep \/ ChainEnter \/ PrintChainCall \/ PrintChainReturn
           \/ ChainUnlink \/ ChainsDone
  BY <1>2 DEF ChainKeep, ChainEnter, PrintChainCall, PrintChainReturn,
              ChainUnlink, ChainsDone
<1>3. CASE \/ DelNothing \/ BadDelKeep \/ BadDelRefuse \/ BadDelDone
           \/ GoOn \/ OrDie
           \/ SkipDelYes \/ SkipDelNo \/ SkipDelQuit \/ SkipDelDone
  BY <1>3 DEF DelNothing, BadDelKeep, KeepHead, BadDelRefuse, RefuseHead,
              BadDelDone, GoOn, OrDie, SkipDelYes, SkipDelNo, SkipDelQuit,
              SkipDelDone
<1>4. CASE Breakout
  BY <1>4 DEF Breakout
<1>5. QED BY <1>1, <1>2, <1>3, <1>4 DEF PlanStep

\* Once noex is set doreps goes from rep to rep by "print" alone, and what
\* changes the directories happens in the writing phases.
LEMMA DoingKeeps ==
  ASSUME NoexInv, DoStep
  PROVE  NoexInv' /\ (noex => fs' = fs)
<1> USE DEF NoexInv, WritingPhases, Goes, calm, doVars
<1>s. ASSUME pc \in WritingPhases,
             UNCHANGED noex \/ (noex' = TRUE /\ pc' = "print")
      PROVE  NoexInv' /\ (noex => fs' = fs)
  <2>1. noex = FALSE
    BY <1>s
  <2>2. CASE noex' = noex
    BY <2>1, <2>2
  <2>3. CASE noex' = TRUE /\ pc' = "print"
    BY <2>1, <2>3
  <2>4. QED BY <1>s, <2>2, <2>3
<1>1. CASE StartDoreps \/ NextChain \/ BreakPrinting \/ PrintLine \/ ChainsEnd
  BY <1>1 DEF StartDoreps, NextChain, BreakPrinting, PrintLine, ChainsEnd
<1>2. CASE UserBreak
  BY <1>2 DEF UserBreak, Snap
<1>3. CASE StartRep
  BY <1>3 DEF StartRep, NeedsAlias
<1>4. CASE MoveAlias \/ AppendAlias
  <2>1. /\ pc \in WritingPhases
        /\ UNCHANGED noex \/ (noex' = TRUE /\ pc' = "print")
    BY <1>4 DEF MoveAlias, AppendAlias, Snap, NoSnap
  <2>2. QED BY <1>s, <2>1
<1>5. CASE UnlinkOld
  BY <1>5 DEF UnlinkOld, Snap, NoSnap
<1>6. CASE Rename \/ Link
  BY <1>6 DEF Rename, Link, Snap, NoSnap
<1>7. CASE CopyOpen
  <2>1. /\ pc \in WritingPhases
        /\ UNCHANGED noex \/ (noex' = TRUE /\ pc' = "print")
    BY <1>7 DEF CopyOpen, Snap, NoSnap
  <2>2. QED BY <1>s, <2>1
<1>8. CASE CopyData
  <2>1. /\ pc \in WritingPhases
        /\ UNCHANGED noex \/ (noex' = TRUE /\ pc' = "print")
    BY <1>8 DEF CopyData, Snap, NoSnap
  <2>2. QED BY <1>s, <2>1
<1>9. CASE UnlinkSource
  BY <1>9 DEF UnlinkSource, Snap, NoSnap
<1>10. QED BY <1>1, <1>2, <1>3, <1>4, <1>5, <1>6, <1>7, <1>8, <1>9 DEF DoStep

\* One step of mmv_execute.
LEMMA NoexStep ==
  ASSUME NoexInv, [Next]_allVars
  PROVE  NoexInv' /\ (noex => fs' = fs)
<1>1. CASE Planning \/ Interrupt
  BY <1>1, PlanningStays DEF Planning, Interrupt, doVars, NoexInv
<1>2. CASE Doing
  BY <1>2, DoingKeeps DEF Doing
<1>3. CASE Signal
  BY <1>3 DEF Signal, Sigint, NoexInv, WritingPhases
<1>4. CASE UNCHANGED allVars
  BY <1>4 DEF allVars, vars, doVars, NoexInv
<1>5. QED BY <1>1, <1>2, <1>3, <1>4 DEF Next

\* With -n, and once an operation has failed or the user has broken in, no
\* directory is touched any more, whatever the plan and whatever fails.
THEOREM NoexNeverWrites == Spec => NoexWritesNothing
<1>1. Spec => []NoexInv
  BY NoexInvInit, NoexStep, PTL DEF Spec
<1>2. NoexInv /\ [Next]_allVars => [noex => fs' = fs]_allVars
  BY NoexStep
<1>3. QED BY <1>1, <1>2, PTL DEF Spec, NoexWritesNothing

(***************************************************************************)
(* Planning keeps the promise of MmvBulk: mmv_execute begins as Bulk does, *)
(* and until doreps starts each step is one that refuses pairs while all   *)
(* files are in their places, or the end.                                  *)
(***************************************************************************)
Untouched == /\ job \in Job /\ JobOK(job)
             /\ fiRep \in [Name -> Name \cup {Nil, Mistake}]
             /\ pc \in PlanPhases \cup {"doreps"} =>
                  fs = Original /\ handler # "breakrep"

\* doreps has not begun, and no file has moved.
LEMMA UntouchedInit == Init => Untouched
<1> SUFFICES ASSUME Init PROVE Untouched
  OBVIOUS
<1>1. job \in Job /\ JobOK(job)
  BY JobsAssumption DEF Init, PlanInit, RepInit
<1>2. fiRep \in [Name -> Name \cup {Nil, Mistake}]
  BY DEF Init, PlanInit, RepInit, RepStart
<1>3. QED BY <1>1, <1>2 DEF Init, DoInit, Untouched

\* A step of planning refuses at most one rep, and leaves the job alone.
LEMMA PlanRefuses ==
  ASSUME PlanStep \/ Breakout
  PROVE  /\ UNCHANGED job
         /\ \/ UNCHANGED fiRep
            \/ UNCHANGED pc /\ \E r : fiRep' = [fiRep EXCEPT ![r] = Mistake]
<1> USE DEF repVars, planVars
<1>1. CASE \/ CheckCollisions \/ ScanDone
           \/ OrderSkip \/ OrderFree \/ OrderCycle \/ OrderWait \/ WalkChain
           \/ UpdateFirst \/ UnlinkHead \/ OrderDone
  BY <1>1 DEF CheckCollisions, ScanDone, OrderSkip, OrderFree,
              OrderCycle, OrderWait, WalkChain, UpdateFirst, UnlinkHead,
              OrderDone
<1>2. CASE ScanPair
  BY <1>2 DEF ScanPair, MarkCollision
<1>3. CASE \/ ChainKeep \/ ChainEnter \/ PrintChainCall
           \/ ChainUnlink \/ ChainsDone
  BY <1>3 DEF ChainKeep, ChainEnter, PrintChainCall, ChainUnlink, ChainsDone
<1>4. CASE PrintChainReturn
  BY <1>4 DEF PrintChainReturn, Refuse
<1>5. CASE \/ DelNothing \/ BadDelKeep \/ BadDelDone \/ GoOn \/ OrDie
           \/ SkipDelYes \/ SkipDelQuit \/ SkipDelDone \/ Breakout
  BY <1>5 DEF DelNothing, BadDelKeep, KeepHead, BadDelDone, GoOn, OrDie,
              SkipDelYes, SkipDelQuit, SkipDelDone, Breakout
<1>6. CASE BadDelRefuse \/ SkipDelNo
  BY <1>6 DEF BadDelRefuse, SkipDelNo, RefuseHead, Refuse
<1>7. QED BY <1>1, <1>2, <1>3, <1>4, <1>5, <1>6 DEF PlanStep

\* Where a step of planning comes from.
LEMMA InPlanning == PlanStep \/ Breakout => pc \in PlanPhases
BY DEF PlanStep, PlanPhases, Breakout,
       CheckCollisions, ScanPair, ScanDone, OrderSkip, OrderFree, OrderCycle,
       OrderWait, WalkChain, UpdateFirst, UnlinkHead, OrderDone,
       ChainKeep, ChainEnter, PrintChainCall, PrintChainReturn, ChainUnlink,
       ChainsDone, DelNothing, BadDelKeep, BadDelRefuse, BadDelDone,
       GoOn, OrDie, SkipDelYes, SkipDelNo, SkipDelQuit, SkipDelDone

\* Once doreps has begun, planning does not come back.
LEMMA DoingLeaves ==
  ASSUME DoStep \/ Sigint
  PROVE  /\ UNCHANGED <<job, fiRep>>
         /\ pc' \in PlanPhases \cup {"doreps"} => UNCHANGED <<pc, fs, handler>>
<1> USE DEF calm, repVars, doVars, Goes, PlanPhases
<1>1. CASE StartDoreps \/ NextChain \/ UserBreak \/ BreakPrinting \/ StartRep
  BY <1>1 DEF StartDoreps, NextChain, UserBreak, BreakPrinting, StartRep
<1>2. CASE MoveAlias \/ AppendAlias \/ UnlinkOld
  BY <1>2 DEF MoveAlias, AppendAlias, UnlinkOld
<1>3. CASE Rename \/ Link \/ CopyOpen \/ CopyData \/ UnlinkSource
  BY <1>3 DEF Rename, Link, CopyOpen, CopyData, UnlinkSource
<1>4. CASE PrintLine \/ ChainsEnd
  BY <1>4 DEF PrintLine, ChainsEnd
<1>5. CASE Sigint
  BY <1>5 DEF Sigint
<1>6. QED BY <1>1, <1>2, <1>3, <1>4, <1>5 DEF DoStep

\* It is doreps that ends that state, and only doreps.
LEMMA UntouchedStep == Untouched /\ [Next]_allVars => Untouched'
<1> SUFFICES ASSUME Untouched, [Next]_allVars PROVE Untouched'
  OBVIOUS
<1>1. CASE Planning \/ Interrupt
  <2>1. UNCHANGED <<job, fs, handler>> /\ pc \in PlanPhases
    <3>1. UNCHANGED <<job, fs, handler>>
      BY <1>1, PlanRefuses DEF Planning, Interrupt, doVars
    <3>2. pc \in PlanPhases
      BY <1>1, InPlanning DEF Planning, Interrupt
    <3>3. QED BY <3>1, <3>2
  <2>2. fiRep' \in [Name -> Name \cup {Nil, Mistake}]
    BY <1>1, PlanRefuses DEF Planning, Interrupt, Untouched
  <2>3. QED BY <2>1, <2>2 DEF Untouched, Original
<1>2. CASE Doing \/ Signal
  BY <1>2, DoingLeaves DEF Doing, Signal, Untouched, Original
<1>3. CASE UNCHANGED allVars
  BY <1>3 DEF allVars, vars, doVars, repVars, Untouched, Original
<1>4. QED BY <1>1, <1>2, <1>3 DEF Next

\* While nothing has been touched, every file is where it was.
LEMMA EverythingAtHome ==
  ASSUME job \in Job, fs = Original
  PROVE  [f \in job.files |-> Whereabouts(f)] = [f \in job.files |-> f]
<1>1. ASSUME NEW f \in job.files
      PROVE  Holds(f, f)
  <2>1. f \in Name
    BY <1>1 DEF Job
  <2>2. fs[f] = <<f>>
    BY <1>1, <2>1 DEF Original
  <2>3. <<f>> \in Seq(Name) /\ <<f>> # << >> /\ <<f>>[1] = f /\ Len(<<f>>) = 1
    BY <2>1
  <2>4. <<f>> # Absent
    BY <2>3, NilAssumption DEF Absent
  <2>5. QED BY <2>2, <2>3, <2>4 DEF Holds
<1>2. QED BY <1>1 DEF Whereabouts

\* No pair that has been refused comes back.
LEMMA LiveShrinks ==
  ASSUME Untouched, UNCHANGED job,
         NEW r, fiRep' = [fiRep EXCEPT ![r] = Mistake]
  PROVE  Live' \subseteq Live
<1>1. ASSUME NEW q \in Sources, fiRep'[q] = q
      PROVE  fiRep[q] = q
  <2>1. q \in Name
    BY DEF Untouched, JobOK, Job, Sources
  <2>2. q # Mistake
    BY <2>1, NameAssumption
  <2>3. QED BY <1>1, <2>1, <2>2 DEF Untouched
<1>2. QED BY <1>1 DEF Live, Sources

\* The beginning of mmv_execute is one of the promise.
LEMMA BulkBegins == Init => Bulk!Init
<1> SUFFICES ASSUME Init PROVE Bulk!Init
  OBVIOUS
<1>1. Untouched /\ fs = Original /\ pc = "collisions"
  BY UntouchedInit DEF Init, DoInit, PlanInit
<1>2. [f \in job.files |-> Whereabouts(f)] = [f \in job.files |-> f]
  BY <1>1, EverythingAtHome DEF Untouched
<1>3. Live \subseteq job.files /\ job.files \subseteq Name /\ job.to \in [Name -> Name]
  BY <1>1 DEF Untouched, Job, JobOK, Live, Sources
<1>4. IsMove \in BOOLEAN /\ IsAppend \in BOOLEAN
  BY DEF IsMove, IsAppend
<1>5. (IF noex \/ (pc = "exit" /\ handler # "breakrep") THEN "broken"
       ELSE IF pc = "exit" THEN "complete" ELSE "running") \in {"running", "broken"}
  BY <1>1
<1>6. QED BY <1>2, <1>3, <1>4, <1>5 DEF Bulk!Init, Bulk!AtHome

\* A step of planning refuses some pairs, or does nothing that shows.
LEMMA PlanningStep ==
  ASSUME Untouched, Planning \/ Interrupt
  PROVE  Bulk!Next \/ UNCHANGED Bulk!bulkVars
<1> DEFINE result == IF noex \/ (pc = "exit" /\ handler # "breakrep") THEN "broken"
                     ELSE IF pc = "exit" THEN "complete" ELSE "running"
           place  == [f \in job.files |-> Whereabouts(f)]
<1>1. /\ pc \in PlanPhases /\ fs = Original /\ handler # "breakrep"
      /\ UNCHANGED <<job, fs, handler, noex>>
  <2>1. pc \in PlanPhases /\ UNCHANGED doVars
    BY InPlanning DEF Planning, Interrupt
  <2>2. QED BY <2>1, PlanRefuses DEF Planning, Interrupt, doVars, Untouched
<1>2. place = [f \in job.files |-> f]
  BY <1>1, EverythingAtHome DEF Untouched
<1>3. place' = [f \in job.files |-> f]
  <2>1. (job \in Job /\ fs = Original)'
    BY <1>1 DEF Untouched, Original
  <2>2. ([f \in job.files |-> Whereabouts(f)] = [f \in job.files |-> f])'
    BY <2>1, EverythingAtHome, PTL
  <2>3. QED BY <1>1, <2>2
<1>4. /\ UNCHANGED <<IsMove, IsAppend, job.files, job.to>>
      /\ UNCHANGED place
  BY <1>1, <1>2, <1>3 DEF IsMove, IsAppend
<1>5. CASE UNCHANGED fiRep
  <2>1. UNCHANGED Live
    BY <1>1, <1>5 DEF Live, Sources
  <2>2. pc # "exit"
    BY <1>1 DEF PlanPhases
  <2>3. UNCHANGED result \/ (result = "running" /\ result' = "broken")
    BY <1>1, <2>2
  <2>4. QED BY <1>4, <2>1, <2>3 DEF Bulk!Next, Bulk!Finish, Bulk!given, Bulk!bulkVars
<1>6. ASSUME NEW r, UNCHANGED pc, fiRep' = [fiRep EXCEPT ![r] = Mistake]
      PROVE  Bulk!Next
  <2>1. Live' \subseteq Live
    BY <1>1, <1>6, LiveShrinks
  <2>2. UNCHANGED result
    BY <1>1, <1>6
  <2>3. QED BY <1>2, <1>4, <2>1, <2>2 DEF Bulk!Next, Bulk!Refuse, Bulk!given, Bulk!AtHome
<1>7. QED BY <1>5, <1>6, PlanRefuses DEF Planning, Interrupt

\* However many names and pairs there are: mmv_execute begins where MmvBulk does,
\* and every step of its planning, a quit or a break among them, is one of
\* MmvBulk's or changes nothing that it speaks of.
THEOREM PlanningKeepsPromise ==
  Spec => /\ Bulk!Init
          /\ [][Planning \/ Interrupt =>
                  Bulk!Next \/ UNCHANGED Bulk!bulkVars]_allVars
<1>1. Spec => []Untouched
  BY UntouchedInit, UntouchedStep, PTL DEF Spec
<1>2. Untouched /\ [Next]_allVars =>
        [Planning \/ Interrupt => Bulk!Next \/ UNCHANGED Bulk!bulkVars]_allVars
  BY PlanningStep
<1>3. QED BY <1>1, <1>2, BulkBegins, PTL DEF Spec
-----------------------------------------------------------------------------
(***************************************************************************)
(* doreps' way through the plan, which is not touched any more.            *)
(***************************************************************************)
PlanStands == Handed /\ HandedMoves /\ HandedCopies /\ HandedAppends

\* What depends on the plan alone stays as long as the plan does.
LEMMA SamePlan ==
  ASSUME UNCHANGED <<job, repVars>>
  PROVE  /\ UNCHANGED <<Live, Sources, Heads, IsMove, IsAppend, CopyOrLink>>
         /\ \A h : Chain(h)' = Chain(h)
         /\ PlanStands => PlanStands'
<1>1. /\ UNCHANGED <<job, list, thendo, fdel, cycle, aliased, nreps>>
      /\ UNCHANGED <<Live, Sources, Heads, IsMove, IsAppend, CopyOrLink>>
  BY DEF repVars, Live, Sources, Heads, IsMove, IsAppend, CopyOrLink
<1>2. \A h : Chain(h)' = Chain(h)
  BY <1>1, SameChains
<1>3. Handed => Handed'
  BY <1>1, <1>2 DEF Handed, Threads, Acyclic
<1>4. (\A r : Breaks(r)' <=> Breaks(r)) /\ (\A r : Behind(r)' <=> Behind(r))
  BY <1>1, <1>2 DEF Breaks, Behind
<1>5. \A r : Snapshot(r)' = Snapshot(r)
  BY <1>1 DEF Snapshot
<1>6. HandedMoves => HandedMoves'
  BY <1>1, <1>2, <1>4, <1>5 DEF HandedMoves
<1>7. HandedCopies => HandedCopies'
  BY <1>1, <1>5 DEF HandedCopies
<1>8. HandedAppends => HandedAppends'
  BY <1>1, <1>2, <1>4 DEF HandedAppends
<1>9. QED BY <1>1, <1>2, <1>3, <1>6, <1>7, <1>8 DEF PlanStands

\* The phases that work on a rep, cur.
RepPhases == {"rep", "print"} \cup WritingPhases

\* The steps that are system calls.
Call == \/ MoveAlias \/ AppendAlias
        \/ UnlinkOld \/ Rename \/ Link \/ CopyOpen \/ CopyData \/ UnlinkSource

\* A system call leaves the place in the plan alone; when it fails, doreps goes
\* on to the report.
LEMMA CallFacts ==
  ASSUME Call
  PROVE  /\ UNCHANGED <<job, repVars, sigs, hd, cur, gotsig, k, lines, status>>
         /\ pc \in WritingPhases /\ pc' \in RepPhases \ {"rep", "alias"}
         /\ NoSnap \/ (Snap /\ pc' = "print")
<1> USE DEF calm, Goes, WritingPhases, RepPhases
<1>1. CASE MoveAlias \/ AppendAlias
  BY <1>1 DEF MoveAlias, AppendAlias
<1>2. CASE UnlinkOld
  BY <1>2 DEF UnlinkOld
<1>3. CASE Rename \/ Link
  BY <1>3 DEF Rename, Link
<1>4. CASE CopyOpen
  BY <1>4 DEF CopyOpen
<1>5. CASE CopyData
  BY <1>5 DEF CopyData
<1>6. CASE UnlinkSource
  BY <1>6 DEF UnlinkSource
<1>7. QED BY <1>1, <1>2, <1>3, <1>4, <1>5, <1>6 DEF Call

\* doreps and the SIGINT handlers leave the plan alone.
LEMMA DoingSamePlan == DoStep \/ Sigint => UNCHANGED <<job, repVars>>
BY CallFacts DEF DoStep, Call, StartDoreps, NextChain, UserBreak, BreakPrinting, StartRep,
                 PrintLine, ChainsEnd, Sigint, calm

\* doreps works through the plan it was handed, from the first chain to the
\* last, and along each from its head on.
RunInv ==
    /\ job \in Jobs
    /\ pc \in PlanPhases \cup RepPhases \cup {"doreps", "chain", "exit"}
    /\ pc \in PlanPhases \cup {"doreps"} => PlannedInv /\ DoInit
    /\ pc \in RepPhases \cup {"chain"} => handler # "breakout"
    /\ handler # "breakout" => PlanStands
    /\ hd \in Nat \ {0}
    /\ pc \in PlanPhases \cup {"doreps", "chain"} => cur = Nil
    /\ pc \in RepPhases => cur # Nil
    /\ cur # Nil => /\ handler # "breakout"
                    /\ hd \in 1..Len(list) /\ cur \in Chain(list[hd])
    /\ pc = "alias" => cur = list[hd] /\ cur \in cycle

\* doreps has not begun.
LEMMA RunInit == Init => RunInv
<1> SUFFICES ASSUME Init PROVE RunInv
  OBVIOUS
<1>1. PlannedInv
  BY PlannedInit DEF Init
<1>2. job \in Jobs /\ pc = "collisions" /\ DoInit
  BY DEF Init, PlanInit, RepInit
<1>3. hd = 1 /\ cur = Nil /\ handler = "breakout"
  BY <1>2 DEF DoInit
<1>4. QED BY <1>1, <1>2, <1>3 DEF RunInv, PlanPhases, RepPhases, WritingPhases

\* The rep doreps works on is live.
LEMMA AtRep ==
  ASSUME PlanStands, hd \in 1..Len(list), cur \in Chain(list[hd])
  PROVE  /\ list[hd] \in Heads /\ list[hd] \in Live /\ cur \in Live
         /\ cur \in Sources /\ cur \in Name /\ cur \in job.files
         /\ thendo[cur] \in Live \cup {Nil} /\ Nil \notin Name
         /\ job.to[cur] \in Name /\ fdel[cur] \in Name \cup {Nil}
<1>1. /\ list[hd] \in Heads /\ Heads \subseteq Live /\ Live \subseteq Sources
      /\ Sources \subseteq Name /\ Sources \subseteq job.files
      /\ job.to \in [Name -> Name] /\ Nil \notin Name
  BY NameAssumption, ElementOfSeq
     DEF PlanStands, Handed, Heads, Range, Sources, Job, JobOK
<1>2. Chain(list[hd]) \subseteq Live
  BY <1>1 DEF PlanStands, Handed
<1>3. QED BY <1>1, <1>2 DEF PlanStands, Handed

\* Only the head of a chain breaks a cycle.
LEMMA CycleAtHead ==
  ASSUME PlanStands, hd \in 1..Len(list), cur \in Chain(list[hd]), cur \in cycle
  PROVE  cur = list[hd] /\ ~CopyOrLink
<1>1. /\ list[hd] \in Heads /\ list[hd] \in Live /\ cur \in Live
      /\ Threads /\ Live \subseteq Sources /\ Sources \subseteq Name /\ job.op \in Ops
  BY AtRep, ElementOfSeq DEF PlanStands, Handed, Job, Sources, Range
<1>2. ~CopyOrLink
  BY <1>1 DEF PlanStands, HandedCopies
<1>3. cur \in Heads
  BY <1>1, <1>2 DEF PlanStands, HandedMoves, HandedAppends, CopyOrLink, Ops,
                    IsMove, IsAppend
<1>4. cur \in Chain(cur)
  BY <1>1, ChainCloses
<1>5. QED BY <1>1, <1>2, <1>3, <1>4, ChainsApart DEF PlanStands

\* Planning hands over a plan that stands; doreps keeps to its place in it.
LEMMA RunStep == RunInv /\ [Next]_allVars => RunInv'
<1> SUFFICES ASSUME RunInv, [Next]_allVars PROVE RunInv'
  OBVIOUS
<1> USE DEF RepPhases, WritingPhases
<1>1. CASE Planning \/ Interrupt
  <2>1. pc \in PlanPhases /\ UNCHANGED <<job, doVars>>
    BY <1>1, InPlanning, PlanRefuses DEF Planning, Interrupt
  <2>2. PlannedInv /\ DoInit /\ [PlanNext]_vars
    BY <1>1, <2>1 DEF RunInv, Planning, Interrupt, PlanNext
  <2>3. PlannedInv' /\ DoInit'
    BY <2>1, <2>2, PlannedStep DEF doVars, DoInit, Original
  <2>4. hd' = 1 /\ cur' = Nil /\ handler' = "breakout"
    BY <2>3 DEF DoInit
  <2>5. pc' \in PlanPhases \cup {"doreps", "exit"}
    BY <2>3, PlanFacts DEF PlannedInv, BaseInv, PlanInv, PlanTypeOK
  <2>6. QED BY <2>1, <2>3, <2>4, <2>5 DEF RunInv, PlanPhases
<1>2. CASE Doing \/ Signal
  <2>1. UNCHANGED <<job, repVars>>
    BY <1>2, DoingSamePlan DEF Doing, Signal
  <2>2. /\ UNCHANGED <<job, list, cycle, thendo>>
        /\ PlanStands => PlanStands'
        /\ \A h : Chain(h)' = Chain(h)
    BY <2>1, SamePlan DEF repVars
  <2> USE DEF PlanPhases
  <2>3. CASE StartDoreps
    <3>1. PlanStands /\ DoInit
      BY <2>3, PlanHands DEF StartDoreps, RunInv, PlanStands
    <3>2. QED BY <2>2, <2>3, <3>1 DEF StartDoreps, RunInv, DoInit, Goes
  <2>4. CASE NextChain
    <3>1. /\ pc = "chain" /\ pc' = "rep" /\ hd' = hd /\ hd <= Len(list)
          /\ cur' = list[hd] /\ handler' = handler
      BY <2>4 DEF NextChain, Goes
    <3>2. PlanStands /\ handler # "breakout" /\ hd \in 1..Len(list)
      BY <3>1, LenProperties DEF RunInv, PlanStands, Handed
    <3>3. list[hd] \in Sources /\ list[hd] # Nil /\ Threads /\ Sources \subseteq Name
      <4>1. list[hd] \in Heads
        BY <3>2, ElementOfSeq DEF PlanStands, Handed, Heads, Range
      <4>2. Heads \subseteq Sources /\ Threads /\ Sources \subseteq Name /\ Nil \notin Name
        BY <3>2, ElementOfSeq, NameAssumption
           DEF PlanStands, Handed, Sources, Job, Range
      <4>3. QED BY <4>1, <4>2
    <3>4. list[hd] \in Chain(list[hd])
      BY <3>3, ChainCloses
    <3>5. QED BY <2>2, <3>1, <3>2, <3>3, <3>4 DEF RunInv
  <2>5. CASE UserBreak \/ BreakPrinting \/ ChainsEnd
    BY <2>2, <2>5 DEF UserBreak, BreakPrinting, ChainsEnd, Snap, Goes, RunInv, doVars
  <2>6. CASE StartRep
    <3>1. /\ pc = "rep" /\ pc' \in {"alias", "print", "unlink"} /\ UNCHANGED doVars
          /\ pc' = "alias" => cur \in cycle
      BY <2>6 DEF StartRep, Goes, NeedsAlias
    <3>2. pc' = "alias" => cur = list[hd]
      BY <3>1, CycleAtHead DEF RunInv
    <3>3. QED BY <2>2, <3>1, <3>2 DEF RunInv, doVars
  <2>7. CASE Call
    <3>1. handler' = handler \/ handler' = "breakstat"
      BY <2>7, CallFacts DEF Snap, NoSnap
    <3>2. QED BY <2>2, <2>7, <3>1, CallFacts DEF RunInv
  <2>8. CASE PrintLine
    <3>1. /\ pc = "print" /\ handler' = handler
          /\ IF thendo[cur] # Nil THEN cur' = thendo[cur] /\ pc' = "rep" /\ hd' = hd
             ELSE cur' = Nil /\ hd' = hd + 1 /\ pc' = "chain"
      BY <2>8 DEF PrintLine, ChainGoesOn, Goes
    <3>2. PlanStands /\ handler # "breakout" /\ hd \in 1..Len(list) /\ cur \in Chain(list[hd])
      BY <3>1 DEF RunInv
    <3>3. thendo[cur] # Nil => thendo[cur] \in Chain(list[hd])
      <4>1. list[hd] \in Sources /\ Threads /\ Sources \subseteq Name
        BY <3>2, AtRep, ElementOfSeq DEF PlanStands, Handed, Sources, Job, Range
      <4>2. QED BY <3>2, <4>1, ChainCloses DEF Closed
    <3>4. hd + 1 \in Nat \ {0}
      BY DEF RunInv
    <3>5. QED BY <2>2, <3>1, <3>2, <3>3, <3>4 DEF RunInv
  <2>9. CASE Sigint
    <3>1. /\ pc \in DoPhases /\ UNCHANGED <<hd, cur, handler>>
          /\ pc' = "exit" \/ (pc' = pc /\ handler = "breakrep")
      BY <2>9 DEF Sigint
    <3>2. pc \in RepPhases \cup {"chain", "doreps"}
      BY <3>1 DEF RunInv, DoPhases
    <3>3. pc = "doreps" => handler = "breakout"
      BY DEF RunInv, DoInit
    <3>4. QED BY <2>2, <3>1, <3>2, <3>3 DEF RunInv
  <2>10. QED
    BY <1>2, <2>3, <2>4, <2>5, <2>6, <2>7, <2>8, <2>9 DEF Doing, Signal, DoStep, Call
<1>3. CASE UNCHANGED allVars
  <2>1. UNCHANGED <<job, repVars, pc, vars, doVars>>
    BY <1>3 DEF allVars, vars
  <2>2. PlannedInv => PlannedInv'
    BY <2>1, PlannedStep
  <2>3. DoInit => DoInit'
    BY <2>1 DEF DoInit, doVars, Original
  <2>4. /\ UNCHANGED <<list, cycle>>
        /\ PlanStands => PlanStands'
        /\ \A h : Chain(h)' = Chain(h)
    BY <2>1, SamePlan DEF repVars
  <2>5. UNCHANGED <<job, pc, hd, cur, handler>>
    BY <2>1 DEF doVars
  <2>6. QED BY <2>2, <2>3, <2>4, <2>5 DEF RunInv
<1>4. QED BY <1>1, <1>2, <1>3 DEF Next

\* So doreps always works at a place of the plan.
LEMMA RunKept == Spec => []RunInv
BY RunInit, RunStep, PTL DEF Spec
-----------------------------------------------------------------------------
(***************************************************************************)
(* How far doreps has come.                                                *)
(***************************************************************************)
\* The reps doreps has still to come to, or is at.
Left == (IF cur = Nil THEN {} ELSE Chain(cur))
        \cup UNION {Chain(h) : h \in Later(list, IF cur = Nil THEN hd ELSE hd + 1)}

\* What is left to do is part of the plan.
LEMMA LeftLive ==
  ASSUME RunInv, handler # "breakout"
  PROVE  /\ Left \subseteq Live /\ IsFiniteSet(Live) /\ IsFiniteSet(Left)
         /\ nreps = Cardinality(Live)
         /\ cur # Nil => cur \in Left /\ cur \in Live
         /\ cur = Nil /\ hd > Len(list) => Left = {}
<1>1. /\ PlanStands /\ list \in Seq(Name) /\ Threads /\ Sources \subseteq Name
      /\ UNION {Chain(h) : h \in Heads} = Live /\ Live \subseteq Sources
      /\ nreps = Cardinality(Live) /\ IsFiniteSet(Live) /\ hd \in Nat
  BY ElementOfSeq DEF RunInv, PlanStands, Handed, Sources, Job, Range
<1>2. /\ \A n \in Nat : Later(list, n) \subseteq Heads
      /\ \A n \in Nat : n > Len(list) => Later(list, n) = {}
  BY <1>1, LaterFacts DEF Heads
<1>3. cur # Nil => Chain(cur) \subseteq Live /\ cur \in Chain(cur) /\ cur \in Live
  <2>1. SUFFICES ASSUME cur # Nil
                 PROVE  Chain(cur) \subseteq Live /\ cur \in Chain(cur) /\ cur \in Live
    OBVIOUS
  <2>2. hd \in 1..Len(list) /\ cur \in Chain(list[hd])
    BY <2>1 DEF RunInv
  <2>3. cur \in Live /\ list[hd] \in Heads /\ list[hd] \in Sources
    BY <1>1, <2>2, AtRep
  <2>4. Chain(cur) \subseteq Chain(list[hd]) /\ cur \in Chain(cur)
    BY <1>1, <2>2, <2>3, ChainWithin, ChainCloses
  <2>5. QED BY <1>1, <2>3, <2>4
<1>4. Left \subseteq Live
  <2>1. hd + 1 \in Nat
    BY <1>1
  <2>2. \A n \in Nat : UNION {Chain(h) : h \in Later(list, n)} \subseteq Live
    BY <1>1, <1>2
  <2>3. QED BY <1>1, <1>3, <2>1, <2>2 DEF Left
<1>5. IsFiniteSet(Left)
  BY <1>1, <1>4, FS_Subset
<1>6. cur # Nil => cur \in Left
  BY <1>3 DEF Left
<1>7. cur = Nil /\ hd > Len(list) => Left = {}
  BY <1>1, <1>2 DEF Left
<1>8. QED BY <1>1, <1>3, <1>4, <1>5, <1>6, <1>7

\* When doreps starts everything is left.
LEMMA LeftAll ==
  ASSUME Handed, cur = Nil, hd = 1
  PROVE  Left = Live
<1>1. Later(list, 1) = Heads
  BY LaterFacts DEF Handed, Heads
<1>2. QED BY <1>1 DEF Left, Handed

\* Printing a rep's line leaves it behind, and only it.
LEMMA PrintLeaves ==
  ASSUME RunInv, PrintLine
  PROVE  Left' = Left \ {cur}
<1>1. /\ pc = "print" /\ UNCHANGED <<job, repVars>>
      /\ IF thendo[cur] # Nil THEN cur' = thendo[cur] /\ hd' = hd
         ELSE cur' = Nil /\ hd' = hd + 1
  BY DEF PrintLine, ChainGoesOn, calm
<1>2. /\ cur # Nil /\ handler # "breakout" /\ hd \in 1..Len(list)
      /\ cur \in Chain(list[hd]) /\ PlanStands
  BY <1>1 DEF RunInv, RepPhases
<1>3. /\ list \in Seq(Name) /\ Threads /\ Sources \subseteq Name /\ Nil \notin Name
      /\ cur \in Sources /\ list[hd] \in Heads /\ list[hd] \in Sources /\ IsInjective(list)
      /\ Heads \subseteq Sources /\ Handed
  <2>1. /\ list \in Seq(Name) /\ Threads /\ Live \subseteq Sources /\ Handed
        /\ IsInjective(list) /\ Heads \subseteq Live /\ job.reps \in Seq(Name)
    BY <1>2 DEF PlanStands, Handed, Job
  <2>2. list[hd] \in Heads /\ cur \in Sources /\ Nil \notin Name
    BY <1>2, AtRep
  <2>3. Sources \subseteq Name
    BY <2>1, ElementOfSeq DEF Sources, Range
  <2>4. QED BY <2>1, <2>2, <2>3
<1>4. /\ \A h : Chain(h)' = Chain(h)
      /\ list' = list /\ thendo' = thendo
  BY <1>1, SamePlan DEF repVars
<1>5. Later(list, hd + 1) \subseteq Heads /\ list[hd] \notin Later(list, hd + 1)
  <2>1. hd + 1 \in Nat
    BY <1>2
  <2>2. QED BY <1>2, <1>3, <2>1, LaterFacts DEF Heads
<1> DEFINE Rest == UNION {Chain(h) : h \in Later(list, hd + 1)}
<1>6. cur \notin Rest
  <2>1. ASSUME NEW h \in Later(list, hd + 1), cur \in Chain(h)
        PROVE  FALSE
    <3>1. h \in Heads /\ h # list[hd]
      BY <1>5
    <3>2. QED BY <1>2, <1>3, <2>1, <3>1, ChainsApart
  <2>2. QED BY <2>1
<1>7. Left = Chain(cur) \cup Rest
  BY <1>2 DEF Left
<1>8. CASE thendo[cur] # Nil
  <2>1. thendo[cur] \in Sources
    BY <1>3, <1>8 DEF Threads
  <2>2. Left' = Chain(thendo[cur]) \cup Rest
    BY <1>1, <1>4, <1>8 DEF Left
  <2>3. cur \notin Chain(thendo[cur]) /\ Chain(cur) = {cur} \cup Chain(thendo[cur])
    BY <1>3, <1>8, NeverBehindItself
  <2>4. QED BY <1>6, <1>7, <2>2, <2>3
<1>9. CASE thendo[cur] = Nil
  <2>1. Left' = Rest
    BY <1>1, <1>4, <1>9 DEF Left
  <2>2. Closed({cur})
    BY <1>9 DEF Closed
  <2>3. Chain(cur) = {cur}
    BY <1>3, <2>2, ChainLeast, ChainCloses
  <2>4. QED BY <1>6, <1>7, <2>1, <2>3
<1>10. QED BY <1>8, <1>9

\* No other step does.
LEMMA LeftStays ==
  ASSUME RunInv, DoStep \/ Sigint, ~PrintLine, ~StartDoreps
  PROVE  UNCHANGED Left
<1>1. UNCHANGED <<job, repVars>>
  BY DoingSamePlan
<1>2. /\ \A h : Chain(h)' = Chain(h)
      /\ list' = list
  BY <1>1, SamePlan DEF repVars
<1>3. CASE NextChain
  <2>1. /\ pc = "chain" /\ hd <= Len(list) /\ cur' = list[hd] /\ hd' = hd
    BY <1>3 DEF NextChain
  <2>2. cur = Nil /\ PlanStands /\ hd \in 1..Len(list) /\ list \in Seq(Name)
    BY <2>1, LenProperties DEF RunInv, PlanStands, Handed
  <2>3. list[hd] # Nil /\ Later(list, hd) = Later(list, hd + 1) \cup {list[hd]}
    BY <2>2, LaterFacts, NameAssumption, ElementOfSeq
  <2>4. Left' = Chain(list[hd]) \cup UNION {Chain(h) : h \in Later(list, hd + 1)}
    BY <1>2, <2>1, <2>3 DEF Left
  <2>5. QED BY <2>2, <2>3, <2>4 DEF Left
<1>4. CASE ~NextChain
  <2>1. UNCHANGED <<hd, cur>>
    BY <1>4, CallFacts DEF DoStep, Call, UserBreak, BreakPrinting, StartRep,
                           ChainsEnd, Sigint, doVars
  <2>2. QED BY <1>2, <2>1 DEF Left
<1>5. QED BY <1>3, <1>4

\* doreps counts the reps it comes to, fails at most once before it turns to
\* the report, and only then, or when it has come to all of them, ends.
ProgressInv ==
    /\ {noex, failed, gotsig, printaliased} \subseteq BOOLEAN
    /\ handler \in {"breakout", "breakrep", "breakstat"}
    /\ noex = (job.noex \/ failed) /\ failed = (handler = "breakstat")
    /\ ~failed => ~printaliased /\ broken = Nil
    /\ pc \in WritingPhases => ~noex
    /\ k \in Nat
    /\ handler # "breakout" => k + Cardinality(Left) = Cardinality(Live)
    /\ pc = "exit" /\ (status = 2 \/ (handler = "breakrep" /\ ~noex)) =>
         handler # "breakout" /\ Left = {}
    /\ pc = "exit" /\ status = 2 => failed

\* doreps has not counted anything.
LEMMA ProgressInit == Init => ProgressInv
<1> SUFFICES ASSUME Init PROVE ProgressInv
  OBVIOUS
<1>1. job.noex \in BOOLEAN
  BY JobsAssumption DEF Init, PlanInit, RepInit, Job
<1>2. pc = "collisions"
  BY DEF Init, PlanInit
<1>3. QED BY <1>1, <1>2 DEF Init, DoInit, ProgressInv, WritingPhases

\* A run that planning ends has exit status 1.
LEMMA PlanningExits == (PlanStep \/ Breakout) /\ pc' = "exit" => status' = 1
<1> USE DEF Goto, Exit, PlanPhases
<1>1. CASE \/ CheckCollisions \/ ScanPair \/ ScanDone
           \/ OrderSkip \/ OrderFree \/ OrderCycle \/ OrderWait \/ WalkChain
           \/ UpdateFirst \/ UnlinkHead \/ OrderDone
  BY <1>1 DEF CheckCollisions, ScanPair, ScanDone, OrderSkip, OrderFree,
              OrderCycle, OrderWait, WalkChain, UpdateFirst, UnlinkHead,
              OrderDone
<1>2. CASE \/ ChainKeep \/ ChainEnter \/ PrintChainCall \/ PrintChainReturn
           \/ ChainUnlink \/ ChainsDone
  BY <1>2 DEF ChainKeep, ChainEnter, PrintChainCall, PrintChainReturn,
              ChainUnlink, ChainsDone
<1>3. CASE \/ DelNothing \/ BadDelKeep \/ BadDelRefuse \/ BadDelDone
           \/ GoOn \/ OrDie
           \/ SkipDelYes \/ SkipDelNo \/ SkipDelQuit \/ SkipDelDone
  BY <1>3 DEF DelNothing, BadDelKeep, KeepHead, BadDelRefuse, RefuseHead,
              BadDelDone, GoOn, OrDie, SkipDelYes, SkipDelNo, SkipDelQuit,
              SkipDelDone
<1>4. CASE Breakout
  BY <1>4 DEF Breakout
<1>5. QED BY <1>1, <1>2, <1>3, <1>4 DEF PlanStep

\* A rep is counted when its line is due, and only then.
LEMMA ProgressStep == RunInv /\ ProgressInv /\ [Next]_allVars => ProgressInv'
<1> SUFFICES ASSUME RunInv, ProgressInv, [Next]_allVars PROVE ProgressInv'
  OBVIOUS
<1>1. CASE Planning \/ Interrupt
  <2>1. /\ pc \in PlanPhases /\ UNCHANGED <<job, noex, failed, gotsig, printaliased,
                                            handler, broken, k>>
        /\ pc' \notin WritingPhases /\ (pc' = "exit" => status' = 1)
    BY <1>1, InPlanning, PlanningStays, PlanningExits, PlanRefuses
       DEF Planning, Interrupt, doVars
  <2>2. handler = "breakout"
    BY <2>1 DEF RunInv, DoInit
  <2>3. QED BY <2>1, <2>2 DEF ProgressInv
<1>2. CASE Doing \/ Signal
  <2>1. UNCHANGED <<job, repVars>> /\ (DoStep \/ Sigint)
    BY <1>2, DoingSamePlan DEF Doing, Signal
  <2>2. job' = job /\ Live' = Live
    BY <2>1, SamePlan
  <2>3. CASE StartDoreps
    <3>1. /\ pc = "doreps" /\ pc' = "chain" /\ handler' = "breakrep" /\ k' = 0
          /\ UNCHANGED <<noex, failed, gotsig, printaliased, broken>>
          /\ hd' = 1 /\ cur' = cur
      BY <2>3 DEF StartDoreps, Goes
    <3>2. PlanStands /\ cur = Nil /\ handler = "breakout"
      BY <3>1, PlanHands DEF RunInv, PlanStands, DoInit
    <3>3. PlanStands'
      BY <2>1, <3>2, SamePlan
    <3>4. Left' = Live'
      <4>1. (Handed /\ cur = Nil /\ hd = 1)'
        BY <3>1, <3>2, <3>3 DEF PlanStands
      <4>2. (Handed /\ cur = Nil /\ hd = 1 => Left = Live)'
        BY LeftAll, PTL
      <4>3. QED BY <4>1, <4>2
    <3>5. Cardinality(Left') \in Nat
      BY <3>3, <3>4, FS_CardinalityType DEF PlanStands, Handed
    <3>6. QED BY <2>2, <3>1, <3>2, <3>4, <3>5 DEF ProgressInv, WritingPhases
  <2>4. CASE PrintLine
    <3>1. /\ pc = "print" /\ pc' \in {"rep", "chain"} /\ k' = k + 1
          /\ UNCHANGED <<noex, failed, gotsig, printaliased, handler, broken>>
      BY <2>4 DEF PrintLine, Goes
    <3>2. Left' = Left \ {cur}
      BY <2>4, PrintLeaves
    <3>3. cur # Nil /\ handler # "breakout"
      BY <3>1 DEF RunInv, RepPhases
    <3>4. /\ cur \in Left /\ IsFiniteSet(Left) /\ IsFiniteSet(Live)
          /\ Cardinality(Left) \in Nat
      BY <3>3, LeftLive, FS_CardinalityType
    <3>5. Cardinality(Left') = Cardinality(Left) - 1
      BY <3>2, <3>4, FS_RemoveElement
    <3>6. QED BY <2>2, <3>1, <3>3, <3>4, <3>5 DEF ProgressInv, WritingPhases
  <2>5. CASE Call
    <3>1. /\ pc \in WritingPhases /\ pc' # "exit" /\ UNCHANGED <<gotsig, k>>
          /\ NoSnap \/ (Snap /\ pc' = "print")
      BY <2>5, CallFacts DEF RepPhases, WritingPhases
    <3>2. Left' = Left
      BY <2>1, <2>5, <3>1, LeftStays
         DEF DoStep, Call, PrintLine, StartDoreps, WritingPhases
    <3>3. handler # "breakout"
      BY <3>1 DEF RunInv, RepPhases
    <3>4. ~noex /\ handler = "breakrep"
      BY <3>1, <3>3 DEF ProgressInv
    <3>5. CASE NoSnap
      BY <2>2, <3>1, <3>2, <3>4, <3>5 DEF NoSnap, ProgressInv
    <3>6. CASE Snap /\ pc' = "print"
      <4>1. /\ failed' = TRUE /\ handler' = "breakstat" /\ noex' = TRUE
            /\ printaliased' \in BOOLEAN
        BY <3>6 DEF Snap, PrintAlias
      <4>2. QED BY <2>2, <3>1, <3>2, <3>3, <3>6, <4>1 DEF ProgressInv, WritingPhases
    <3>7. QED BY <3>1, <3>5, <3>6
  <2>6. CASE NextChain \/ UserBreak \/ BreakPrinting \/ StartRep \/ ChainsEnd \/ Sigint
    <3>1. Left' = Left
      BY <2>1, <2>6, LeftStays
         DEF NextChain, UserBreak, BreakPrinting, StartRep, ChainsEnd, Sigint,
             PrintLine, StartDoreps, doVars, Goes
    <3>2. CASE NextChain
      <4>1. /\ pc' = "rep" /\ printaliased' = FALSE
            /\ UNCHANGED <<noex, failed, gotsig, handler, k, broken>>
        BY <3>2 DEF NextChain, Goes
      <4>2. QED BY <2>2, <3>1, <4>1 DEF ProgressInv, WritingPhases
    <3>3. CASE UserBreak
      <4>1. /\ pc = "rep" /\ pc' = "print" /\ gotsig' = FALSE /\ k' = k
            /\ failed' = TRUE /\ handler' = "breakstat" /\ noex' = TRUE
            /\ printaliased' \in BOOLEAN
        BY <3>3 DEF UserBreak, Snap, PrintAlias, Goes
      <4>2. handler # "breakout"
        BY <4>1 DEF RunInv, RepPhases
      <4>3. QED BY <2>2, <3>1, <4>1, <4>2 DEF ProgressInv, WritingPhases
    <3>4. CASE BreakPrinting
      <4>1. pc' = "exit" /\ status' = 1 /\ noex /\ UNCHANGED doVars
        BY <3>4 DEF BreakPrinting, BreaksWhilePrinting
      <4>2. status' # 2 /\ ~(handler' = "breakrep" /\ ~noex') /\ pc' \notin WritingPhases
        BY <4>1 DEF WritingPhases, doVars
      <4>3. QED BY <2>2, <3>1, <4>1, <4>2 DEF ProgressInv, doVars
    <3>5. CASE StartRep
      <4>1. /\ UNCHANGED doVars
            /\ pc' \in {"alias", "print", "unlink"} /\ (pc' # "print" => ~noex)
        BY <3>5 DEF StartRep, Goes, NeedsAlias
      <4>2. pc' \in WritingPhases => ~noex'
        BY <4>1 DEF WritingPhases, doVars
      <4>3. pc' # "exit"
        BY <4>1
      <4>4. QED BY <2>2, <3>1, <4>1, <4>2, <4>3 DEF ProgressInv, doVars
    <3>6. CASE ChainsEnd
      <4>1. /\ UNCHANGED doVars /\ pc = "chain" /\ pc' = "exit" /\ hd > Len(list)
            /\ status' = 2 => failed
        BY <3>6 DEF ChainsEnd
      <4>2. cur = Nil /\ handler # "breakout"
        BY <4>1 DEF RunInv
      <4>3. Left = {}
        BY <4>1, <4>2, LeftLive
      <4>4. QED BY <2>2, <3>1, <4>1, <4>2, <4>3 DEF ProgressInv, WritingPhases, doVars
    <3>7. CASE Sigint
      <4>1. /\ UNCHANGED <<noex, failed, handler, k, broken, printaliased>>
            /\ gotsig' \in BOOLEAN /\ pc # "exit"
            /\ \/ pc' = pc
               \/ pc' = "exit" /\ handler # "breakrep" /\ status' = 1
        BY <3>7 DEF Sigint, ProgressInv, DoPhases
      <4>2. CASE pc' = pc
        BY <2>2, <3>1, <4>1, <4>2 DEF ProgressInv
      <4>3. CASE pc' = "exit" /\ handler # "breakrep" /\ status' = 1
        BY <2>2, <3>1, <4>1, <4>3 DEF ProgressInv, WritingPhases
      <4>4. QED BY <4>1, <4>2, <4>3
    <3>8. QED BY <2>6, <3>2, <3>3, <3>4, <3>5, <3>6, <3>7
  <2>7. QED BY <2>1, <2>3, <2>4, <2>5, <2>6 DEF DoStep, Call
<1>3. CASE UNCHANGED allVars
  <2>1. UNCHANGED <<job, repVars, pc, status, doVars>>
    BY <1>3 DEF allVars, vars
  <2>2. Left' = Left /\ Live' = Live
    BY <2>1, SamePlan DEF Left, doVars, repVars
  <2>3. QED BY <2>1, <2>2 DEF ProgressInv, doVars
<1>4. QED BY <1>1, <1>2, <1>3 DEF Next

\* So the count agrees with what is left.
LEMMA ProgressKept == Spec => [](RunInv /\ ProgressInv)
BY RunInit, RunStep, ProgressInit, ProgressStep, PTL DEF Spec

\* However many reps there are, doreps comes to as many as mmv->nreps says:
\* "Strange, did %d reps" is never printed.
THEOREM NeverStrange == Spec => []NothingStrange
<1>1. RunInv /\ ProgressInv => NothingStrange
  <2> SUFFICES ASSUME RunInv, ProgressInv, pc = "chain", hd > Len(list)
               PROVE  k = nreps
    BY DEF NothingStrange
  <2>1. cur = Nil /\ handler # "breakout"
    BY DEF RunInv
  <2>2. Left = {} /\ nreps = Cardinality(Live) /\ IsFiniteSet(Live)
    BY <2>1, LeftLive
  <2>3. k + Cardinality(Left) = Cardinality(Live) /\ k \in Nat
    BY <2>1 DEF ProgressInv
  <2>4. QED BY <2>2, <2>3, FS_EmptySet
<1>2. QED BY <1>1, ProgressKept, PTL
-----------------------------------------------------------------------------
(***************************************************************************)
(* The types of doreps' state.                                             *)
(***************************************************************************)
Below == OpToRel(<, Nat)

\* The order of the natural numbers, as the library's theorem wants it.
LEMMA BelowFacts == /\ IsWellFoundedOn(Below, Nat)
                    /\ \A x, y \in Nat : y < x => <<y, x>> \in Below
<1>1. IsWellFoundedOn(Below, Nat)
  BY NatLessThanWellFounded DEF Below
<1>2. \A x, y \in Nat : y < x => <<y, x>> \in Below
  BY DEF OpToRel, Below
<1>3. QED BY <1>1, <1>2

\* The number make_alias_fname takes is free in the snapshot.
LEMMA AliasIsFree ==
  ASSUME job \in Jobs, NEW d \in Dir
  PROVE  /\ AliasSeq(d) \in 0..MaxTemp
         /\ TempName[d][AliasSeq(d)] \notin job.files
         /\ TempName[d][AliasSeq(d)] \in Name \cap Temps
<1> DEFINE T == {s \in 0..MaxTemp : TempName[d][s] \notin job.files}
<1>1. T \subseteq Nat /\ T # {} /\ MaxTemp \in Nat
  BY TempAssumption
<1> HIDE DEF T
<1>2. PICK s \in T : \A u \in T : ~(<<u, s>> \in Below)
  BY <1>1, BelowFacts, WFMin
<1>3. \A u \in T : ~(u < s)
  BY <1>1, <1>2, BelowFacts
<1>4. s \in 0..MaxTemp /\ TempName[d][s] \notin job.files
  BY <1>2 DEF T
<1>5. \A u \in 0..(s - 1) : TempName[d][u] \in job.files
  <2>1. TAKE u \in 0..(s - 1)
  <2>2. u \in 0..MaxTemp /\ u < s
    BY <1>1, <1>4
  <2>3. QED BY <1>3, <2>2 DEF T
<1>6. AliasSeq(d) \in 0..MaxTemp /\ TempName[d][AliasSeq(d)] \notin job.files
  BY <1>4, <1>5 DEF AliasSeq
<1>7. TempName[d][AliasSeq(d)] \in Name \cap Temps
  <2>1. TempName \in [Dir -> [0..MaxTemp -> Name]]
    BY TempAssumption
  <2>2. ASSUME NEW q \in 0..MaxTemp PROVE TempName[d][q] \in Temps
    <3>1. \E e \in Dir, u \in 0..MaxTemp : TempName[d][q] = TempName[e][u]
      OBVIOUS
    <3>2. QED BY <3>1 DEF Temps
  <2>3. QED BY <1>6, <2>1, <2>2
<1>8. QED BY <1>6, <1>7

Content == Seq(Name \cup {Nil})

\* What is being copied has been opened.
ExecInv == /\ ExecTypeOK
           /\ pc = "copying" => fs[To] # Absent /\ fs[From] # Absent

\* doreps begins with the directories as takedir read them.
LEMMA ExecInit == Init => ExecInv
<1> SUFFICES ASSUME Init PROVE ExecInv
  OBVIOUS
<1>1. job.noex \in BOOLEAN /\ job.files \subseteq Name /\ pc = "collisions"
  BY JobsAssumption DEF Init, PlanInit, RepInit, Job
<1>2. \A n \in Name : <<n>> \in Content
  BY DEF Content
<1>3. fs \in [Name -> Content \cup {Absent}]
  BY <1>2 DEF Init, DoInit, Original
<1>4. 0 \in 0..MaxTemp /\ 0 \in 0..MaxSig
  BY TempAssumption
<1>5. /\ hd = 1 /\ cur = Nil /\ alias = 0 /\ aliaslen = SizeUnlimited
      /\ printaliased = FALSE /\ noex \in BOOLEAN /\ failed = FALSE /\ gotsig = FALSE
      /\ handler = "breakout" /\ k = 0
      /\ lines = {} /\ shown = {} /\ broken = Nil /\ sigs = 0
  BY <1>1 DEF Init, DoInit
<1>6. pc \in PlanPhases /\ pc \notin DoPhases /\ pc # "copying"
  BY <1>1 DEF PlanPhases, DoPhases
<1>7. {printaliased, noex, failed, gotsig} \subseteq BOOLEAN
  BY <1>5
<1>8. lines \subseteq [rep : Name, from : Name, done : BOOLEAN]
  BY <1>5
<1>9. ExecTypeOK
  BY <1>3, <1>4, <1>5, <1>6, <1>7, <1>8 DEF ExecTypeOK, Content
<1>10. QED BY <1>6, <1>9 DEF ExecInv

\* Which names the step from the rep in hand is about.
LEMMA RepNames ==
  ASSUME RunInv, ExecInv, pc \in RepPhases
  PROVE  /\ cur \in Live /\ cur \in Name /\ cur \in job.files /\ To \in Name
         /\ From \in Name /\ DirOf[cur] \in Dir /\ DirOf[To] \in Dir
         /\ From = cur \/ From = TempName[DirOf[cur]][alias]
         /\ PlanStands /\ hd \in 1..Len(list) /\ cur \in Chain(list[hd])
         /\ list[hd] \in Heads /\ list[hd] \in Live /\ handler # "breakout"
<1>1. /\ PlanStands /\ hd \in 1..Len(list) /\ cur \in Chain(list[hd])
      /\ handler # "breakout"
  BY DEF RunInv
<1>2. /\ list[hd] \in Heads /\ list[hd] \in Live
      /\ cur \in Live /\ cur \in Name /\ cur \in job.files /\ To \in Name
  BY <1>1, AtRep DEF To
<1>3. DirOf[cur] \in Dir /\ DirOf[To] \in Dir
  BY <1>2, TempAssumption
<1>4. TempName[DirOf[cur]][alias] \in Name
  BY <1>3, TempAssumption DEF ExecInv, ExecTypeOK
<1>5. QED BY <1>1, <1>2, <1>3, <1>4 DEF From

\* What is transferred is a sequence of pieces.
LEMMA TransferredTyped ==
  ASSUME RunInv, ExecInv, pc = "copying"
  PROVE  /\ fs[To] \in Content /\ Transferred \in Content
         /\ Transferred # << >> => Front(Transferred) \in Content
<1>1. /\ To \in Name /\ From \in Name
  BY RepNames DEF RepPhases, WritingPhases
<1>2. fs[To] \in Content /\ fs[From] \in Content
  BY <1>1 DEF ExecInv, ExecTypeOK, Content
<1>3. aliaslen \in Nat \cup {SizeUnlimited}
  BY DEF ExecInv, ExecTypeOK
<1> DEFINE m == IF aliaslen < Len(fs[From]) THEN aliaslen ELSE Len(fs[From])
<1>4. ASSUME NEW s \in Content, NEW n \in Int, n <= Len(s)
      PROVE  SubSeq(s, 1, n) \in Content
  <2>1. Len(s) \in Nat /\ \A x \in 1..Len(s) : s[x] \in Name \cup {Nil}
    BY LenProperties, ElementOfSeq DEF Content
  <2>2. \A x \in 1..n : s[x] \in Name \cup {Nil}
    BY <1>4, <2>1
  <2>3. QED BY <1>4, <2>2, SubSeqProperties DEF Content
<1>5. aliaslen # SizeUnlimited => m \in Int /\ m <= Len(fs[From])
  BY <1>2, <1>3, LenProperties DEF Content
<1>6. Transferred \in Content
  BY <1>2, <1>4, <1>5 DEF Transferred
<1>7. Front(Transferred) \in Content
  <2>1. Len(Transferred) \in Nat
    BY <1>6, LenProperties DEF Content
  <2>2. QED BY <1>4, <1>6, <2>1 DEF Front
<1>8. QED BY <1>2, <1>6, <1>7

\* The types of what the system calls change.
LEMMA ExecCalls ==
  ASSUME RunInv, ExecInv, Call
  PROVE  /\ fs' \in [Name -> Content \cup {Absent}]
         /\ alias' \in 0..MaxTemp /\ aliaslen' \in Nat \cup {SizeUnlimited}
         /\ pc' = "copying" => /\ fs'[To] # Absent /\ fs'[From] # Absent
                               /\ UNCHANGED <<aliased, alias>>
<1> USE DEF calm, Goes
<1>1. fs \in [Name -> Content \cup {Absent}] /\ Absent \notin Name
  BY NameAssumption DEF ExecInv, ExecTypeOK, Content, Absent
<1>2. pc \in WritingPhases
  BY CallFacts
<1>3. /\ cur \in Name /\ To \in Name /\ From \in Name /\ DirOf[To] \in Dir
  BY <1>2, RepNames DEF RepPhases
<1>4. alias \in 0..MaxTemp /\ aliaslen \in Nat \cup {SizeUnlimited}
  BY DEF ExecInv, ExecTypeOK
<1>5. \A n \in Name : fs[n] # Absent => Len(fs[n]) \in Nat
  BY <1>1, LenProperties DEF Content
<1>6. << >> \in Content
  BY DEF Content
<1>7. CASE MoveAlias
  <2>1. job \in Jobs
    BY DEF RunInv
  <2>2. /\ alias' \in 0..MaxTemp /\ TempName[DirOf[To]][alias'] \in Name
        /\ aliaslen' = aliaslen /\ pc' \in {"unlink", "print"}
    BY <1>3, <1>7, <2>1, AliasIsFree DEF MoveAlias
  <2>3. fs' = fs \/ fs' = [fs EXCEPT ![TempName[DirOf[To]][alias']] = fs[To], ![To] = Absent]
    BY <1>7 DEF MoveAlias
  <2>4. QED BY <1>1, <1>3, <1>4, <2>2, <2>3
<1>8. CASE AppendAlias
  BY <1>1, <1>3, <1>4, <1>5, <1>8 DEF AppendAlias
<1>9. CASE UnlinkOld
  <2>1. fs' = fs \/ fs' = [fs EXCEPT ![To] = Absent]
    BY <1>9 DEF UnlinkOld
  <2>2. UNCHANGED <<alias, aliaslen>> /\ pc' \in {"transfer", "print"}
    BY <1>9 DEF UnlinkOld
  <2>3. QED BY <1>1, <1>4, <2>1, <2>2
<1>10. CASE Rename
  <2>1. \/ fs' = fs
        \/ fs' = [fs EXCEPT ![To] = fs[From], ![From] = Absent]
    BY <1>10 DEF Rename
  <2>2. UNCHANGED <<alias, aliaslen>> /\ pc' = "print"
    BY <1>10 DEF Rename
  <2>3. QED BY <1>1, <1>3, <1>4, <2>1, <2>2
<1>11. CASE Link
  <2>1. fs' = fs \/ fs' = [fs EXCEPT ![To] = fs[From]]
    BY <1>11 DEF Link
  <2>2. UNCHANGED <<alias, aliaslen>> /\ pc' = "print"
    BY <1>11 DEF Link
  <2>3. QED BY <1>1, <1>3, <1>4, <2>1, <2>2
<1>12. CASE CopyOpen
  <2>1. UNCHANGED <<alias, aliaslen, aliased>> /\ pc' \in {"copying", "print"}
    BY <1>12 DEF CopyOpen, repVars
  <2>2. \/ fs' = fs /\ pc' = "print"
        \/ fs[From] # Absent /\ fs' = [fs EXCEPT ![To] = Opened(@)]
    BY <1>12 DEF CopyOpen
  <2>3. Opened(fs[To]) \in Content /\ Opened(fs[To]) # Absent
    <3>1. << >> # Absent
      <4>1. << >> \in Seq(Name)
        OBVIOUS
      <4>2. QED BY <4>1, NilAssumption DEF Absent
    <3>2. QED BY <1>1, <1>3, <1>6, <3>1 DEF Opened
  <2>4. QED BY <1>1, <1>3, <1>4, <2>1, <2>2, <2>3
<1>13. CASE CopyData
  <2>1. /\ UNCHANGED <<alias, aliaslen>> /\ pc' \in {"unlinksrc", "print"}
        /\ pc = "copying"
    BY <1>13 DEF CopyData
  <2>2. \/ fs' = [fs EXCEPT ![To] = @ \o Transferred]
        \/ fs' = fs \/ fs' = [fs EXCEPT ![To] = Absent]
        \/ Transferred # << >> /\ fs' = [fs EXCEPT ![To] = @ \o Front(Transferred)]
    BY <1>1, <1>3, <1>13 DEF CopyData, CopyRemoved
  <2>3. /\ fs[To] \o Transferred \in Content
        /\ Transferred # << >> => fs[To] \o Front(Transferred) \in Content
    BY <2>1, TransferredTyped, ConcatProperties DEF Content
  <2>4. QED BY <1>1, <1>3, <1>4, <2>1, <2>2, <2>3
<1>14. CASE UnlinkSource
  <2>1. fs' = fs \/ fs' = [fs EXCEPT ![From] = Absent]
    BY <1>14 DEF UnlinkSource, SourceGone
  <2>2. UNCHANGED <<alias, aliaslen>> /\ pc' = "print"
    BY <1>14 DEF UnlinkSource
  <2>3. QED BY <1>1, <1>4, <2>1, <2>2
<1>15. QED
  BY <1>7, <1>8, <1>9, <1>10, <1>11, <1>12, <1>13, <1>14 DEF Call

\* What snap shows are reps.
LEMMA ShownNames ==
  ASSUME job \in Job, shown \subseteq Name, Snap, cur \in Name
  PROVE  /\ shown' \subseteq Name /\ broken' \in Name \cup {Nil}
         /\ {printaliased', noex', failed'} \subseteq BOOLEAN /\ handler' = "breakstat"
<1>1. Sources \subseteq Name
  BY ElementOfSeq DEF Sources, Job, Range
<1>2. ShowDoneAll(cur) \subseteq Name
  BY <1>1 DEF ShowDoneAll, Chain
<1>3. QED BY <1>2 DEF Snap, PrintAlias

\* The rep in work is one.
LEMMA AtName == RunInv /\ cur # Nil => cur \in Name
BY AtRep DEF RunInv

\* Every step keeps the types, and the content of files a sequence of pieces.
LEMMA ExecStep ==
  RunInv /\ RunInv' /\ ProgressInv /\ ProgressInv' /\ ExecInv /\ [Next]_allVars => ExecInv'
<1> SUFFICES ASSUME RunInv, RunInv', ProgressInv, ProgressInv', ExecInv, [Next]_allVars
             PROVE  ExecInv'
  OBVIOUS
\* What the invariants say of the new state.
<1>1. /\ pc' \in PlanPhases \cup DoPhases \cup {"exit"}
      /\ hd' \in Nat \ {0} /\ handler' \in {"breakout", "breakrep", "breakstat"}
      /\ {printaliased', noex', failed', gotsig'} \subseteq BOOLEAN /\ k' \in Nat
      /\ pc' \in DoPhases \ {"doreps", "chain"} => pc' \in RepPhases \/ pc' = "end"
      /\ pc' # "end"
  BY DEF RunInv, ProgressInv, RepPhases, WritingPhases, DoPhases, PlanPhases
<1>2. (cur \in Name \cup {Nil} /\ (pc \in RepPhases => cur \in Name))'
  <2>1. (RunInv /\ cur # Nil => cur \in Name)'
    BY AtName, PTL
  <2>2. QED BY <2>1 DEF RunInv
<1>3. ASSUME fs' \in [Name -> Content \cup {Absent}],
             alias' \in 0..MaxTemp /\ aliaslen' \in Nat \cup {SizeUnlimited},
             sigs' \in 0..MaxSig, shown' \subseteq Name, broken' \in Name \cup {Nil},
             lines' \subseteq [rep : Name, from : Name, done : BOOLEAN],
             pc' = "copying" => (fs[To] # Absent /\ fs[From] # Absent)'
      PROVE  ExecInv'
  <2>1. ExecTypeOK'
    BY <1>1, <1>2, <1>3 DEF ExecTypeOK, Content
  <2>2. QED BY <1>3, <2>1 DEF ExecInv
<1>4. /\ fs \in [Name -> Content \cup {Absent}]
      /\ alias \in 0..MaxTemp /\ aliaslen \in Nat \cup {SizeUnlimited}
      /\ sigs \in 0..MaxSig /\ shown \subseteq Name /\ broken \in Name \cup {Nil}
      /\ lines \subseteq [rep : Name, from : Name, done : BOOLEAN]
  BY DEF ExecInv, ExecTypeOK, Content
<1>5. CASE UNCHANGED <<fs, alias, aliaslen, sigs, shown, broken, lines>> /\ pc' # "copying"
  BY <1>3, <1>4, <1>5
<1>6. CASE Planning \/ Interrupt
  <2>1. pc' # "copying" /\ UNCHANGED doVars
    BY <1>6, PlanningStays DEF Planning, Interrupt, WritingPhases
  <2>2. QED BY <1>5, <2>1 DEF doVars
<1>7. CASE Doing \/ Signal
  <2>1. UNCHANGED <<job, repVars>> /\ (DoStep \/ Sigint)
    BY <1>7, DoingSamePlan DEF Doing, Signal
  <2>2. CASE StartDoreps \/ NextChain \/ BreakPrinting \/ StartRep \/ ChainsEnd
    BY <1>5, <2>2 DEF StartDoreps, NextChain, BreakPrinting, StartRep, ChainsEnd,
                      calm, doVars, Goes
  <2>3. CASE Call
    <3>1. /\ pc \in RepPhases /\ cur' = cur /\ job' = job /\ sigs' = sigs /\ lines' = lines
          /\ NoSnap \/ Snap
      BY <2>3, CallFacts DEF RepPhases
    <3>2. cur \in Name /\ job \in Job
      BY <3>1, RepNames DEF PlanStands, Handed
    <3>3. shown' \subseteq Name /\ broken' \in Name \cup {Nil}
      <4>1. CASE NoSnap
        BY <1>4, <4>1 DEF NoSnap
      <4>2. CASE Snap
        BY <1>4, <3>2, <4>2, ShownNames
      <4>3. QED BY <3>1, <4>1, <4>2
    <3>4. /\ fs' \in [Name -> Content \cup {Absent}]
          /\ alias' \in 0..MaxTemp /\ aliaslen' \in Nat \cup {SizeUnlimited}
      BY <2>3, ExecCalls
    <3>5. pc' = "copying" => (fs[To] # Absent /\ fs[From] # Absent)'
      <4>1. ASSUME pc' = "copying" PROVE To' = To /\ From' = From
        BY <2>3, <3>1, <4>1, ExecCalls DEF To, From, UsesAlias, IsAppend
      <4>2. QED BY <2>3, <4>1, ExecCalls
    <3>6. QED BY <1>3, <1>4, <3>1, <3>3, <3>4, <3>5
  <2>4. CASE UserBreak
    <3>1. /\ pc \in RepPhases /\ pc' = "print" /\ Snap
          /\ UNCHANGED <<fs, alias, aliaslen, sigs, lines>>
      BY <2>4 DEF UserBreak, calm, Goes, RepPhases
    <3>2. cur \in Name /\ job \in Job
      BY <3>1, RepNames DEF PlanStands, Handed
    <3>3. shown' \subseteq Name /\ broken' \in Name \cup {Nil}
      BY <1>4, <3>1, <3>2, ShownNames
    <3>4. QED BY <1>3, <1>4, <3>1, <3>3
  <2>5. CASE PrintLine
    <3>1. /\ pc = "print" /\ pc' # "copying"
          /\ UNCHANGED <<fs, alias, aliaslen, sigs, shown, broken>>
          /\ \/ lines' = lines
             \/ lines' = lines \cup {[rep |-> cur, from |-> PrintedFrom, done |-> DoneMark]}
      BY <2>5 DEF PrintLine, calm, Goes
    <3>2. cur \in Name /\ PrintedFrom \in Name
      BY <3>1, RepNames DEF PrintedFrom, RepPhases
    <3>3. lines' \subseteq [rep : Name, from : Name, done : BOOLEAN]
      <4>1. [rep |-> cur, from |-> PrintedFrom, done |-> DoneMark]
              \in [rep : Name, from : Name, done : BOOLEAN]
        BY <3>2 DEF DoneMark
      <4>2. QED BY <1>4, <3>1, <4>1
    <3>4. QED BY <1>3, <1>4, <3>1, <3>3
  <2>6. CASE Sigint
    <3>1. /\ sigs' = sigs + 1 /\ sigs < MaxSig
          /\ UNCHANGED <<job, aliased, fs, alias, aliaslen, shown, broken, lines, cur>>
          /\ pc' = pc \/ pc' = "exit"
      BY <2>6 DEF Sigint, repVars
    <3>2. sigs' \in 0..MaxSig
      BY <1>4, <3>1, TempAssumption
    <3>3. pc' = "copying" => (fs[To] # Absent /\ fs[From] # Absent)'
      BY <3>1 DEF ExecInv, To, From, UsesAlias, IsAppend
    <3>4. QED BY <1>3, <1>4, <3>1, <3>2, <3>3
  <2>7. QED BY <2>1, <2>2, <2>3, <2>4, <2>5, <2>6 DEF DoStep, Call
<1>8. CASE UNCHANGED allVars
  <2>1. UNCHANGED <<job, aliased, pc, doVars>>
    BY <1>8 DEF allVars, vars, repVars
  <2>2. pc' = "copying" => (fs[To] # Absent /\ fs[From] # Absent)'
    BY <2>1 DEF ExecInv, To, From, UsesAlias, IsAppend, doVars
  <2>3. QED BY <1>3, <1>4, <2>1, <2>2 DEF doVars
<1>9. QED BY <1>6, <1>7, <1>8 DEF Next

\* So the three hold of every state.
LEMMA ExecKept == Spec => [](RunInv /\ ProgressInv /\ ExecInv)
<1>1. RunInv /\ ProgressInv /\ ExecInv /\ [Next]_allVars => (RunInv /\ ProgressInv /\ ExecInv)'
  BY RunStep, ProgressStep, ExecStep
<1>2. QED BY <1>1, RunInit, ProgressInit, ExecInit, PTL DEF Spec

\* doreps' state has its types: the inner loop always has a rep to work on, the
\* number of a temporary name can be tried, what is printed are names, and what
\* is copied has been opened, whatever fails on the way.
THEOREM ExecTypeCorrect == Spec => []ExecTypeOK
BY ExecKept, PTL DEF ExecInv
-----------------------------------------------------------------------------
(***************************************************************************)
(* Which reps are done, and which file a cycle has put aside.              *)
(***************************************************************************)
\* doreps is at work, or has ended well.
Well == ~noex /\ handler # "breakout"

\* The reps carried out: those doreps has left behind, and from the moment its
\* line is to be printed the one it is at.
Done == (Live \ Left) \cup (IF pc = "print" /\ ~noex THEN {cur} ELSE {})

\* doreps is in a cycle and has broken it.
Turned == /\ pc \in RepPhases /\ list[hd] \in cycle
          /\ cur # list[hd] \/ pc \notin {"rep", "alias"}

\* The source that waits under a temporary name.
Aside == IF IsMove /\ Turned THEN {job.to[list[hd]]} \ Done ELSE {}

Temp(r) == TempName[DirOf[r]][alias]

Targets(S) == {job.to[r] : r \in S}

MovePhases == {"unlink", "transfer", "copying", "unlinksrc"}

\* What is not left is done or at hand.
LEMMA DoneFacts ==
  ASSUME RunInv, ProgressInv, Well
  PROVE  /\ Done \subseteq Live /\ Live \subseteq Done \cup Left
         /\ \A r \in Done : r \notin Left \/ (r = cur /\ pc = "print")
         /\ pc \in RepPhases => (cur \in Done <=> pc = "print")
         /\ pc = "exit" => Left = {}
<1>1. /\ Left \subseteq Live
      /\ cur # Nil => cur \in Left /\ cur \in Live
  BY LeftLive DEF Well
<1>2. pc \in RepPhases => cur # Nil
  BY DEF RunInv
<1>3. pc = "exit" => Left = {}
  BY DEF ProgressInv, Well
<1>4. pc = "print" => cur \in Live
  BY <1>1, <1>2 DEF RepPhases
<1>5. QED BY <1>1, <1>2, <1>3, <1>4 DEF Done, Well

\* The plan while doreps works through it.
LEMMA PlanFrame ==
  ASSUME RunInv, handler # "breakout"
  PROVE  /\ PlanStands /\ Handed /\ list \in Seq(Name) /\ IsInjective(list)
         /\ Threads /\ Sources \subseteq Name /\ Sources \subseteq job.files
         /\ job.files \subseteq Name
         /\ Live \subseteq Sources /\ Heads \subseteq Live /\ Nil \notin Name
         /\ \A r \in Sources : job.to[r] \in Name
         /\ \A r \in Live : thendo[r] \in Live \cup {Nil}
<1>1. /\ PlanStands /\ Handed
  BY DEF RunInv, PlanStands
<1>2. /\ Sources \subseteq Name /\ Sources \subseteq job.files /\ job.files \subseteq Name
      /\ job.to \in [Name -> Name]
  BY <1>1, ElementOfSeq DEF Handed, Sources, Job, JobOK, Range
<1>3. QED BY <1>1, <1>2, NameAssumption DEF Handed

\* Where a rep that is left stands: in the chain being worked through, or in a
\* later one.
LEMMA LeftIn ==
  ASSUME RunInv, handler # "breakout", NEW x \in Left
  PROVE  \/ /\ cur # Nil /\ x \in Chain(cur) /\ x \in Chain(list[hd])
            /\ list[hd] \in Heads /\ Chain(cur) \subseteq Left
         \/ \E h \in Heads : /\ x \in Chain(h) /\ Chain(h) \subseteq Left
                             /\ cur # Nil => cur \notin Chain(h)
<1>1. /\ Handed /\ list \in Seq(Name) /\ IsInjective(list) /\ Threads
      /\ Sources \subseteq Name /\ Live \subseteq Sources /\ Heads \subseteq Live
      /\ hd \in Nat /\ PlanStands
  BY PlanFrame DEF RunInv
<1>2. CASE cur # Nil /\ x \in Chain(cur)
  <2>1. hd \in 1..Len(list) /\ cur \in Chain(list[hd])
    BY <1>2 DEF RunInv
  <2>2. list[hd] \in Heads
    BY <1>1, <2>1, AtRep
  <2>3. Chain(cur) \subseteq Chain(list[hd])
    BY <1>1, <2>1, <2>2, ChainWithin
  <2>4. QED BY <1>2, <2>2, <2>3 DEF Left
<1>3. CASE cur = Nil \/ x \notin Chain(cur)
  <2>1. PICK h \in Later(list, IF cur = Nil THEN hd ELSE hd + 1) : x \in Chain(h)
    BY <1>3 DEF Left
  <2>2. h \in Heads
    BY <1>1, <2>1, LaterFacts DEF Heads
  <2>3. Chain(h) \subseteq Left
    BY <2>1 DEF Left
  <2>4. cur # Nil => cur \notin Chain(h)
    <3>1. SUFFICES ASSUME cur # Nil, cur \in Chain(h) PROVE FALSE
      OBVIOUS
    <3>2. hd \in 1..Len(list) /\ cur \in Chain(list[hd])
      BY <3>1 DEF RunInv
    <3>3. list[hd] \in Heads
      BY <1>1, <3>2, AtRep
    <3>4. h = list[hd]
      BY <1>1, <2>2, <3>1, <3>2, <3>3, ChainsApart
    <3>5. list[hd] \notin Later(list, hd + 1)
      BY <1>1, <3>2, LaterFacts
    <3>6. QED BY <2>1, <3>1, <3>4, <3>5
  <2>5. QED BY <2>1, <2>2, <2>3, <2>4
<1>4. QED BY <1>2, <1>3

\* r_thendo does not lead back to what has been done.
LEMMA LeftOnward ==
  ASSUME RunInv, handler # "breakout", NEW x \in Left
  PROVE  /\ thendo[x] # Nil => thendo[x] \in Left
         /\ cur # Nil => thendo[x] # cur
<1>1. /\ Handed /\ Threads /\ Sources \subseteq Name /\ Live \subseteq Sources
      /\ Heads \subseteq Sources /\ Nil \notin Name
      /\ cur # Nil => cur \in Sources
  BY PlanFrame, LeftLive
<1>2. CASE cur # Nil /\ x \in Chain(cur) /\ Chain(cur) \subseteq Left
  <2>1. Closed(Chain(cur)) /\ cur \in Sources
    BY <1>1, <1>2, ChainCloses
  <2>2. thendo[x] # Nil => thendo[x] \in Left
    BY <1>2, <2>1 DEF Closed
  <2>3. thendo[x] # cur
    <3>1. SUFFICES ASSUME thendo[x] = cur PROVE FALSE
      OBVIOUS
    <3>2. x \in Sources /\ thendo[x] # Nil
      BY <1>1, <1>2, <3>1, LeftLive
    <3>3. x \notin Chain(cur)
      BY <1>1, <3>1, <3>2, NeverBehindItself
    <3>4. QED BY <1>2, <3>3
  <2>4. QED BY <2>2, <2>3
<1>3. ASSUME NEW h \in Heads, x \in Chain(h), Chain(h) \subseteq Left,
             cur # Nil => cur \notin Chain(h)
      PROVE  /\ thendo[x] # Nil => thendo[x] \in Left
             /\ cur # Nil => thendo[x] # cur
  <2>1. Closed(Chain(h))
    BY <1>1, ChainCloses
  <2>2. QED BY <1>3, <2>1 DEF Closed
<1>4. QED BY <1>2, <1>3, LeftIn

\* A chain that is not over and whose head has been come to is the one at hand.
LEMMA HeadAtHand ==
  ASSUME RunInv, handler # "breakout", NEW h \in Heads, NEW x \in Left, x \in Chain(h),
         h \notin Left \/ h = cur
  PROVE  cur # Nil /\ h = list[hd]
<1>1. /\ Handed /\ Threads /\ Sources \subseteq Name /\ Heads \subseteq Sources
      /\ Nil \notin Name
  BY PlanFrame
<1>2. ASSUME NEW g \in Heads, x \in Chain(g), Chain(g) \subseteq Left,
             cur # Nil => cur \notin Chain(g)
      PROVE  FALSE
  <2>1. g = h
    BY <1>1, <1>2, ChainsApart
  <2>2. g \in Chain(g) /\ g # Nil
    BY <1>1, ChainCloses
  <2>3. QED BY <1>2, <2>1, <2>2
<1>3. /\ cur # Nil /\ x \in Chain(list[hd]) /\ list[hd] \in Heads
  BY <1>2, LeftIn
<1>4. QED BY <1>1, <1>3, ChainsApart

\* At the head of a cycle, as soon as it is broken, its target is put aside.
LEMMA AsideFacts ==
  ASSUME RunInv, ProgressInv, Well
  PROVE  /\ \A r \in Aside : /\ IsMove /\ Turned /\ r = job.to[list[hd]] /\ Aside = {r}
                             /\ r \in aliased /\ r \in Chain(list[hd]) /\ thendo[r] = Nil
                             /\ list[hd] \in Live /\ r \in Live /\ r \notin Done
         /\ ~IsMove => Aside = {}
<1>1. ASSUME NEW r \in Aside
      PROVE  /\ IsMove /\ Turned /\ r = job.to[list[hd]] /\ Aside = {r}
             /\ r \in aliased /\ r \in Chain(list[hd]) /\ thendo[r] = Nil
             /\ list[hd] \in Live /\ r \in Live /\ r \notin Done
  <2>1. IsMove /\ Turned /\ r = job.to[list[hd]] /\ Aside = {r} /\ r \notin Done
    BY <1>1 DEF Aside
  <2>2. PlanStands /\ list[hd] \in cycle /\ Heads \subseteq Live
    BY <2>1, PlanFrame DEF Well, Turned
  <2>3. /\ list[hd] \in Heads /\ job.to[list[hd]] \in Live /\ Breaks(list[hd])
    BY <2>1, <2>2 DEF PlanStands, HandedMoves
  <2>4. ~IsAppend
    BY <2>1 DEF IsMove, IsAppend, MoveOps, AppendOps
  <2>5. QED BY <2>1, <2>2, <2>3, <2>4 DEF Breaks
<1>2. QED BY <1>1 DEF Aside

\* The rep at hand, from the moment its target is to be vacated, and the reps
\* done: if their target is the source of a rep, that has left it.
Passed(r) == r \in Done \/ (r = cur /\ pc \in MovePhases)

\* A target's old file, to be moved itself, has gone when its turn is over.
LEMMA PlaceVacated ==
  ASSUME RunInv, ProgressInv, Well, IsMove, NEW r \in Live, Passed(r),
         job.to[r] \in Live
  PROVE  job.to[r] \in Done \cup Aside
<1> DEFINE f == job.to[r]
<1>1. SUFFICES ASSUME f \in Left PROVE f \in Done \cup Aside
  BY DoneFacts
<1>2. handler # "breakout" /\ PlanStands
  BY PlanFrame DEF Well
<1>3. pc # "exit" /\ (r \notin Left \/ (r = cur /\ pc \in MovePhases \cup {"print"}))
  BY <1>1, DoneFacts DEF Passed
<1>4. r = cur /\ pc \in MovePhases \cup {"print"} => cur # Nil
  BY DEF RunInv, RepPhases, WritingPhases, MovePhases
<1>5. thendo[f] = r \/ Breaks(r)
  BY <1>2 DEF PlanStands, HandedMoves
<1>6. CASE thendo[f] = r
  <2>1. r # Nil
    BY <1>2, PlanFrame
  <2>2. QED BY <1>1, <1>2, <1>3, <1>4, <1>6, <2>1, LeftOnward
<1>7. CASE Breaks(r)
  <2>1. r \in cycle /\ r \in Heads /\ f \in Chain(r)
    BY <1>7 DEF Breaks
  <2>2. cur # Nil /\ r = list[hd]
    BY <1>1, <1>2, <1>3, <2>1, HeadAtHand
  <2>3. pc \in RepPhases
    BY <1>2, <1>3, <2>2 DEF RunInv
  <2>4. cur = list[hd] => pc \notin {"rep", "alias"}
    <3>1. SUFFICES ASSUME cur = list[hd], pc \in {"rep", "alias"} PROVE FALSE
      OBVIOUS
    <3>2. r = cur /\ r \in Left
      BY <1>2, <2>2, <3>1, LeftLive
    <3>3. QED BY <1>3, <3>1, <3>2 DEF MovePhases
  <2>5. Turned
    BY <2>1, <2>2, <2>3, <2>4 DEF Turned
  <2>6. QED BY <2>2, <2>5 DEF Aside
<1>8. QED BY <1>5, <1>6, <1>7

\* The name a move reads from: the temporary one if its source was put aside.
LEMMA FromIs ==
  ASSUME RunInv, ProgressInv, Well, pc \in MovePhases
  PROVE  /\ cur \notin Done /\ cur \in Live
         /\ IsMove => (cur \in aliased <=> cur \in Aside)
         /\ ~IsMove => cur \notin Aside
         /\ ~IsAppend => From = IF cur \in Aside THEN Temp(cur) ELSE cur
         /\ CopyOrLink => cur \notin aliased
<1>1. /\ PlanStands /\ hd \in 1..Len(list) /\ cur \in Chain(list[hd]) /\ cur # Nil
      /\ pc \in RepPhases /\ pc \notin {"rep", "alias", "print"}
  BY PlanFrame DEF Well, RunInv, RepPhases, WritingPhases, MovePhases
<1>2. cur \notin Done /\ cur \in Live /\ list[hd] \in Heads
  BY <1>1, DoneFacts, LeftLive, AtRep DEF Well
<1>3. ASSUME IsMove, cur \in aliased PROVE cur \in Aside
  <2>1. PICK h \in cycle \cap Heads : job.to[h] = cur /\ cur \in Chain(h)
    BY <1>1, <1>2, <1>3 DEF PlanStands, HandedMoves
  <2>2. h = list[hd]
    BY <1>1, <1>2, <2>1, ChainsApart DEF PlanStands
  <2>3. Turned
    BY <1>1, <2>1, <2>2 DEF Turned
  <2>4. QED BY <1>2, <1>3, <2>1, <2>2, <2>3 DEF Aside
<1>4. (cur \in Aside => cur \in aliased) /\ (~IsMove => cur \notin Aside)
  BY AsideFacts
<1>5. CopyOrLink => cur \notin aliased
  BY <1>1, <1>2 DEF PlanStands, HandedCopies
<1>6. ~IsAppend /\ ~IsMove => CopyOrLink
  BY <1>1 DEF PlanStands, Handed, Job, Ops, CopyOrLink, IsMove, IsAppend
<1>7. ~IsAppend => From = IF cur \in Aside THEN Temp(cur) ELSE cur
  BY <1>3, <1>4, <1>5, <1>6 DEF From, UsesAlias, Temp
<1>8. QED BY <1>2, <1>3, <1>4, <1>5, <1>7
-----------------------------------------------------------------------------
(***************************************************************************)
(* Where every file is, exactly, while a move, a copy or a link goes well. *)
(***************************************************************************)
\* No target is the name of a temporary file.  make_alias_fname does not look
\* at the targets, so that a move is only known to be safe if this holds.
PlainTargets == \A r \in Sources : job.to[r] \notin Temps

\* The target the rep at hand is about to be, or is being, written to.
Busy == IF pc \in {"transfer", "copying", "unlinksrc"} THEN {To} ELSE {}

\* What a name holds that no rep has been moved to.
Was(n) == IF IsMove /\ n \in Done \cup Aside THEN Absent ELSE Original[n]

\* A rep done is under its new name, the source put aside under the temporary
\* one, and everything else is as it was, but for the sources that have left.
Standing ==
    /\ \A r \in Done : fs[job.to[r]] = <<r>>
    /\ \A r \in Aside : fs[Temp(r)] = <<r>> /\ Temp(r) \in (Name \cap Temps) \ job.files
    /\ \A n \in Name : n \notin Targets(Done) \cup {Temp(r) : r \in Aside} \cup Busy =>
                         fs[n] = Was(n)
    /\ pc = "transfer" => fs[To] = IF Overwrites THEN Original[To] ELSE Absent
    /\ pc = "copying" => fs[To] = << >>
    /\ pc = "unlinksrc" => IsMove /\ fs[To] = <<cur>>

PlaceInv == Well /\ ~IsAppend /\ (IsMove => PlainTargets) => Standing

\* A source that has not been moved is where it was.
LEMMA StillHome ==
  ASSUME RunInv, ProgressInv, Well, ~IsAppend, Standing,
         NEW f \in Live, ~IsMove \/ f \notin Done \cup Aside
  PROVE  /\ f \notin Targets(Done) /\ fs[f] = <<f>>
         /\ pc \in MovePhases => f # To
<1>1. /\ PlanStands /\ Live \subseteq job.files /\ job.files \subseteq Name
      /\ Done \subseteq Live
  BY PlanFrame, DoneFacts DEF Well
<1>2. ~IsMove => CopyOrLink
  BY <1>1 DEF PlanStands, Handed, Job, Ops, CopyOrLink, IsMove, IsAppend
<1>3. ASSUME NEW r \in Live, Passed(r) PROVE job.to[r] # f
  <2>1. CASE IsMove
    BY <1>3, <2>1, PlaceVacated
  <2>2. CASE ~IsMove
    BY <1>1, <1>2, <2>2 DEF PlanStands, HandedCopies
  <2>3. QED BY <2>1, <2>2
<1>4. f \notin Targets(Done)
  BY <1>1, <1>3 DEF Targets, Passed
<1>5. pc \in MovePhases => f # To
  <2>1. pc \in MovePhases => cur \in Live
    BY FromIs
  <2>2. QED BY <1>3, <2>1 DEF Passed, To
<1>6. f \notin Busy /\ f \notin {Temp(r) : r \in Aside}
  BY <1>1, <1>5 DEF Busy, Standing, MovePhases
<1>7. fs[f] = Original[f] /\ Original[f] = <<f>>
  BY <1>1, <1>4, <1>6 DEF Standing, Was, Original
<1>8. QED BY <1>4, <1>5, <1>7

\* When a rep is being moved, its file is under the name it is read from, and
\* nothing else is in its way.
LEMMA Ready ==
  ASSUME RunInv, ProgressInv, ExecInv, Well, ~IsAppend, IsMove => PlainTargets,
         Standing, pc \in MovePhases
  PROVE  /\ cur \in Live /\ cur \notin Done /\ cur \in Name /\ cur \in job.files
         /\ To \in Name /\ From \in Name /\ From # To /\ fs[From] = <<cur>>
         /\ To \notin Targets(Done) /\ From \notin Targets(Done)
         /\ \A r \in Aside : Temp(r) # To /\ Temp(r) \notin Targets(Done)
         /\ IF cur \in Aside
            THEN IsMove /\ From = Temp(cur) /\ From \notin job.files /\ Aside = {cur}
            ELSE From = cur
<1>1. /\ cur \in Live /\ cur \notin Done /\ cur \in Name /\ cur \in job.files
      /\ To \in Name /\ From \in Name
      /\ From = IF cur \in Aside THEN Temp(cur) ELSE cur
  BY FromIs, RepNames DEF MovePhases, RepPhases, WritingPhases
<1>2. Handed /\ Live \subseteq Sources /\ Done \subseteq Live
  BY PlanFrame, DoneFacts DEF Well
<1>3. To \notin Targets(Done)
  BY <1>1, <1>2 DEF Handed, Targets, To
<1>4. ASSUME NEW r \in Aside PROVE Temp(r) # To /\ Temp(r) \notin Targets(Done)
  <2>1. IsMove
    BY AsideFacts
  <2>2. Temp(r) \in Temps
    BY DEF Standing
  <2>3. QED BY <1>1, <1>2, <2>1, <2>2 DEF PlainTargets, Targets, To
<1>5. CASE cur \in Aside
  <2>1. /\ IsMove /\ Aside = {cur} /\ fs[Temp(cur)] = <<cur>> /\ Temp(cur) \notin job.files
    BY <1>5, AsideFacts DEF Standing
  <2>2. QED BY <1>1, <1>3, <1>4, <1>5, <2>1
<1>6. CASE cur \notin Aside
  <2>1. cur \notin Targets(Done) /\ fs[cur] = <<cur>> /\ cur # To
    BY <1>1, <1>6, StillHome
  <2>2. QED BY <1>1, <1>3, <1>4, <1>6, <2>1
<1>7. QED BY <1>5, <1>6

\* The target of a rep to be moved is vacant, unless it is to be deleted first.
LEMMA Vacant ==
  ASSUME RunInv, ProgressInv, ExecInv, Well, ~IsAppend, IsMove => PlainTargets,
         Standing, pc = "unlink", fdel[cur] = Nil \/ Overwrites
  PROVE  fs[To] = IF Overwrites THEN Original[To] ELSE Absent
<1>1. pc \in MovePhases /\ Busy = {}
  BY DEF MovePhases, Busy
<1>2. /\ cur \in Live /\ To \in Name /\ To \notin Targets(Done)
      /\ \A r \in Aside : Temp(r) # To
  BY <1>1, Ready
<1>3. fs[To] = Was(To)
  BY <1>1, <1>2 DEF Standing
<1>4. PlanStands /\ Done \subseteq Live /\ (IsMove \/ CopyOrLink) /\ Live \subseteq Sources
  BY PlanFrame, DoneFacts
     DEF Well, Handed, Job, Ops, CopyOrLink, IsMove, IsAppend
<1>5. Aside \subseteq Live
  BY AsideFacts
<1>6. Snapshot(cur) = Nil => Original[To] = Absent
  <2>1. cur \in Sources /\ job.to[cur] \in Name /\ Nil \notin Name
    BY <1>2, <1>4, PlanFrame DEF Well
  <2>2. Snapshot(cur) = Nil => job.to[cur] \notin job.files
    BY <2>1 DEF Snapshot
  <2>3. QED BY <1>2, <2>2 DEF Original, To
<1>7. CASE IsMove
  <2>1. ~Overwrites
    BY <1>7 DEF Overwrites, IsMove, MoveOps, AppendOps
  <2>2. fdel[cur] = IF To \in Live THEN Nil ELSE Snapshot(cur)
    BY <1>2, <1>4, <1>7 DEF PlanStands, HandedMoves, To
  <2>3. CASE To \in Live
    <3>1. To \in Done \cup Aside
      BY <1>1, <1>2, <1>7, <2>3, PlaceVacated DEF Passed, To
    <3>2. QED BY <1>3, <1>7, <2>1, <3>1 DEF Was
  <2>4. CASE To \notin Live
    BY <1>3, <1>4, <1>5, <1>6, <2>1, <2>2, <2>4 DEF Was
  <2>5. QED BY <2>3, <2>4
<1>8. CASE ~IsMove
  <2>1. fdel[cur] = Snapshot(cur)
    BY <1>2, <1>4, <1>8 DEF PlanStands, HandedCopies
  <2>2. QED BY <1>3, <1>6, <1>8, <2>1 DEF Was
<1>9. QED BY <1>7, <1>8

\* A step that only writes to the target, and is not the last one for its rep.
LEMMA Writes ==
  ASSUME RunInv, ProgressInv, ExecInv, Well, ~IsAppend, IsMove => PlainTargets,
         Standing, pc \in MovePhases, pc' \in {"transfer", "copying", "unlinksrc"},
         UNCHANGED <<job, repVars, hd, cur, noex, alias, Left>>,
         \A n \in Name : n # To => fs'[n] = fs[n],
         pc' = "transfer" => fs'[To] = IF Overwrites THEN Original[To] ELSE Absent,
         pc' = "copying" => fs'[To] = << >>,
         pc' = "unlinksrc" => IsMove /\ fs'[To] = <<cur>>
  PROVE  Standing'
<1>1. /\ UNCHANGED <<job, list, cycle, hd, cur, noex, alias, Left, Live, IsMove>>
      /\ To' = To
  BY SamePlan DEF repVars, To
<1>2. ~noex /\ pc # "print" /\ pc' # "print"
  BY DEF MovePhases, Well
<1>3. Done' = Done
  BY <1>1, <1>2 DEF Done
<1>4. Turned' <=> Turned
  BY <1>1 DEF Turned, MovePhases, RepPhases, WritingPhases
<1>5. Aside' = Aside
  BY <1>1, <1>3, <1>4 DEF Aside
<1>6. /\ \A r : Temp(r)' = Temp(r)
      /\ Targets(Done)' = Targets(Done) /\ Overwrites' = Overwrites
      /\ \A n : Was(n)' = Was(n)
      /\ {Temp(r) : r \in Aside}' = {Temp(r) : r \in Aside}
      /\ Original' = Original
  BY <1>1, <1>3, <1>5 DEF Temp, Targets, Overwrites, Was, Original
<1>7. /\ To \notin Targets(Done) /\ \A r \in Aside : Temp(r) # To
      /\ Done \subseteq Live /\ \A r \in Live : job.to[r] \in Name
  BY Ready, PlanFrame, DoneFacts DEF Well
<1>8. (\A r \in Done : fs[job.to[r]] = <<r>>)'
  <2>1. \A r \in Done : job.to[r] # To
    BY <1>7 DEF Targets
  <2>2. QED BY <1>1, <1>3, <1>7, <2>1 DEF Standing
<1>9. (\A r \in Aside : fs[Temp(r)] = <<r>> /\ Temp(r) \in (Name \cap Temps) \ job.files)'
  BY <1>1, <1>5, <1>6, <1>7 DEF Standing, Temps
<1>10. Busy \subseteq {To} /\ Busy' = {To}
  BY <1>1 DEF Busy
<1>11. (\A n \in Name : n \notin Targets(Done) \cup {Temp(r) : r \in Aside} \cup Busy =>
                          fs[n] = Was(n))'
  BY <1>6, <1>10 DEF Standing
<1>12. QED
  BY <1>1, <1>6, <1>8, <1>9, <1>11 DEF Standing

\* The step that brings a rep to its place.
LEMMA Lands ==
  ASSUME RunInv, ProgressInv, ExecInv, Well, ~IsAppend, IsMove => PlainTargets,
         Standing, pc \in MovePhases, pc' = "print",
         UNCHANGED <<job, repVars, hd, cur, noex, alias, Left>>,
         fs'[To] = <<cur>>,
         fs'[From] = IF IsMove THEN Absent ELSE fs[From],
         \A n \in Name : n # To /\ n # From => fs'[n] = fs[n]
  PROVE  Standing'
<1>1. /\ UNCHANGED <<job, list, cycle, hd, cur, noex, alias, Left, Live, IsMove>>
      /\ To' = To
  BY SamePlan DEF repVars, To
<1>2. ~noex /\ pc # "print"
  BY DEF MovePhases, Well
<1>3. Done' = Done \cup {cur}
  BY <1>1, <1>2 DEF Done
<1>4. Turned' <=> Turned
  BY <1>1 DEF Turned, MovePhases, RepPhases, WritingPhases
<1>5. Aside' = Aside \ {cur}
  BY <1>1, <1>3, <1>4 DEF Aside
<1>6. /\ \A r : Temp(r)' = Temp(r)
      /\ Original' = Original /\ Busy' = {}
      /\ Targets(Done)' = Targets(Done) \cup {To}
  BY <1>1, <1>3 DEF Temp, Targets, Original, Busy, To
<1>7. /\ cur \in Live /\ cur \notin Done /\ cur \in Name /\ cur \in job.files
      /\ To \in Name /\ From \in Name /\ From # To /\ fs[From] = <<cur>>
      /\ To \notin Targets(Done) /\ From \notin Targets(Done)
      /\ \A r \in Aside : Temp(r) # To /\ Temp(r) \notin Targets(Done)
      /\ IF cur \in Aside
         THEN IsMove /\ From = Temp(cur) /\ From \notin job.files /\ Aside = {cur}
         ELSE From = cur
      /\ Done \subseteq Live /\ \A r \in Live : job.to[r] \in Name
  BY Ready, PlanFrame, DoneFacts DEF Well
<1>8. (\A r \in Done : fs[job.to[r]] = <<r>>)'
  <2>1. \A r \in Done : job.to[r] # To /\ job.to[r] # From
    BY <1>7 DEF Targets
  <2>2. \A r \in Done : fs'[job.to[r]] = <<r>>
    BY <1>7, <2>1 DEF Standing
  <2>3. QED BY <1>1, <1>3, <2>2 DEF To
<1>9. (\A r \in Aside : fs[Temp(r)] = <<r>> /\ Temp(r) \in (Name \cap Temps) \ job.files)'
  <2>1. ASSUME NEW r \in Aside, r # cur PROVE Temp(r) # To /\ Temp(r) # From
    BY <1>7, <2>1 DEF Standing
  <2>2. QED BY <1>1, <1>5, <1>6, <2>1 DEF Standing, Temps
<1>10. ASSUME NEW n \in Name, n \notin Targets(Done) \cup {To},
              \A r \in Aside \ {cur} : n # Temp(r)
       PROVE  fs'[n] = IF IsMove /\ n \in Done \cup {cur} \cup Aside THEN Absent
                       ELSE Original[n]
  <2>1. CASE n = From
    <3>1. CASE IsMove
      BY <1>7, <1>10, <2>1, <3>1 DEF Original
    <3>2. CASE ~IsMove
      BY <1>7, <1>10, <2>1, <3>2 DEF Original
    <3>3. QED BY <3>1, <3>2
  <2>2. CASE n # From
    <3>1. fs'[n] = fs[n] /\ n \notin Busy
      BY <1>10, <2>2 DEF Busy
    <3>2. \A r \in Aside : n # Temp(r)
      BY <1>7, <1>10, <2>2
    <3>3. fs[n] = Was(n)
      BY <1>10, <3>1, <3>2 DEF Standing
    <3>4. IsMove => (n \in Done \cup {cur} \cup Aside <=> n \in Done \cup Aside)
      BY <1>7, <2>2
    <3>5. QED BY <3>1, <3>3, <3>4 DEF Was
  <2>3. QED BY <2>1, <2>2
<1>11. (\A n \in Name : n \notin Targets(Done) \cup {Temp(r) : r \in Aside} \cup Busy =>
                          fs[n] = Was(n))'
  <2>1. SUFFICES ASSUME NEW n \in Name,
                        (n \notin Targets(Done) \cup {Temp(r) : r \in Aside} \cup Busy)'
                 PROVE  fs'[n] = Was(n)'
    OBVIOUS
  <2>2. n \notin Targets(Done) \cup {To} /\ \A r \in Aside \ {cur} : n # Temp(r)
    BY <1>5, <1>6, <2>1
  <2>3. fs'[n] = IF IsMove /\ n \in Done \cup {cur} \cup Aside THEN Absent
                 ELSE Original[n]
    BY <1>10, <2>2
  <2>4. Done' \cup Aside' = Done \cup {cur} \cup Aside
    BY <1>3, <1>5
  <2>5. QED BY <1>1, <1>6, <2>3, <2>4 DEF Was
<1>12. QED BY <1>8, <1>9, <1>11 DEF Standing

\* movealias renames the target of a cycle's head, and nothing else.
LEMMA AliasMoves ==
  ASSUME RunInv, ProgressInv, ExecInv, Well, ~IsAppend, IsMove => PlainTargets,
         Standing, MoveAlias, UNCHANGED <<noex, Left>>
  PROVE  /\ UNCHANGED <<job, repVars, hd, cur, Live, Done, IsMove, To>>
         /\ pc' = "unlink" /\ IsMove /\ To \in Name /\ To \in job.files /\ To \in Live
         /\ To \notin Done /\ \A r \in Live : job.to[r] = To => r = cur
         /\ cur \notin Done /\ Done \subseteq Live /\ Live \subseteq Sources
         /\ \A r \in Live : job.to[r] \in Name
         /\ Aside = {} /\ Busy = {} /\ Aside' = {To} /\ Busy' = {}
         /\ fs[To] = <<To>> /\ fs'[To] = Absent
         /\ Temp(To)' \in (Name \cap Temps) \ job.files /\ fs'[Temp(To)'] = <<To>>
         /\ \A n \in Name : n # Temp(To)' /\ n # To => fs'[n] = fs[n]
<1>1. /\ pc = "alias" /\ UNCHANGED <<job, repVars, hd, cur>>
      /\ alias' = AliasSeq(DirOf[To])
  BY DEF MoveAlias, calm
<1>2. /\ pc' = "unlink" /\ fs[To] # Absent
      /\ fs' = [fs EXCEPT ![TempName[DirOf[To]][alias']] = fs[To], ![To] = Absent]
  <2>1. ~Snap
    BY DEF Snap, Well
  <2>2. QED BY <2>1 DEF MoveAlias, Goes
<1>3. /\ UNCHANGED <<job, list, cycle, hd, cur, noex, Left, Live, IsMove>>
      /\ To' = To
  BY <1>1, SamePlan DEF repVars, To
<1>4. /\ PlanStands /\ cur = list[hd] /\ cur \in cycle /\ cur \in Live /\ cur \in Heads
      /\ hd \in 1..Len(list) /\ cur \in Chain(list[hd]) /\ DirOf[To] \in Dir
      /\ To \in Name /\ ~CopyOrLink
  BY <1>1, RepNames, CycleAtHead DEF RunInv, RepPhases, WritingPhases
<1>5. IsMove
  BY <1>4 DEF PlanStands, Handed, Job, Ops, CopyOrLink, IsMove, IsAppend
<1>6. /\ To \in Live /\ To \in Chain(cur)
      /\ \A r \in Live : job.to[r] = To => r = cur
  <2>1. To \in Live /\ Breaks(cur)
    BY <1>4, <1>5 DEF PlanStands, HandedMoves, To
  <2>2. QED BY <1>4, <2>1 DEF Breaks, PlanStands, Handed, To
<1>7. /\ To \in Left /\ To \in job.files /\ Done \subseteq Live
      /\ cur \notin Done /\ To \notin Done /\ \A r \in Live : job.to[r] \in Name
      /\ Live \subseteq Sources
  <2>1. Chain(cur) \subseteq Left
    BY <1>1 DEF Left, RunInv, RepPhases, WritingPhases
  <2>2. Done \subseteq Live /\ To \notin Done /\ cur \notin Done
    BY <1>1, <1>6, <2>1, DoneFacts DEF RepPhases, WritingPhases
  <2>3. QED BY <1>6, <2>1, <2>2, PlanFrame DEF Well
<1>8. Aside = {} /\ Busy = {}
  BY <1>1, <1>4 DEF Aside, Turned, Busy
<1>9. fs[To] = <<To>>
  <2>1. To \notin Targets(Done)
    BY <1>6, <1>7 DEF Targets
  <2>2. fs[To] = Original[To]
    BY <1>4, <1>7, <1>8, <2>1 DEF Standing, Was
  <2>3. QED BY <1>4, <1>7, <2>2 DEF Original
<1> DEFINE t == TempName[DirOf[To]][alias']
<1>10. t \in (Name \cap Temps) \ job.files
  BY <1>1, <1>4, AliasIsFree DEF RunInv
<1>11. Done' = Done /\ Busy' = {}
  BY <1>1, <1>2, <1>3 DEF Done, Busy
<1>12. Aside' = {To} /\ Temp(To)' = t
  <2>1. Turned' /\ IsMove'
    BY <1>2, <1>3, <1>4, <1>5 DEF Turned, RepPhases, WritingPhases
  <2>2. Aside' = {To}
    BY <1>3, <1>4, <1>7, <1>11, <2>1 DEF Aside, To
  <2>3. QED BY <1>3, <2>2 DEF Temp
<1>13. /\ fs'[t] = <<To>> /\ fs'[To] = Absent
       /\ \A n \in Name : n # t /\ n # To => fs'[n] = fs[n]
  BY <1>2, <1>4, <1>7, <1>9, <1>10 DEF ExecInv, ExecTypeOK
<1>14. QED
  BY <1>1, <1>2, <1>3, <1>4, <1>5, <1>6, <1>7, <1>8, <1>9, <1>10, <1>11, <1>12, <1>13

\* So the target of a cycle's head is put aside.
LEMMA PutsAside ==
  ASSUME RunInv, ProgressInv, ExecInv, Well, ~IsAppend, IsMove => PlainTargets,
         Standing, MoveAlias, UNCHANGED <<noex, Left>>
  PROVE  Standing'
<1> DEFINE t == Temp(To)'
<1>1. /\ UNCHANGED <<job, repVars, hd, cur, Live, Done, IsMove, To>>
      /\ pc' = "unlink" /\ IsMove /\ To \in Name /\ To \in job.files /\ To \in Live
      /\ To \notin Done /\ \A r \in Live : job.to[r] = To => r = cur
      /\ cur \notin Done /\ Done \subseteq Live /\ Live \subseteq Sources
      /\ \A r \in Live : job.to[r] \in Name
      /\ Aside = {} /\ Busy = {} /\ Aside' = {To} /\ Busy' = {}
      /\ fs[To] = <<To>> /\ fs'[To] = Absent
      /\ t \in (Name \cap Temps) \ job.files /\ fs'[t] = <<To>>
      /\ \A n \in Name : n # t /\ n # To => fs'[n] = fs[n]
  BY AliasMoves
<1>2. (\A r \in Done : fs[job.to[r]] = <<r>>)'
  <2>1. \A r \in Done : job.to[r] # To /\ job.to[r] # t
    BY <1>1 DEF PlainTargets
  <2>2. \A r \in Done : fs'[job.to[r]] = <<r>>
    BY <1>1, <2>1 DEF Standing
  <2>3. QED BY <1>1, <2>2
<1>3. (\A r \in Aside : fs[Temp(r)] = <<r>> /\ Temp(r) \in (Name \cap Temps) \ job.files)'
  <2>1. /\ fs'[Temp(To)'] = <<To>> /\ Temp(To)' \in (Name \cap Temps) \ job.files
    BY <1>1
  <2>2. QED BY <1>1, <2>1 DEF Temps, Temp
<1>4. (\A n \in Name : n \notin Targets(Done) \cup {Temp(r) : r \in Aside} \cup Busy =>
                          fs[n] = Was(n))'
  <2>1. SUFFICES ASSUME NEW n \in Name,
                        (n \notin Targets(Done) \cup {Temp(r) : r \in Aside} \cup Busy)'
                 PROVE  fs'[n] = Was(n)'
    OBVIOUS
  <2>2. n \notin Targets(Done) /\ n # t
    BY <1>1, <2>1 DEF Targets, Temp
  <2>3. Original' = Original
    BY <1>1 DEF Original
  <2>4. CASE n = To
    BY <1>1, <2>4 DEF Was
  <2>5. CASE n # To
    <3>1. fs'[n] = Was(n)
      BY <1>1, <2>2, <2>5 DEF Standing
    <3>2. QED BY <1>1, <2>3, <2>5, <3>1 DEF Was
  <2>6. QED BY <2>4, <2>5
<1>5. QED BY <1>1, <1>2, <1>3, <1>4 DEF Standing

\* The system calls that go well.
LEMMA PlaceCalls ==
  ASSUME RunInv, ProgressInv, ExecInv, Well, ~IsAppend, IsMove => PlainTargets,
         Standing, Call, ~noex'
  PROVE  Standing'
<1>1. /\ UNCHANGED <<job, repVars, hd, cur, noex, Left>> /\ ~Snap
  <2>1. /\ UNCHANGED <<job, repVars, hd, cur>> /\ pc \in WritingPhases
        /\ NoSnap \/ Snap
    BY CallFacts
  <2>2. ~Snap
    BY DEF Snap
  <2>3. Left' = Left
    BY <2>1, LeftStays DEF Call, DoStep, PrintLine, StartDoreps, WritingPhases
  <2>4. QED BY <2>1, <2>2, <2>3 DEF NoSnap
<1>2. CASE MoveAlias
  BY <1>1, <1>2, PutsAside
<1>3. CASE AppendAlias
  BY <1>3 DEF AppendAlias
<1> DEFINE Facts == /\ cur \in Name /\ To \in Name /\ From \in Name /\ From # To
                    /\ fs[From] = <<cur>>
<1>4. pc \in MovePhases => Facts
  BY Ready
<1>5. fs \in [Name -> Content \cup {Absent}]
  BY DEF ExecInv, ExecTypeOK, Content
<1> HIDE DEF Facts
<1>6. CASE UnlinkOld
  <2>1. pc = "unlink" /\ pc' = "transfer" /\ alias' = alias
    BY <1>1, <1>6 DEF UnlinkOld, Goes
  <2>2. /\ \A n \in Name : n # To => fs'[n] = fs[n]
        /\ fs'[To] = IF Overwrites THEN Original[To] ELSE Absent
    <3>1. CASE fdel[cur] # Nil /\ ~Overwrites
      <4>1. fs' = [fs EXCEPT ![To] = Absent]
        BY <1>1, <1>6, <3>1 DEF UnlinkOld
      <4>2. QED BY <1>4, <1>5, <2>1, <3>1, <4>1 DEF Facts, MovePhases
    <3>2. CASE fdel[cur] = Nil \/ Overwrites
      <4>1. fs' = fs
        BY <1>6, <3>2 DEF UnlinkOld
      <4>2. QED BY <2>1, <3>2, <4>1, Vacant
    <3>3. QED BY <3>1, <3>2
  <2>3. QED BY <1>1, <2>1, <2>2, Writes DEF MovePhases
<1>7. CASE Rename
  <2>1. /\ pc = "transfer" /\ pc' = "print" /\ alias' = alias /\ IsMove
        /\ fs' = IF From = To THEN fs
                 ELSE [fs EXCEPT ![To] = fs[From], ![From] = Absent]
    BY <1>1, <1>7 DEF Rename, Goes
  <2>2. /\ fs'[To] = <<cur>> /\ fs'[From] = Absent
        /\ \A n \in Name : n # To /\ n # From => fs'[n] = fs[n]
    BY <1>4, <1>5, <2>1 DEF Facts, MovePhases
  <2>3. QED BY <1>1, <2>1, <2>2, Lands DEF MovePhases
<1>8. CASE Link
  <2>1. /\ pc = "transfer" /\ pc' = "print" /\ alias' = alias
        /\ fs' = [fs EXCEPT ![To] = fs[From]]
    BY <1>1, <1>8 DEF Link, Goes
  <2>2. ~IsMove
    BY <1>8 DEF Link, IsMove, LinkOps, MoveOps
  <2>3. /\ fs'[To] = <<cur>> /\ fs'[From] = fs[From]
        /\ \A n \in Name : n # To /\ n # From => fs'[n] = fs[n]
    BY <1>4, <1>5, <2>1 DEF Facts, MovePhases
  <2>4. QED BY <1>1, <2>1, <2>2, <2>3, Lands DEF MovePhases
<1>9. CASE CopyOpen
  <2>1. /\ pc = "transfer" /\ pc' = "copying" /\ alias' = alias
        /\ fs' = [fs EXCEPT ![To] = Opened(@)]
    BY <1>1, <1>9 DEF CopyOpen, Goes
  <2>2. /\ fs'[To] = << >> /\ \A n \in Name : n # To => fs'[n] = fs[n]
    BY <1>4, <1>5, <2>1 DEF Facts, MovePhases, Opened
  <2>3. QED BY <1>1, <2>1, <2>2, Writes DEF MovePhases
<1>10. CASE CopyData
  <2>1. /\ pc = "copying" /\ alias' = alias
        /\ pc' = IF IsMove THEN "unlinksrc" ELSE "print"
        /\ fs' = [fs EXCEPT ![To] = @ \o Transferred]
    BY <1>1, <1>10 DEF CopyData, Goes
  <2>2. Transferred = <<cur>>
    <3>1. fs[From] = <<cur>>
      BY <1>4, <2>1 DEF Facts, MovePhases
    <3>2. IsMove \/ cur \notin aliased
      <4>1. IsMove \/ CopyOrLink
        BY PlanFrame DEF Well, Handed, Job, Ops, CopyOrLink, IsMove, IsAppend
      <4>2. QED BY <2>1, <4>1, FromIs DEF MovePhases
    <3>3. QED BY <3>1, <3>2 DEF Transferred
  <2>3. /\ fs'[To] = <<cur>> /\ \A n \in Name : n # To => fs'[n] = fs[n]
    <3>1. fs[To] = << >> /\ cur \in Name /\ To \in Name
      BY <1>4, <2>1 DEF Standing, Facts, MovePhases
    <3>2. << >> \o <<cur>> = <<cur>>
      BY <3>1
    <3>3. QED BY <1>5, <2>1, <2>2, <3>1, <3>2
  <2>4. CASE IsMove
    BY <1>1, <2>1, <2>3, <2>4, Writes DEF MovePhases
  <2>5. CASE ~IsMove
    <3>1. fs'[From] = fs[From]
      BY <1>4, <2>1, <2>3 DEF Facts, MovePhases
    <3>2. QED BY <1>1, <2>1, <2>3, <2>5, <3>1, Lands DEF MovePhases
  <2>6. QED BY <2>4, <2>5
<1>11. CASE UnlinkSource
  <2>1. /\ pc = "unlinksrc" /\ pc' = "print" /\ alias' = alias
        /\ fs' = [fs EXCEPT ![From] = Absent]
    BY <1>1, <1>11 DEF UnlinkSource, Goes, SourceGone
  <2>2. fs[To] = <<cur>>
    BY <2>1 DEF Standing
  <2>3. IsMove
    BY <2>1 DEF Standing
  <2>4. /\ fs'[To] = <<cur>> /\ fs'[From] = Absent
        /\ \A n \in Name : n # To /\ n # From => fs'[n] = fs[n]
    BY <1>4, <1>5, <2>1, <2>2 DEF Facts, MovePhases
  <2>5. QED BY <1>1, <2>1, <2>3, <2>4, Lands DEF MovePhases
<1>12. QED
  BY <1>2, <1>3, <1>6, <1>7, <1>8, <1>9, <1>10, <1>11 DEF Call

\* The steps between the system calls.
LEMMA PlaceRest ==
  ASSUME RunInv, ProgressInv, ExecInv, Well, ~IsAppend, Standing, ~noex',
         NextChain \/ StartRep \/ ChainsEnd \/ Sigint \/ PrintLine
  PROVE  Standing'
<1>1. /\ UNCHANGED <<job, repVars, fs, alias>>
  BY DEF NextChain, StartRep, ChainsEnd, Sigint, PrintLine, calm, doVars
<1>2. /\ UNCHANGED <<job, list, cycle, Live, IsMove, Original>>
      /\ \A r : Temp(r)' = Temp(r)
  BY <1>1, SamePlan DEF repVars, Temp, Original
<1>3. ~noex /\ handler # "breakout"
  BY DEF Well
<1>4. ASSUME Done' = Done, Aside' = Aside, Busy' = Busy, Busy = {},
             pc' \notin {"transfer", "copying", "unlinksrc"}
      PROVE  Standing'
  <2>1. /\ Targets(Done)' = Targets(Done) /\ \A n : Was(n)' = Was(n)
        /\ {Temp(r) : r \in Aside}' = {Temp(r) : r \in Aside}
    BY <1>1, <1>2, <1>4 DEF Targets, Was
  <2>2. QED BY <1>1, <1>2, <1>4, <2>1 DEF Standing, Temps
<1>5. CASE NextChain
  <2>1. pc = "chain" /\ pc' = "rep" /\ cur' = list[hd] /\ hd' = hd
    BY <1>5 DEF NextChain, Goes
  <2>2. Left' = Left
    BY <1>5, <2>1, LeftStays DEF DoStep, PrintLine, StartDoreps
  <2>3. Done' = Done /\ Aside' = Aside
    BY <1>2, <2>1, <2>2 DEF Done, Aside, Turned, RepPhases, WritingPhases
  <2>4. QED BY <1>4, <2>1, <2>3 DEF Busy
<1>6. CASE StartRep
  <2>1. /\ pc = "rep" /\ UNCHANGED <<cur, hd, noex>>
        /\ pc' = IF cur \in cycle THEN "alias" ELSE "unlink"
    BY <1>3, <1>6 DEF StartRep, Goes, NeedsAlias, doVars
  <2>2. Left' = Left
    BY <1>6, <2>1, LeftStays DEF DoStep, PrintLine, StartDoreps
  <2>3. cur \in cycle => cur = list[hd]
    BY <2>1, CycleAtHead DEF RunInv, RepPhases
  <2>4. Done' = Done
    BY <1>2, <2>1, <2>2 DEF Done
  <2>5. Turned' <=> Turned
    BY <1>2, <2>1, <2>3 DEF Turned, RepPhases, WritingPhases
  <2>6. Aside' = Aside
    BY <1>2, <2>1, <2>4, <2>5 DEF Aside
  <2>7. QED BY <1>4, <2>1, <2>4, <2>6 DEF Busy
<1>7. CASE ChainsEnd
  <2>1. pc = "chain" /\ pc' = "exit" /\ UNCHANGED <<cur, hd, noex>>
    BY <1>7 DEF ChainsEnd, doVars
  <2>2. Left' = Left
    BY <1>7, <2>1, LeftStays DEF DoStep, PrintLine, StartDoreps
  <2>3. Done' = Done /\ Aside' = Aside
    BY <1>2, <2>1, <2>2 DEF Done, Aside, Turned, RepPhases, WritingPhases
  <2>4. QED BY <1>4, <2>1, <2>3 DEF Busy
<1>8. CASE Sigint
  <2>1. handler = "breakrep"
    BY <1>3 DEF ProgressInv
  <2>2. UNCHANGED <<pc, cur, hd, noex>>
    BY <1>8, <2>1 DEF Sigint
  <2>3. Left' = Left
    BY <1>1, <1>2, <2>2, SamePlan DEF Left
  <2>4. /\ Done' = Done /\ (Turned' <=> Turned) /\ To' = To
    BY <1>2, <2>2, <2>3 DEF Done, Turned, To
  <2>5. Aside' = Aside /\ Busy' = Busy
    BY <1>2, <2>2, <2>4 DEF Aside, Busy
  <2>6. /\ Targets(Done)' = Targets(Done) /\ \A n : Was(n)' = Was(n)
        /\ {Temp(r) : r \in Aside}' = {Temp(r) : r \in Aside}
        /\ Overwrites' = Overwrites
    BY <1>1, <1>2, <2>4, <2>5 DEF Targets, Was, Overwrites
  <2>7. QED BY <1>1, <1>2, <2>2, <2>4, <2>5, <2>6 DEF Standing, Temps
<1>9. CASE PrintLine
  <2>1. /\ pc = "print" /\ pc' \in {"rep", "chain"} /\ noex' = noex
        /\ IF thendo[cur] # Nil THEN cur' = thendo[cur] /\ hd' = hd /\ pc' = "rep"
           ELSE cur' = Nil /\ hd' = hd + 1 /\ pc' = "chain"
    BY <1>9 DEF PrintLine, ChainGoesOn, Goes
  <2>2. Left' = Left \ {cur} /\ cur \in Live /\ Left \subseteq Live
    <3>1. cur # Nil
      BY <2>1 DEF RunInv, RepPhases
    <3>2. QED BY <1>3, <1>9, <3>1, PrintLeaves, LeftLive
  <2>3. Done' = Done
    BY <1>2, <1>3, <2>1, <2>2 DEF Done
  <2>4. /\ PlanStands /\ list[hd] \in Heads /\ list[hd] \in Live /\ cur \in Chain(list[hd])
        /\ pc \in RepPhases
    BY <2>1, RepNames DEF RepPhases
  <2>5. Aside' = Aside
    <3>1. CASE thendo[cur] # Nil
      <4>1. cur' # list[hd]
        BY <2>1, <2>2, <2>4, <3>1 DEF PlanStands, Handed
      <4>2. Turned' <=> Turned
        BY <1>2, <2>1, <2>4, <3>1, <4>1 DEF Turned, RepPhases
      <4>3. QED BY <1>2, <2>1, <2>3, <3>1, <4>2 DEF Aside
    <3>2. CASE thendo[cur] = Nil
      <4>1. ~Turned'
        BY <2>1, <3>2 DEF Turned, RepPhases, WritingPhases
      <4>2. ASSUME NEW r \in Aside PROVE FALSE
        <5>1. /\ r \in Chain(list[hd]) /\ r \in Live /\ r \notin Done /\ thendo[r] = Nil
          BY AsideFacts
        <5>2. r \in Left /\ r # cur
          BY <1>3, <2>1, <5>1, DoneFacts DEF RepPhases
        <5>3. r \notin Chain(cur)
          <6>1. Closed({cur})
            BY <3>2 DEF Closed
          <6>2. cur \in Sources
            BY <1>3, <2>2, PlanFrame
          <6>3. Chain(cur) \subseteq {cur}
            BY <6>1, <6>2, ChainLeast
          <6>4. QED BY <5>2, <6>3
        <5>4. PICK h \in Heads : r \in Chain(h) /\ (cur # Nil => cur \notin Chain(h))
          BY <1>3, <5>2, <5>3, LeftIn
        <5>5. h = list[hd]
          BY <2>4, <5>1, <5>4, ChainsApart DEF PlanStands
        <5>6. cur # Nil
          BY <2>1 DEF RunInv, RepPhases
        <5>7. QED BY <2>4, <5>4, <5>5, <5>6
      <4>3. QED BY <4>1, <4>2 DEF Aside
    <3>3. QED BY <3>1, <3>2
  <2>6. QED BY <1>4, <2>1, <2>3, <2>5 DEF Busy
<1>10. QED BY <1>5, <1>6, <1>7, <1>8, <1>9

\* While noex is not set a step of doreps comes from a state as good, or is the
\* first one.
LEMMA WellBefore ==
  ASSUME RunInv, ProgressInv, DoStep \/ Sigint, Well'
  PROVE  /\ UNCHANGED <<job, repVars, noex>> /\ ~noex
         /\ \/ StartDoreps
            \/ Well /\ (\/ NextChain \/ StartRep \/ ChainsEnd \/ Sigint \/ PrintLine \/ Call)
<1>1. UNCHANGED <<job, repVars>> /\ ~noex'
  BY DoingSamePlan DEF Well
<1>2. CASE StartDoreps
  BY <1>1, <1>2 DEF StartDoreps
<1>3. CASE UserBreak
  BY <1>1, <1>3 DEF UserBreak, Snap
<1>4. CASE BreakPrinting
  BY <1>1, <1>4 DEF BreakPrinting, BreaksWhilePrinting, doVars
<1>5. CASE NextChain \/ StartRep \/ ChainsEnd \/ Sigint \/ PrintLine
  <2>1. UNCHANGED <<noex, handler>>
    BY <1>5 DEF NextChain, StartRep, ChainsEnd, Sigint, PrintLine, doVars
  <2>2. QED BY <1>1, <1>5, <2>1 DEF Well
<1>6. CASE Call
  <2>1. NoSnap /\ pc \in WritingPhases
    BY <1>1, <1>6, CallFacts DEF Snap
  <2>2. UNCHANGED <<noex, handler>>
    BY <2>1 DEF NoSnap
  <2>3. QED BY <1>1, <1>6, <2>2 DEF Well
<1>7. QED BY <1>2, <1>3, <1>4, <1>5, <1>6 DEF DoStep, Call

\* When doreps starts nothing is done.
LEMMA NothingDone ==
  ASSUME RunInv, StartDoreps
  PROVE  /\ Done' = {} /\ Turned' = FALSE /\ Busy' = {} /\ pc' = "chain"
         /\ fs' = Original /\ UNCHANGED <<job, repVars, Live, fs, lines>> /\ fs = Original
         /\ lines = {} /\ handler' = "breakrep"
<1>1. /\ pc = "doreps" /\ pc' = "chain" /\ fs' = fs /\ hd' = 1 /\ cur' = cur
      /\ UNCHANGED <<job, repVars, lines>> /\ handler' = "breakrep"
  BY DEF StartDoreps, Goes, calm
<1>2. PlanStands /\ cur = Nil /\ fs = Original /\ lines = {}
  BY <1>1, PlanHands DEF RunInv, PlanStands, DoInit
<1>3. PlanStands' /\ Live' = Live
  BY <1>1, <1>2, SamePlan
<1>4. Left' = Live'
  <2>1. (Handed /\ cur = Nil /\ hd = 1)'
    BY <1>1, <1>2, <1>3 DEF PlanStands
  <2>2. (Handed /\ cur = Nil /\ hd = 1 => Left = Live)'
    BY LeftAll, PTL
  <2>3. QED BY <2>1, <2>2
<1>5. Done' = {}
  BY <1>1, <1>4 DEF Done
<1>6. Turned' = FALSE /\ Busy' = {}
  BY <1>1 DEF Turned, Busy, RepPhases, WritingPhases
<1>7. QED BY <1>1, <1>2, <1>3, <1>5, <1>6

\* Nothing has been moved.
LEMMA PlaceInit == Init => PlaceInv
BY DEF Init, DoInit, PlaceInv, Well

\* Every step brings the files where the phase it leads to wants them.
LEMMA PlaceStep ==
  RunInv /\ ProgressInv /\ ExecInv /\ PlaceInv /\ [Next]_allVars => PlaceInv'
<1> SUFFICES ASSUME RunInv, ProgressInv, ExecInv, PlaceInv, [Next]_allVars,
                    Well', ~IsAppend', (IsMove => PlainTargets)'
             PROVE  Standing'
  BY DEF PlaceInv
<1>1. CASE Planning \/ Interrupt
  <2>1. pc \in PlanPhases /\ UNCHANGED doVars
    BY <1>1, InPlanning DEF Planning, Interrupt
  <2>2. handler' = "breakout"
    BY <2>1 DEF RunInv, DoInit, doVars
  <2>3. QED BY <2>2 DEF Well
<1>2. CASE Doing \/ Signal
  <2>1. /\ UNCHANGED <<job, repVars, noex>> /\ ~noex
        /\ \/ StartDoreps
           \/ Well /\ (\/ NextChain \/ StartRep \/ ChainsEnd \/ Sigint \/ PrintLine \/ Call)
    BY <1>2, WellBefore DEF Doing, Signal
  <2>2. /\ ~IsAppend /\ (IsMove => PlainTargets)
        /\ IsMove' = IsMove
    BY <2>1 DEF IsAppend, IsMove, PlainTargets, Sources
  <2>3. CASE StartDoreps
    <3>1. /\ Done' = {} /\ ~Turned' /\ Busy' = {} /\ pc' = "chain"
          /\ fs' = Original /\ job' = job
      BY <2>3, NothingDone
    <3>2. Aside' = {} /\ Original' = Original
      BY <3>1 DEF Aside, Original
    <3>3. QED BY <3>1, <3>2 DEF Standing, Was
  <2>4. CASE Well /\ (NextChain \/ StartRep \/ ChainsEnd \/ Sigint \/ PrintLine)
    BY <2>1, <2>2, <2>4, PlaceRest DEF PlaceInv
  <2>5. CASE Well /\ Call
    BY <2>1, <2>2, <2>5, PlaceCalls DEF PlaceInv
  <2>6. QED BY <2>1, <2>3, <2>4, <2>5
<1>3. CASE UNCHANGED allVars
  <2>1. UNCHANGED <<job, repVars, pc, doVars>>
    BY <1>3 DEF allVars, vars
  <2>2. /\ UNCHANGED <<job, list, cycle, pc, fs, hd, cur, alias, noex, handler,
                       Live, IsMove, IsAppend, Original>>
        /\ \A h : Chain(h)' = Chain(h)
    BY <2>1, SamePlan DEF repVars, doVars, Original
  <2>3. Left' = Left /\ Busy' = Busy
    BY <2>2 DEF Left, Busy, To
  <2>4. Done' = Done /\ (Turned' <=> Turned)
    BY <2>2, <2>3 DEF Done, Turned
  <2>5. Aside' = Aside
    BY <2>2, <2>4 DEF Aside
  <2>6. /\ Targets(Done)' = Targets(Done) /\ \A n : Was(n)' = Was(n)
        /\ {Temp(r) : r \in Aside}' = {Temp(r) : r \in Aside}
        /\ \A r : Temp(r)' = Temp(r)
        /\ Overwrites' = Overwrites /\ To' = To
    BY <2>2, <2>4, <2>5 DEF Targets, Was, Overwrites, Temp, To
  <2>7. Standing
    BY <2>2 DEF PlaceInv, Well, PlainTargets, Sources
  <2>8. (\A r \in Done : fs[job.to[r]] = <<r>>)'
    BY <2>2, <2>4, <2>7 DEF Standing
  <2>9. (\A r \in Aside : fs[Temp(r)] = <<r>> /\ Temp(r) \in (Name \cap Temps) \ job.files)'
    BY <2>2, <2>5, <2>6, <2>7 DEF Standing, Temps
  <2>10. (\A n \in Name : n \notin Targets(Done) \cup {Temp(r) : r \in Aside} \cup Busy =>
                             fs[n] = Was(n))'
    BY <2>2, <2>3, <2>6, <2>7 DEF Standing
  <2>11. QED BY <2>2, <2>6, <2>7, <2>8, <2>9, <2>10 DEF Standing
<1>4. QED BY <1>1, <1>2, <1>3 DEF Next
-----------------------------------------------------------------------------
(***************************************************************************)
(* What every file holds, exactly, while appends go well.                  *)
(***************************************************************************)
\* One more element at the end of an arrangement of a set.
LEMMA OneMore ==
  ASSUME NEW S, IsFiniteSet(S), NEW c, c \notin S, NEW s \in SetToSeqs(S)
  PROVE  s \o <<c>> \in SetToSeqs(S \cup {c}) /\ s \in Seq(S)
<1> DEFINE N == Cardinality(S)
           T == S \cup {c}
<1>1. N \in Nat /\ Cardinality(T) = N + 1
  BY FS_CardinalityType, FS_AddElement
<1>2. s \in [1..N -> S] /\ \A x, y \in 1..N : x # y => s[x] # s[y]
  BY DEF SetToSeqs
<1>3. s \in Seq(S) /\ Len(s) = N
  BY <1>1, <1>2, LenProperties
<1> HIDE DEF N
<1>4. s \in Seq(T) /\ <<c>> \in Seq(T) /\ Len(<<c>>) = 1 /\ <<c>>[1] = c
  BY <1>3
<1>5. /\ s \o <<c>> \in Seq(T) /\ Len(s \o <<c>>) = N + 1
      /\ \A x \in 1..(N + 1) : (s \o <<c>>)[x] = IF x <= N THEN s[x] ELSE c
  BY <1>1, <1>3, <1>4, ConcatProperties
<1> DEFINE q == s \o <<c>>
<1> HIDE DEF q
<1>6. q \in [1..(N + 1) -> T]
  BY <1>1, <1>5, LenProperties DEF q
<1>7. \A x, y \in 1..(N + 1) : x # y => q[x] # q[y]
  BY <1>1, <1>2, <1>5 DEF q
<1>8. QED BY <1>1, <1>3, <1>6, <1>7 DEF SetToSeqs, q

\* The empty set has one arrangement.
LEMMA NoneAtAll ==
  /\ << >> \in SetToSeqs({})
  /\ \A s \in SetToSeqs({}) : s = << >>
<1>1. Cardinality({}) = 0 /\ 1..0 = {}
  BY FS_EmptySet
<1>2. ASSUME NEW s \in [{} -> {}] PROVE s = << >>
  OBVIOUS
<1>3. << >> \in [{} -> {}]
  OBVIOUS
<1>4. QED BY <1>1, <1>2, <1>3 DEF SetToSeqs

\* In an arrangement of a set all of it is found.
LEMMA ArrangedAll ==
  ASSUME NEW S, IsFiniteSet(S), NEW s \in SetToSeqs(S), NEW r \in S
  PROVE  \E x \in 1..Cardinality(S) : s[x] = r
<1> DEFINE N == Cardinality(S)
<1>1. N \in Nat /\ IsFiniteSet(1..N) /\ Cardinality(1..N) = N
  BY FS_CardinalityType, FS_Interval
<1>2. s \in Injection(1..N, S)
  BY DEF SetToSeqs, Injection, IsInjective
<1>3. s \in Surjection(1..N, S)
  BY <1>1, <1>2, FS_Injection
<1>4. QED BY <1>3 DEF Surjection

\* What has come to a name, and what it held before.
Comes(n) == {r \in Done : job.to[r] = n}
Base(n)  == IF Original[n] = Absent THEN << >> ELSE <<n>>

\* The name has been opened for the rep at hand.
Open(n) == pc = "copying" /\ n = To

\* To what a name held, all that has come to it has been added, each file as
\* long as it was at the start; a file that grows before it is appended
\* elsewhere is at the head of a cycle, where appendalias has noted its length.
Appended ==
    /\ \A n \in Name : \E s \in SetToSeqs(Comes(n)) :
         fs[n] = IF Original[n] = Absent /\ Comes(n) = {} /\ ~Open(n)
                 THEN Absent ELSE Base(n) \o s
    /\ Turned /\ job.to[list[hd]] \in Live => aliaslen = 1
    /\ pc # "unlinksrc"

AppendInv == Well /\ IsAppend => Appended

\* What has come to a name is part of the plan, and finite.
LEMMA ComesFacts ==
  ASSUME RunInv, ProgressInv, Well, NEW n
  PROVE  /\ Comes(n) \subseteq Live /\ Comes(n) \subseteq Name /\ IsFiniteSet(Comes(n))
         /\ \A s \in SetToSeqs(Comes(n)) : s \in Seq(Name)
         /\ \A s \in SetToSeqs(Comes(n)) : \A c :
              c \notin Comes(n) => s \o <<c>> \in SetToSeqs(Comes(n) \cup {c})
<1>1. /\ Done \subseteq Live /\ IsFiniteSet(Live) /\ Live \subseteq Name
  BY DoneFacts, PlanFrame, LeftLive DEF Well
<1>2. Comes(n) \subseteq Live /\ Comes(n) \subseteq Name
  BY <1>1 DEF Comes
<1>3. IsFiniteSet(Comes(n))
  BY <1>1, <1>2, FS_Subset
<1>4. ASSUME NEW s \in SetToSeqs(Comes(n)) PROVE s \in Seq(Name)
  <2>1. Cardinality(Comes(n)) \in Nat
    BY <1>3, FS_CardinalityType
  <2>2. s \in [1..Cardinality(Comes(n)) -> Name]
    BY <1>2 DEF SetToSeqs
  <2>3. QED BY <2>1, <2>2
<1>5. QED BY <1>2, <1>3, <1>4, OneMore

\* An append reads from the source itself; if that may have grown, it is the
\* target of the cycle at hand.
LEMMA AppendFrom ==
  ASSUME RunInv, ProgressInv, Well, IsAppend, pc \in MovePhases
  PROVE  /\ From = cur /\ cur \in Live /\ cur \in Name /\ cur \in job.files
         /\ To \in Name /\ cur \notin Done
         /\ cur \in aliased => Turned /\ job.to[list[hd]] = cur
         /\ cur \notin aliased => Comes(cur) = {} /\ To # cur
<1>1. /\ PlanStands /\ hd \in 1..Len(list) /\ cur \in Chain(list[hd]) /\ cur # Nil
      /\ pc \in RepPhases /\ pc \notin {"rep", "alias", "print"}
  BY PlanFrame DEF Well, RunInv, RepPhases, WritingPhases, MovePhases
<1>2. /\ cur \notin Done /\ cur \in Live /\ list[hd] \in Heads
      /\ cur \in Name /\ cur \in job.files /\ To \in Name
  BY <1>1, DoneFacts, AtRep DEF To
<1>3. From = cur
  BY DEF From, UsesAlias
<1>4. ASSUME cur \in aliased PROVE Turned /\ job.to[list[hd]] = cur
  <2>1. PICK h \in cycle \cap Heads : job.to[h] = cur /\ cur \in Chain(h)
    BY <1>1, <1>2, <1>4 DEF PlanStands, HandedAppends
  <2>2. h = list[hd]
    BY <1>1, <1>2, <2>1, ChainsApart DEF PlanStands
  <2>3. QED BY <1>1, <2>1, <2>2 DEF Turned
<1>5. ASSUME cur \notin aliased PROVE Comes(cur) = {} /\ To # cur
  <2>1. ASSUME NEW r \in Live, job.to[r] = cur PROVE r # cur /\ r \in Chain(cur)
    <3>1. Behind(r) \/ Breaks(r)
      BY <1>1, <1>2, <2>1 DEF PlanStands, HandedAppends
    <3>2. QED BY <1>5, <2>1, <3>1 DEF Behind, Breaks
  <2>2. ASSUME NEW r \in Done, job.to[r] = cur PROVE FALSE
    <3>1. r \in Live /\ r \notin Left
      BY <1>1, <2>2, DoneFacts
    <3>2. Chain(cur) \subseteq Left
      BY <1>1 DEF Left
    <3>3. QED BY <2>1, <2>2, <3>1, <3>2
  <2>3. To # cur
    BY <1>2, <2>1 DEF To
  <2>4. QED BY <2>2, <2>3 DEF Comes
<1>6. QED BY <1>2, <1>3, <1>4, <1>5

\* What a source or an opened target holds.
LEMMA HeldBy ==
  ASSUME RunInv, ProgressInv, ExecInv, Well, IsAppend, Appended,
         NEW n \in Name, n \in job.files \/ Comes(n) # {} \/ Open(n) \/ fs[n] # Absent
  PROVE  /\ \E s \in SetToSeqs(Comes(n)) : s \in Seq(Name) /\ fs[n] = Base(n) \o s
         /\ Base(n) \in Seq(Name) /\ fs[n] \in Seq(Name) /\ fs[n] # Absent
         /\ n \in job.files => Base(n) = <<n>>
<1>1. Absent \notin Seq(Name) /\ \A x \in Name : <<x>> # Absent
  <2>1. \A x \in Name : <<x>> \in Seq(Name)
    OBVIOUS
  <2>2. QED BY <2>1, NilAssumption DEF Absent
<1>2. Base(n) \in Seq(Name)
  BY DEF Base
<1>3. n \in job.files => Original[n] = <<n>> /\ Original[n] # Absent
  BY <1>1 DEF Original
<1>4. \E s \in SetToSeqs(Comes(n)) : s \in Seq(Name) /\ fs[n] = Base(n) \o s
  BY <1>3, ComesFacts DEF Appended
<1>5. fs[n] \in Seq(Name)
  BY <1>2, <1>4, ConcatProperties
<1>6. QED BY <1>1, <1>2, <1>3, <1>4, <1>5 DEF Base

\* One file is appended, the rep's own, as long as it was.
LEMMA AppendsOne ==
  ASSUME RunInv, ProgressInv, ExecInv, Well, IsAppend, Appended, pc = "copying"
  PROVE  Transferred = <<cur>>
<1>1. /\ From = cur /\ cur \in Live /\ cur \in Name /\ cur \in job.files
      /\ cur \in aliased => Turned /\ job.to[list[hd]] = cur
      /\ cur \notin aliased => Comes(cur) = {}
  BY AppendFrom DEF MovePhases
<1>2. PICK s \in SetToSeqs(Comes(cur)) : s \in Seq(Name) /\ fs[cur] = <<cur>> \o s
  BY <1>1, HeldBy
<1>3. /\ fs[cur] \in Seq(Name) /\ Len(fs[cur]) = Len(s) + 1 /\ Len(s) \in Nat
      /\ fs[cur][1] = cur
  BY <1>1, <1>2, ConsFacts, LenProperties
<1>4. CASE cur \notin aliased
  <2>1. s = << >>
    BY <1>1, <1>4, NoneAtAll
  <2>2. fs[cur] = <<cur>>
    BY <1>1, <1>2, <2>1
  <2>3. QED BY <1>1, <1>4, <2>2 DEF Transferred
<1>5. CASE cur \in aliased
  <2>1. aliaslen = 1
    BY <1>1, <1>5 DEF Appended
  <2>2. Transferred = SubSeq(fs[cur], 1, 1)
    <3>1. (IF aliaslen < Len(fs[From]) THEN aliaslen ELSE Len(fs[From])) = 1
      BY <1>1, <1>3, <2>1
    <3>2. ~IsMove /\ aliaslen # SizeUnlimited
      BY <2>1 DEF IsMove, IsAppend, MoveOps, AppendOps, SizeUnlimited
    <3>3. Transferred = SubSeq(fs[From], 1, 1)
      BY <1>5, <3>1, <3>2, Zenon DEF Transferred
    <3>4. QED BY <1>1, <3>3
  <2>3. /\ SubSeq(fs[cur], 1, 1) \in Seq(Name) /\ Len(SubSeq(fs[cur], 1, 1)) = 1
        /\ SubSeq(fs[cur], 1, 1)[1] = fs[cur][1]
    <3>1. \A x \in 1..1 : fs[cur][x] \in Name
      BY <1>1, <1>3
    <3>2. QED BY <3>1, SubSeqProperties
  <2>4. Transferred \in Seq(Name) /\ Len(Transferred) = 1 /\ Transferred[1] = cur
    BY <1>3, <2>2, <2>3
  <2>5. <<cur>> \in Seq(Name) /\ Len(<<cur>>) = 1 /\ <<cur>>[1] = cur
    BY <1>1
  <2>6. QED BY <2>4, <2>5, SeqEqual
<1>6. QED BY <1>4, <1>5

\* A step that leaves the directories alone.
LEMMA AppendQuiet ==
  ASSUME Appended, UNCHANGED <<job, fs, Done>>, pc' \notin {"copying", "unlinksrc"},
         pc # "copying",
         Turned' /\ (job.to[list[hd]] \in Live)' => aliaslen' = 1
  PROVE  Appended'
<1>1. /\ Original' = Original
      /\ \A n : Comes(n)' = Comes(n) /\ Base(n)' = Base(n)
      /\ \A n : Open(n)' = Open(n)
  BY DEF Original, Comes, Base, Open
<1>2. (\A n \in Name : \E s \in SetToSeqs(Comes(n)) :
         fs[n] = IF Original[n] = Absent /\ Comes(n) = {} /\ ~Open(n)
                 THEN Absent ELSE Base(n) \o s)'
  BY <1>1 DEF Appended
<1>3. QED BY <1>2 DEF Appended

\* The system calls that go well.
LEMMA AppendCalls ==
  ASSUME RunInv, ProgressInv, ExecInv, Well, IsAppend, Appended, Call, ~noex'
  PROVE  Appended'
<1>1. /\ UNCHANGED <<job, repVars, hd, cur, noex, Left>> /\ ~Snap
  <2>1. /\ UNCHANGED <<job, repVars, hd, cur>> /\ pc \in WritingPhases
        /\ NoSnap \/ Snap
    BY CallFacts
  <2>2. ~Snap
    BY DEF Snap
  <2>3. Left' = Left
    BY <2>1, LeftStays DEF Call, DoStep, PrintLine, StartDoreps, WritingPhases
  <2>4. QED BY <2>1, <2>2, <2>3 DEF NoSnap
<1>2. /\ UNCHANGED <<job, list, cycle, hd, cur, noex, Left, Live, IsMove, Original>>
      /\ To' = To
  BY <1>1, SamePlan DEF repVars, To, Original
<1>3. ~IsMove /\ Overwrites /\ job.op \notin LinkOps
  BY DEF IsMove, IsAppend, MoveOps, AppendOps, Overwrites, LinkOps
<1>4. pc \in MovePhases /\ pc' \in MovePhases => Done' = Done /\ (Turned' <=> Turned)
  BY <1>2 DEF Done, Turned, MovePhases, RepPhases, WritingPhases
<1>5. CASE MoveAlias \/ Rename \/ Link
  BY <1>3, <1>5 DEF MoveAlias, Rename, Link
<1>6. CASE UnlinkSource
  BY <1>6 DEF UnlinkSource, Appended
<1>7. CASE UnlinkOld
  <2>1. pc = "unlink" /\ pc' = "transfer" /\ fs' = fs /\ aliaslen' = aliaslen
    BY <1>1, <1>3, <1>7 DEF UnlinkOld, Goes
  <2>2. Done' = Done /\ (Turned' <=> Turned)
    BY <1>4, <2>1 DEF MovePhases
  <2>3. Turned' /\ (job.to[list[hd]] \in Live)' => aliaslen' = 1
    BY <1>2, <2>1, <2>2 DEF Appended
  <2>4. QED BY <1>2, <2>1, <2>2, <2>3, AppendQuiet
<1>8. CASE AppendAlias
  <2>1. /\ pc = "alias" /\ pc' = "unlink" /\ fs' = fs /\ fs[To] # Absent
        /\ aliaslen' = Len(fs[To])
    BY <1>1, <1>8 DEF AppendAlias, Goes
  <2>2. /\ PlanStands /\ cur = list[hd] /\ cur \in cycle /\ cur \in Live /\ cur \in Heads
        /\ To \in Name /\ Live \subseteq job.files /\ cur \in Sources
    BY <2>1, RepNames, CycleAtHead, PlanFrame DEF RunInv, RepPhases, WritingPhases
  <2>3. Done' = Done
    BY <1>2, <2>1 DEF Done
  <2>4. ASSUME To \in Live PROVE aliaslen' = 1
    <3>1. Breaks(cur)
      <4>1. ASSUME Behind(cur) PROVE FALSE
        <5>1. To \in Sources /\ cur \in Chain(To) /\ cur # To
          BY <2>2, <2>4, <4>1, PlanFrame DEF Behind, To, Well
        <5>2. PICK y \in Chain(To) : thendo[y] = cur
          BY <2>2, <5>1, ChainPred, PlanFrame DEF Well
        <5>3. y \in Live
          <6>1. Chain(To) \subseteq Live
            <7>1. Live \in SUBSET Sources /\ Closed(Live)
              BY PlanFrame DEF Well, Closed
            <7>2. QED BY <2>4, <5>1, <7>1, ChainLeast
          <6>2. QED BY <5>2, <6>1
        <5>4. QED BY <2>2, <5>2, <5>3 DEF PlanStands, Handed
      <4>2. QED BY <2>2, <2>4, <4>1 DEF PlanStands, HandedAppends, To
    <3>2. Chain(To) \subseteq Left /\ cur \notin Done
      <4>1. Chain(cur) \subseteq Left /\ cur # Nil
        BY <2>1 DEF Left, RunInv, RepPhases, WritingPhases
      <4>2. Chain(To) \subseteq Chain(cur)
        BY <2>2, <3>1, ChainWithin, PlanFrame DEF Breaks, To, Well
      <4>3. QED BY <2>1, <4>1, <4>2, DoneFacts DEF RepPhases, WritingPhases
    <3>3. ASSUME NEW r \in Done, job.to[r] = To PROVE FALSE
      <4>1. r \in Live /\ r \notin Left
        BY <2>1, <3>3, DoneFacts
      <4>2. Behind(r) \/ Breaks(r)
        BY <2>2, <2>4, <3>3, <4>1 DEF PlanStands, HandedAppends
      <4>3. ~Behind(r)
        BY <3>2, <3>3, <4>1 DEF Behind
      <4>4. r \in Heads /\ To \in Chain(r)
        BY <3>3, <4>2, <4>3 DEF Breaks
      <4>5. To \in Chain(cur)
        BY <3>1 DEF Breaks, To
      <4>6. r = cur
        BY <2>2, <4>4, <4>5, ChainsApart DEF PlanStands
      <4>7. QED BY <3>2, <3>3, <4>6
    <3>4. Comes(To) = {}
      BY <3>3 DEF Comes
    <3>5. PICK s \in SetToSeqs(Comes(To)) : s \in Seq(Name) /\ fs[To] = Base(To) \o s
      BY <2>1, <2>2, HeldBy
    <3>6. s = << >> /\ Base(To) = <<To>>
      BY <2>1, <2>2, <2>4, <3>4, <3>5, HeldBy, NoneAtAll
    <3>7. fs[To] = <<To>>
      BY <2>2, <3>5, <3>6
    <3>8. QED BY <2>1, <3>7
  <2>5. Turned' /\ (job.to[list[hd]] \in Live)' => aliaslen' = 1
    BY <1>2, <2>2, <2>4 DEF To
  <2>6. QED BY <1>2, <2>1, <2>3, <2>5, AppendQuiet
<1>9. fs \in [Name -> Content \cup {Absent}]
  BY DEF ExecInv, ExecTypeOK, Content
<1>10. /\ \A n : Base(n)' = Base(n)
       /\ Base(To) \in Seq(Name)
  <2>1. \A n \in Name : Base(n) \in Seq(Name)
    BY DEF Base
  <2>2. pc \in WritingPhases
    BY CallFacts
  <2>3. To \in Name
    BY <2>2, RepNames DEF RepPhases
  <2>4. QED BY <1>2, <2>1, <2>3 DEF Base
<1>11. CASE CopyOpen
  <2>1. /\ pc = "transfer" /\ pc' = "copying" /\ aliaslen' = aliaslen
        /\ fs' = [fs EXCEPT ![To] = Opened(@)]
    BY <1>1, <1>11 DEF CopyOpen, Goes
  <2>2. Done' = Done /\ (Turned' <=> Turned) /\ To \in Name
    BY <1>4, <2>1, AppendFrom DEF MovePhases
  <2>3. /\ \A n : Comes(n)' = Comes(n)
        /\ \A n : Open(n)' <=> n = To
        /\ \A n : ~Open(n)
    BY <1>2, <2>1, <2>2 DEF Comes, Open
  <2>4. ASSUME NEW n \in Name
        PROVE  \E s \in SetToSeqs(Comes(n)) :
                 fs'[n] = IF Original[n] = Absent /\ Comes(n) = {} /\ n # To
                          THEN Absent ELSE Base(n) \o s
    <3>1. CASE n # To
      BY <1>9, <2>1, <2>2, <2>3, <3>1 DEF Appended
    <3>2. CASE n = To /\ fs[n] # Absent
      <4>1. \E s \in SetToSeqs(Comes(n)) : fs[n] = Base(n) \o s
        BY <3>2, HeldBy
      <4>2. fs'[n] = fs[n]
        BY <1>9, <2>1, <2>2, <3>2 DEF Opened
      <4>3. QED BY <3>2, <4>1, <4>2
    <3>3. CASE n = To /\ fs[n] = Absent
      <4>1. n \notin job.files /\ Comes(n) = {}
        BY <3>3, HeldBy
      <4>2. fs'[n] = << >>
        BY <1>9, <2>1, <2>2, <3>3 DEF Opened
      <4>3. Original[n] = Absent
        BY <4>1 DEF Original
      <4>4. Base(n) \o << >> = << >>
        BY <4>3 DEF Base
      <4>5. QED BY <3>3, <4>1, <4>2, <4>4, NoneAtAll
    <3>4. QED BY <3>1, <3>2, <3>3
  <2>5. (\A n \in Name : \E s \in SetToSeqs(Comes(n)) :
           fs[n] = IF Original[n] = Absent /\ Comes(n) = {} /\ ~Open(n)
                   THEN Absent ELSE Base(n) \o s)'
    BY <1>2, <1>10, <2>3, <2>4
  <2>6. (Turned /\ job.to[list[hd]] \in Live => aliaslen = 1)'
    BY <1>2, <2>1, <2>2 DEF Appended
  <2>7. QED BY <2>1, <2>5, <2>6 DEF Appended
<1>12. CASE CopyData
  <2>1. /\ pc = "copying" /\ pc' = "print" /\ aliaslen' = aliaslen
        /\ fs' = [fs EXCEPT ![To] = @ \o Transferred]
    BY <1>1, <1>3, <1>12 DEF CopyData, Goes
  <2>2. /\ cur \in Live /\ cur \notin Done /\ cur \in Name /\ To \in Name
        /\ Transferred = <<cur>>
    BY <2>1, AppendFrom, AppendsOne DEF MovePhases
  <2>3. Done' = Done \cup {cur} /\ (Turned' <=> Turned)
    BY <1>2, <2>1, <2>2 DEF Done, Well, Turned, RepPhases, WritingPhases
  <2>4. /\ \A n : Comes(n)' = IF n = To THEN Comes(n) \cup {cur} ELSE Comes(n)
        /\ \A n : ~Open(n)'
    BY <1>2, <2>1, <2>3 DEF Comes, Open, To
  <2>5. ASSUME NEW n \in Name
        PROVE  \E s \in SetToSeqs(Comes(n)') :
                 fs'[n] = IF Original[n] = Absent /\ Comes(n)' = {}
                          THEN Absent ELSE Base(n) \o s
    <3>1. CASE n # To
      BY <1>9, <2>1, <2>2, <2>4, <3>1 DEF Appended, Open
    <3>2. CASE n = To
      <4>1. PICK s \in SetToSeqs(Comes(n)) : s \in Seq(Name) /\ fs[n] = Base(n) \o s
        BY <2>1, <3>2, HeldBy DEF Open
      <4>2. s \o <<cur>> \in SetToSeqs(Comes(n)')
        <5>1. cur \notin Comes(n)
          BY <2>2 DEF Comes
        <5>2. QED BY <2>4, <3>2, <4>1, <5>1, ComesFacts
      <4>3. fs'[n] = (Base(n) \o s) \o <<cur>>
        BY <1>9, <2>1, <2>2, <3>2, <4>1
      <4>4. (Base(n) \o s) \o <<cur>> = Base(n) \o (s \o <<cur>>)
        BY <1>10, <2>2, <3>2, <4>1, ConcatAssociative
      <4>5. QED BY <2>4, <3>2, <4>2, <4>3, <4>4
    <3>3. QED BY <3>1, <3>2
  <2>6. (\A n \in Name : \E s \in SetToSeqs(Comes(n)) :
           fs[n] = IF Original[n] = Absent /\ Comes(n) = {} /\ ~Open(n)
                   THEN Absent ELSE Base(n) \o s)'
    BY <1>2, <1>10, <2>4, <2>5
  <2>7. (Turned /\ job.to[list[hd]] \in Live => aliaslen = 1)'
    BY <1>2, <2>1, <2>3 DEF Appended
  <2>8. QED BY <2>1, <2>6, <2>7 DEF Appended
<1>13. QED
  BY <1>5, <1>6, <1>7, <1>8, <1>11, <1>12 DEF Call

\* The steps between the system calls.
LEMMA AppendRest ==
  ASSUME RunInv, ProgressInv, ExecInv, Well, IsAppend, Appended, ~noex',
         NextChain \/ StartRep \/ ChainsEnd \/ Sigint \/ PrintLine
  PROVE  Appended'
<1>1. UNCHANGED <<job, repVars, fs, aliaslen>>
  BY DEF NextChain, StartRep, ChainsEnd, Sigint, PrintLine, calm, doVars
<1>2. UNCHANGED <<job, fs, aliaslen, list, cycle, Live>>
  BY <1>1, SamePlan DEF repVars
<1>3. ~noex /\ handler # "breakout"
  BY DEF Well
<1>4. ASSUME Done' = Done, pc' \notin {"copying", "unlinksrc"}, pc # "copying",
             Turned' => Turned /\ hd' = hd
      PROVE  Appended'
  <2>1. Turned' /\ (job.to[list[hd]] \in Live)' => aliaslen' = 1
    BY <1>2, <1>4 DEF Appended
  <2>2. QED BY <1>2, <1>4, <2>1, AppendQuiet
<1>5. CASE NextChain
  <2>1. pc = "chain" /\ pc' = "rep" /\ cur' = list[hd] /\ hd' = hd
    BY <1>5 DEF NextChain, Goes
  <2>2. Left' = Left
    BY <1>5, <2>1, LeftStays DEF DoStep, PrintLine, StartDoreps
  <2>3. Done' = Done /\ ~Turned'
    BY <1>2, <2>1, <2>2 DEF Done, Turned
  <2>4. QED BY <1>4, <2>1, <2>3
<1>6. CASE StartRep
  <2>1. /\ pc = "rep" /\ UNCHANGED <<cur, hd, noex>>
        /\ pc' = IF cur \in cycle THEN "alias" ELSE "unlink"
    BY <1>3, <1>6 DEF StartRep, Goes, NeedsAlias, doVars
  <2>2. Left' = Left
    BY <1>6, <2>1, LeftStays DEF DoStep, PrintLine, StartDoreps
  <2>3. cur \in cycle => cur = list[hd]
    BY <2>1, CycleAtHead DEF RunInv, RepPhases
  <2>4. Done' = Done
    BY <1>2, <2>1, <2>2 DEF Done
  <2>5. Turned' <=> Turned
    BY <1>2, <2>1, <2>3 DEF Turned, RepPhases, WritingPhases
  <2>6. QED BY <1>4, <2>1, <2>4, <2>5
<1>7. CASE ChainsEnd
  <2>1. pc = "chain" /\ pc' = "exit" /\ UNCHANGED <<cur, hd, noex>>
    BY <1>7 DEF ChainsEnd, doVars
  <2>2. Left' = Left
    BY <1>7, <2>1, LeftStays DEF DoStep, PrintLine, StartDoreps
  <2>3. Done' = Done /\ ~Turned'
    BY <1>2, <2>1, <2>2 DEF Done, Turned, RepPhases, WritingPhases
  <2>4. QED BY <1>4, <2>1, <2>3
<1>8. CASE Sigint
  <2>1. handler = "breakrep"
    BY <1>3 DEF ProgressInv
  <2>2. UNCHANGED <<pc, cur, hd, noex>>
    BY <1>8, <2>1 DEF Sigint
  <2>3. Left' = Left
    BY <1>1, <1>2, <2>2, SamePlan DEF Left
  <2>4. /\ Done' = Done /\ (Turned' <=> Turned) /\ To' = To
    BY <1>2, <2>2, <2>3 DEF Done, Turned, To
  <2>5. /\ Original' = Original
        /\ \A n : Comes(n)' = Comes(n) /\ Base(n)' = Base(n)
        /\ \A n : Open(n)' = Open(n)
    BY <1>2, <2>2, <2>4 DEF Original, Comes, Base, Open
  <2>6. (\A n \in Name : \E s \in SetToSeqs(Comes(n)) :
           fs[n] = IF Original[n] = Absent /\ Comes(n) = {} /\ ~Open(n)
                   THEN Absent ELSE Base(n) \o s)'
    BY <1>2, <2>5 DEF Appended
  <2>7. (Turned /\ job.to[list[hd]] \in Live => aliaslen = 1)'
    BY <1>2, <2>2, <2>4 DEF Appended
  <2>8. pc' # "unlinksrc"
    BY <2>2 DEF Appended
  <2>9. QED BY <2>6, <2>7, <2>8 DEF Appended
<1>9. CASE PrintLine
  <2>1. /\ pc = "print" /\ pc' \in {"rep", "chain"} /\ noex' = noex
        /\ IF thendo[cur] # Nil THEN cur' = thendo[cur] /\ hd' = hd /\ pc' = "rep"
           ELSE cur' = Nil /\ hd' = hd + 1 /\ pc' = "chain"
    BY <1>9 DEF PrintLine, ChainGoesOn, Goes
  <2>2. Left' = Left \ {cur} /\ cur \in Live /\ Left \subseteq Live
    <3>1. cur # Nil
      BY <2>1 DEF RunInv, RepPhases
    <3>2. QED BY <1>3, <1>9, <3>1, PrintLeaves, LeftLive
  <2>3. Done' = Done
    BY <1>2, <1>3, <2>1, <2>2 DEF Done
  <2>4. Turned' => Turned /\ hd' = hd
    <3>1. ~Turned' \/ thendo[cur] # Nil
      BY <2>1 DEF Turned, RepPhases, WritingPhases
    <3>2. CASE thendo[cur] # Nil
      BY <1>2, <2>1, <3>2 DEF Turned, RepPhases, WritingPhases
    <3>3. QED BY <3>1, <3>2
  <2>5. QED BY <1>4, <2>1, <2>3, <2>4
<1>10. QED BY <1>5, <1>6, <1>7, <1>8, <1>9

\* Nothing has been appended.
LEMMA AppendInit == Init => AppendInv
BY DEF Init, DoInit, AppendInv, Well

\* Every step of an append leaves what was there in front of what it adds.
LEMMA AppendStep ==
  RunInv /\ ProgressInv /\ ExecInv /\ AppendInv /\ [Next]_allVars => AppendInv'
<1> SUFFICES ASSUME RunInv, ProgressInv, ExecInv, AppendInv, [Next]_allVars,
                    Well', IsAppend'
             PROVE  Appended'
  BY DEF AppendInv
<1>1. CASE Planning \/ Interrupt
  <2>1. pc \in PlanPhases /\ UNCHANGED doVars
    BY <1>1, InPlanning DEF Planning, Interrupt
  <2>2. handler' = "breakout"
    BY <2>1 DEF RunInv, DoInit, doVars
  <2>3. QED BY <2>2 DEF Well
<1>2. CASE Doing \/ Signal
  <2>1. /\ UNCHANGED <<job, repVars, noex>> /\ ~noex
        /\ \/ StartDoreps
           \/ Well /\ (\/ NextChain \/ StartRep \/ ChainsEnd \/ Sigint \/ PrintLine \/ Call)
    BY <1>2, WellBefore DEF Doing, Signal
  <2>2. IsAppend /\ ~noex'
    BY <2>1 DEF IsAppend
  <2>3. CASE StartDoreps
    <3>1. /\ Done' = {} /\ ~Turned' /\ pc' = "chain"
          /\ fs' = Original /\ job' = job
      BY <2>3, NothingDone
    <3>2. /\ Original' = Original /\ \A n : Comes(n)' = {} /\ ~Open(n)'
          /\ \A n : Base(n)' = Base(n)
      BY <3>1 DEF Original, Comes, Open, Base
    <3>3. \A n \in Name : /\ Base(n) \o << >> = Base(n)
                          /\ Original[n] # Absent => Base(n) = Original[n]
      BY DEF Base, Original
    <3>4. (\A n \in Name : \E s \in SetToSeqs(Comes(n)) :
             fs[n] = IF Original[n] = Absent /\ Comes(n) = {} /\ ~Open(n)
                     THEN Absent ELSE Base(n) \o s)'
      <4>1. \A n \in Name :
               fs'[n] = IF Original[n] = Absent THEN Absent ELSE Base(n) \o << >>
        BY <3>1, <3>3
      <4>2. QED BY <3>2, <4>1, NoneAtAll
    <3>5. QED BY <3>1, <3>4 DEF Appended
  <2>4. CASE Well /\ (NextChain \/ StartRep \/ ChainsEnd \/ Sigint \/ PrintLine)
    BY <2>2, <2>4, AppendRest DEF AppendInv
  <2>5. CASE Well /\ Call
    BY <2>2, <2>5, AppendCalls DEF AppendInv
  <2>6. QED BY <2>1, <2>3, <2>4, <2>5
<1>3. CASE UNCHANGED allVars
  <2>1. UNCHANGED <<job, repVars, pc, doVars>>
    BY <1>3 DEF allVars, vars
  <2>2. /\ UNCHANGED <<job, list, cycle, pc, fs, hd, cur, aliaslen, noex, handler,
                       Live, IsAppend, Original>>
        /\ \A h : Chain(h)' = Chain(h)
    BY <2>1, SamePlan DEF repVars, doVars, Original
  <2>3. Left' = Left
    BY <2>2 DEF Left
  <2>4. Done' = Done /\ (Turned' <=> Turned) /\ To' = To
    BY <2>2, <2>3 DEF Done, Turned, To
  <2>5. /\ \A n : Comes(n)' = Comes(n) /\ Base(n)' = Base(n)
        /\ \A n : Open(n)' = Open(n)
    BY <2>2, <2>4 DEF Comes, Base, Open
  <2>6. Appended
    BY <2>2 DEF AppendInv, Well
  <2>7. (\A n \in Name : \E s \in SetToSeqs(Comes(n)) :
           fs[n] = IF Original[n] = Absent /\ Comes(n) = {} /\ ~Open(n)
                   THEN Absent ELSE Base(n) \o s)'
    BY <2>2, <2>5, <2>6 DEF Appended
  <2>8. QED BY <2>2, <2>4, <2>6, <2>7 DEF Appended
<1>4. QED BY <1>1, <1>2, <1>3 DEF Next

-----------------------------------------------------------------------------
(***************************************************************************)
(* Before doreps begins, all is as it was.                                 *)
(***************************************************************************)
HomeInv == handler = "breakout" => fs = Original /\ lines = {}

\* At first every file is at home and nothing is printed.
LEMMA HomeInit == Init => HomeInv
BY DEF Init, DoInit, HomeInv

\* Where doreps has begun, SIGINT has a handler of its own.
LEMMA HandlerSet == RunInv /\ DoStep => handler' # "breakout"
<1> SUFFICES ASSUME RunInv, DoStep PROVE handler' # "breakout"
  OBVIOUS
<1>1. CASE StartDoreps
  BY <1>1 DEF StartDoreps
<1>2. CASE NextChain \/ BreakPrinting \/ StartRep \/ PrintLine \/ ChainsEnd
  <2>1. pc \in {"chain", "rep", "print"} /\ handler' = handler
    BY <1>2 DEF NextChain, BreakPrinting, StartRep, PrintLine, ChainsEnd, doVars
  <2>2. QED BY <2>1 DEF RunInv, RepPhases
<1>3. CASE UserBreak
  BY <1>3 DEF UserBreak, Snap
<1>4. CASE Call
  <2>1. pc \in WritingPhases /\ (NoSnap \/ Snap)
    BY <1>4, CallFacts
  <2>2. handler # "breakout"
    BY <2>1 DEF RunInv, RepPhases
  <2>3. QED BY <2>1, <2>2 DEF NoSnap, Snap
<1>5. QED BY <1>1, <1>2, <1>3, <1>4 DEF DoStep, Call

\* Planning moves nothing and prints no line of doreps.
LEMMA HomeStep == RunInv /\ HomeInv /\ [Next]_allVars => HomeInv'
<1> SUFFICES ASSUME RunInv, HomeInv, [Next]_allVars, handler' = "breakout"
             PROVE  fs' = Original' /\ lines' = {}
  BY DEF HomeInv
<1>1. UNCHANGED <<job, fs, lines, handler>>
  <2>1. CASE Planning \/ Interrupt
    BY <2>1, PlanRefuses DEF Planning, Interrupt, doVars
  <2>2. CASE Doing
    BY <2>2, HandlerSet DEF Doing
  <2>3. CASE Signal
    BY <2>3 DEF Signal, Sigint
  <2>4. CASE UNCHANGED allVars
    BY <2>4 DEF allVars, vars, doVars
  <2>5. QED BY <2>1, <2>2, <2>3, <2>4 DEF Next
<1>2. QED BY <1>1 DEF HomeInv, Original

\* What execution keeps, taken together.
Kept == RunInv /\ ProgressInv /\ ExecInv /\ HomeInv /\ PlaceInv /\ AppendInv

\* So, of every state: where doreps is, and where the files are.
LEMMA PlacesKept == Spec => []Kept
<1>1. Init => Kept
  BY RunInit, ProgressInit, ExecInit, HomeInit, PlaceInit, AppendInit DEF Kept
<1>2. Kept /\ [Next]_allVars => Kept'
  BY RunStep, ProgressStep, ExecStep, HomeStep, PlaceStep, AppendStep DEF Kept
<1>3. QED BY <1>1, <1>2, PTL DEF Spec
-----------------------------------------------------------------------------
(***************************************************************************)
(* What follows for a run that ends without failure.                       *)
(***************************************************************************)
LEMMA EndsDone ==
  ASSUME RunInv, ProgressInv, Well, pc = "exit"
  PROVE  Done = Live /\ Aside = {} /\ Busy = {} /\ ~Turned /\ \A n : ~Open(n)
<1>1. ~Turned /\ pc # "print" /\ Busy = {} /\ \A n : ~Open(n)
  BY DEF Turned, RepPhases, WritingPhases, Busy, Open
<1>2. Left = {}
  BY DoneFacts
<1>3. QED BY <1>1, <1>2 DEF Done, Aside

\* A run that ends without failure has done all of the plan and nothing else,
\* as if all the renames, copies or appends were made at the same moment:
\* however the names form chains and cycles, no temporary name is left and no
\* appended file is longer than it was.  For moves this needs targets that are
\* no temporary names.
THEOREM RunsAccomplish == Spec => []((IsMove => PlainTargets) => Accomplished)
<1>1. Kept => ((IsMove => PlainTargets) => Accomplished)
  <2> SUFFICES ASSUME Kept, IsMove => PlainTargets,
                      pc = "exit", handler = "breakrep", ~noex, NEW n \in Name
               PROVE  Final(n, fs[n])
    BY DEF Accomplished
  <2>1. RunInv /\ ProgressInv /\ ExecInv /\ Well
    BY DEF Kept, Well
  <2>2. Done = Live /\ Aside = {} /\ Busy = {} /\ \A m : ~Open(m)
    BY <2>1, EndsDone
  <2>3. CASE ~IsAppend
    <3>1. Standing
      BY <2>1, <2>3 DEF Kept, PlaceInv
    <3>2. \A r \in Live : InPlace(r)
      <4>1. TAKE r \in Live
      <4>2. fs[job.to[r]] = <<r>>
        BY <2>2, <3>1 DEF Standing
      <4>3. r \in Name
        BY <2>1, PlanFrame DEF Well
      <4>4. <<r>> # Absent
        BY <4>3, NilAssumption DEF Absent
      <4>5. QED BY <2>3, <4>2, <4>4 DEF InPlace
    <3>3. CASE \E r \in Live : job.to[r] = n
      BY <2>3, <3>2, <3>3 DEF Final
    <3>4. CASE ~\E r \in Live : job.to[r] = n
      <4>1. fs[n] = Was(n)
        BY <2>2, <3>1, <3>4 DEF Standing, Targets
      <4>2. QED BY <2>2, <2>3, <3>4, <4>1 DEF Final, Was
    <3>5. QED BY <3>3, <3>4
  <2>4. CASE IsAppend
    <3>1. PICK s \in SetToSeqs(Comes(n)) :
            fs[n] = IF Original[n] = Absent /\ Comes(n) = {} THEN Absent ELSE Base(n) \o s
      BY <2>1, <2>2, <2>4 DEF Kept, AppendInv, Appended
    <3>2. Comes(n) = {r \in Live : job.to[r] = n}
      BY <2>2 DEF Comes
    <3>3. Base(n) = IF Original[n] = Absent THEN << >> ELSE Original[n]
      BY DEF Base, Original
    <3>4. CASE Comes(n) = {}
      <4>1. s = << >> /\ Base(n) \o << >> = Base(n)
        BY <3>1, <3>4, NoneAtAll DEF Base
      <4>2. fs[n] = Original[n]
        BY <3>1, <3>3, <3>4, <4>1
      <4>3. QED BY <2>4, <3>2, <3>4, <4>2 DEF Final
    <3>5. CASE Comes(n) # {}
      BY <2>4, <3>1, <3>2, <3>3, <3>5 DEF Final
    <3>6. QED BY <3>4, <3>5
  <2>5. QED BY <2>3, <2>4
<1>2. QED BY <1>1, PlacesKept, PTL
-----------------------------------------------------------------------------
(***************************************************************************)
(* No file is lost, and none is found where it does not belong.            *)
(***************************************************************************)
LEMMA OneFile ==
  ASSUME NEW f \in Name
  PROVE  /\ <<f>> # Absent /\ <<f>> # << >> /\ <<f>>[1] = f /\ Len(<<f>>) = 1
         /\ \A g : <<g>> = <<f>> => g = f
<1>1. <<f>> \in Seq(Name) /\ <<f>>[1] = f /\ Len(<<f>>) = 1
  OBVIOUS
<1>2. <<f>> # Absent
  BY <1>1, NilAssumption DEF Absent
<1>3. <<f>> # << >>
  <2>1. Len(<< >>) = 0
    OBVIOUS
  <2>2. QED BY <1>1, <2>1
<1>4. ASSUME NEW g, <<g>> = <<f>> PROVE g = f
  <2>1. <<g>>[1] = g
    OBVIOUS
  <2>2. QED BY <1>1, <1>4, <2>1
<1>5. QED BY <1>1, <1>2, <1>3, <1>4

\* A name that holds a piece holds that file and no other.
LEMMA HoldsOne ==
  ASSUME ~IsAppend, NEW f \in Name, NEW n \in Name, fs[n] = <<f>>
  PROVE  Holds(n, f)
BY OneFile DEF Holds

\* While moves, copies and links go well.
LEMMA PlacesSafe ==
  ASSUME RunInv, ProgressInv, Well, ~IsAppend, Standing
  PROVE  NothingLost /\ NothingMisplaced
<1>1. /\ PlanStands /\ Handed /\ Live \subseteq Sources /\ Sources \subseteq job.files
      /\ job.files \subseteq Name /\ Done \subseteq Live /\ Aside \subseteq Live
      /\ \A r \in Live : job.to[r] \in Name
      /\ IsMove \/ CopyOrLink
  <2>1. Aside \subseteq Live /\ Done \subseteq Live
    BY AsideFacts, DoneFacts
  <2>2. QED
    BY <2>1, PlanFrame DEF Well, Handed, Job, Ops, CopyOrLink, IsMove, IsAppend
<1>2. ASSUME NEW f \in job.files
      PROVE  (\E n \in Name : Holds(n, f)) \/ \E r \in Live : fdel[r] = f
  <2>1. f \in Name
    BY <1>1
  <2>2. (\E n \in Name : fs[n] = <<f>>) => \E n \in Name : Holds(n, f)
    BY <2>1, HoldsOne
  <2>3. CASE IsMove /\ f \in Done
    BY <1>1, <2>2, <2>3 DEF Standing
  <2>4. CASE IsMove /\ f \in Aside
    BY <2>2, <2>4 DEF Standing
  <2>5. CASE f \in Live /\ (~IsMove \/ f \notin Done \cup Aside)
    BY <2>1, <2>2, <2>5, StillHome
  <2>6. CASE f \notin Live
    <3>1. ASSUME NEW r \in Live, job.to[r] = f PROVE fdel[r] = f
      <4>1. Snapshot(r) = f
        BY <1>1, <3>1 DEF Snapshot
      <4>2. QED BY <1>1, <2>6, <3>1, <4>1 DEF PlanStands, HandedMoves, HandedCopies
    <3>2. CASE \E r \in Live : job.to[r] = f
      BY <3>1, <3>2
    <3>3. CASE ~\E r \in Live : job.to[r] = f
      <4>1. pc \in MovePhases => cur \in Live
        BY FromIs
      <4>2. f \notin Targets(Done) \cup {Temp(r) : r \in Aside} \cup Busy
        BY <1>1, <3>3, <4>1 DEF Targets, Busy, MovePhases, To, Standing
      <4>3. fs[f] = Original[f] /\ Original[f] = <<f>>
        BY <1>1, <2>1, <2>6, <4>2 DEF Standing, Was, Original
      <4>4. QED BY <2>1, <2>2, <4>3
    <3>4. QED BY <3>2, <3>3
  <2>7. QED BY <1>1, <2>3, <2>4, <2>5, <2>6
<1>3. ASSUME NEW n \in Name, NEW f \in Name, fs[n] = <<f>>
      PROVE  \/ n = f
             \/ f \in Live /\ job.to[f] = n
             \/ f \in aliased /\ n \in Temps
  <2>1. <<f>> # Absent /\ <<f>> # << >> /\ \A g : <<g>> = <<f>> => g = f
    BY OneFile
  <2>2. Original[n] = <<f>> => n = f
    BY <2>1 DEF Original
  <2>3. CASE n \in Targets(Done)
    BY <1>1, <1>3, <2>1, <2>3 DEF Targets, Standing
  <2>4. CASE n \in {Temp(r) : r \in Aside}
    <3>1. PICK r \in Aside : n = Temp(r)
      BY <2>4
    <3>2. fs[Temp(r)] = <<r>> /\ Temp(r) \in Temps
      BY DEF Standing
    <3>3. r \in aliased
      BY AsideFacts
    <3>4. r = f
      BY <1>3, <2>1, <3>1, <3>2
    <3>5. QED BY <3>1, <3>2, <3>3, <3>4
  <2>5. CASE n \in Busy
    <3>1. n = To /\ pc \in {"transfer", "copying", "unlinksrc"}
      BY <2>5 DEF Busy
    <3>2. cur \in Live
      BY <3>1, FromIs DEF MovePhases
    <3>3. CASE pc = "transfer"
      <4>1. fs[n] = IF Overwrites THEN Original[n] ELSE Absent
        BY <3>1, <3>3 DEF Standing
      <4>2. QED BY <1>3, <2>1, <2>2, <4>1
    <3>4. CASE pc = "copying"
      <4>1. fs[n] = << >>
        BY <3>1, <3>4 DEF Standing
      <4>2. QED BY <1>3, <2>1, <4>1
    <3>5. CASE pc = "unlinksrc"
      <4>1. fs[n] = <<cur>>
        BY <3>1, <3>5 DEF Standing
      <4>2. cur = f
        BY <1>3, <2>1, <4>1
      <4>3. QED BY <3>1, <3>2, <4>2 DEF To
    <3>6. QED BY <3>1, <3>3, <3>4, <3>5
  <2>6. CASE n \notin Targets(Done) \cup {Temp(r) : r \in Aside} \cup Busy
    BY <1>3, <2>1, <2>2, <2>6 DEF Standing, Was
  <2>7. QED BY <2>3, <2>4, <2>5, <2>6
<1>4. NothingLost
  BY <1>2 DEF NothingLost
<1>5. NothingMisplaced
  BY <1>3 DEF NothingMisplaced
<1>6. QED BY <1>4, <1>5

\* An append leaves every file where it is.
LEMMA AppendsHold ==
  ASSUME RunInv, ProgressInv, ExecInv, Well, IsAppend, Appended, NEW f \in job.files
  PROVE  Holds(f, f)
<1>1. f \in Name /\ fs[f] # Absent
  BY HeldBy, PlanFrame DEF Well
<1>2. PICK s \in SetToSeqs(Comes(f)) : s \in Seq(Name) /\ fs[f] = <<f>> \o s
  BY <1>1, HeldBy
<1>3. fs[f] \in Seq(Name) /\ Len(fs[f]) = Len(s) + 1 /\ Len(s) \in Nat /\ fs[f][1] = f
  BY <1>1, <1>2, ConsFacts, LenProperties
<1>4. fs[f] # << >>
  <2>1. Len(<< >>) = 0
    OBVIOUS
  <2>2. QED BY <1>3, <2>1
<1>5. QED BY <1>1, <1>3, <1>4 DEF Holds

\* While appends do.
LEMMA AppendsSafe ==
  ASSUME RunInv, ProgressInv, ExecInv, Well, IsAppend, Appended
  PROVE  NothingLost /\ NothingMisplaced
<1>1. job.files \subseteq Name /\ Done \subseteq Live
  BY PlanFrame, DoneFacts DEF Well
<1>2. \A f \in job.files : Holds(f, f)
  BY AppendsHold
<1>3. ASSUME NEW n \in Name, NEW f \in Name, fs[n] = <<f>>
      PROVE  n = f \/ (f \in Live /\ job.to[f] = n)
  <2>1. /\ <<f>> # Absent /\ <<f>>[1] = f /\ <<f>> \in Seq(Name) /\ Len(<<f>>) = 1
        /\ <<n>> # Absent
    BY NilAssumption DEF Absent
  <2>2. PICK s \in SetToSeqs(Comes(n)) : s \in Seq(Name) /\ fs[n] = Base(n) \o s
    BY <1>3, <2>1, HeldBy
  <2>3. CASE Original[n] # Absent
    <3>1. fs[n] = <<n>> \o s
      BY <2>2, <2>3 DEF Base
    <3>2. fs[n][1] = n
      BY <2>2, <3>1, ConsFacts
    <3>3. QED BY <1>3, <2>1, <3>2
  <2>4. CASE Original[n] = Absent
    <3>1. s = <<f>>
      <4>1. Base(n) = << >>
        BY <2>4 DEF Base
      <4>2. << >> \o s = s
        BY <2>2
      <4>3. QED BY <1>3, <2>2, <4>1, <4>2
    <3>2. Comes(n) # {}
      BY <2>1, <3>1, NoneAtAll
    <3>3. f \in Comes(n)
      <4>1. IsFiniteSet(Comes(n)) /\ Cardinality(Comes(n)) \in Nat
        BY ComesFacts, FS_CardinalityType
      <4>2. s \in [1..Cardinality(Comes(n)) -> Comes(n)]
        BY DEF SetToSeqs
      <4>3. Cardinality(Comes(n)) # 0
        BY <3>2, <4>1, FS_EmptySet
      <4>4. s[1] \in Comes(n)
        BY <4>1, <4>2, <4>3
      <4>5. QED BY <2>1, <3>1, <4>4
    <3>4. QED BY <1>1, <3>3 DEF Comes
  <2>5. QED BY <2>3, <2>4
<1>4. NothingLost
  BY <1>1, <1>2 DEF NothingLost
<1>5. NothingMisplaced
  BY <1>3 DEF NothingMisplaced
<1>6. QED BY <1>4, <1>5

\* While all goes well.
LEMMA WellSafe ==
  Kept /\ Well /\ (IsMove => PlainTargets) => NothingLost /\ NothingMisplaced
BY PlacesSafe, AppendsSafe DEF Kept, PlaceInv, AppendInv

\* As long as the directories are as they were.
LEMMA HomeSafe == RunInv /\ fs = Original => NothingLost /\ NothingMisplaced
<1> SUFFICES ASSUME RunInv, fs = Original PROVE NothingLost /\ NothingMisplaced
  OBVIOUS
<1>1. job.files \subseteq Name
  BY JobsAssumption DEF RunInv, Job
<1>2. ASSUME NEW f \in job.files PROVE f \in Name /\ Holds(f, f)
  <2>1. f \in Name /\ fs[f] = <<f>>
    BY <1>1 DEF Original
  <2>2. QED BY <2>1, OneFile DEF Holds
<1>3. ASSUME NEW n \in Name, NEW f \in Name, fs[n] = <<f>> PROVE n = f
  BY <1>3, OneFile DEF Original
<1>4. NothingLost
  BY <1>2 DEF NothingLost
<1>5. NothingMisplaced
  BY <1>3 DEF NothingMisplaced
<1>6. QED BY <1>4, <1>5

\* A system call that fails leaves the directories alone, or removes a copy
\* that nothing has been written to.
Undoes == /\ pc = "copying" /\ ~IsAppend /\ To \in Name /\ fs[To] = << >>
          /\ fs' = [fs EXCEPT ![To] = Absent]

\* A call that fails changes nothing, or removes the copy it has begun.
LEMMA FailKeeps ==
  ASSUME Kept, Well, IsMove => PlainTargets, Call, noex'
  PROVE  UNCHANGED fs \/ Undoes
<1>1. ~noex /\ ~NoSnap
  BY DEF Well, NoSnap
<1>2. CASE MoveAlias \/ AppendAlias \/ UnlinkOld \/ Rename \/ Link \/ CopyOpen \/ UnlinkSource
  BY <1>1, <1>2
     DEF MoveAlias, AppendAlias, UnlinkOld, Rename, Link, CopyOpen, UnlinkSource
<1>3. CASE CopyData
  <2>1. pc = "copying" /\ RunInv /\ ProgressInv /\ ExecInv
    BY <1>3 DEF CopyData, Kept
  <2>2. To \in Name /\ fs \in [Name -> Content \cup {Absent}] /\ fs[To] \in Content
    BY <2>1, RepNames, TransferredTyped
       DEF RepPhases, WritingPhases, ExecInv, ExecTypeOK, Content
  <2>3. CASE ~IsAppend
    <3>1. fs[To] = << >>
      BY <2>1, <2>3 DEF Kept, PlaceInv, Standing
    <3>2. fs' = [fs EXCEPT ![To] = Absent]
      BY <1>1, <1>3, <2>3 DEF CopyData, CopyRemoved
    <3>3. QED BY <2>1, <2>2, <2>3, <3>1, <3>2 DEF Undoes
  <2>4. CASE IsAppend
    <3>1. Transferred = <<cur>>
      BY <2>1, <2>4, AppendsOne DEF Kept, AppendInv
    <3>2. Front(<<cur>>) = << >>
      BY DEF Front
    <3>3. fs[To] \o << >> = fs[To]
      BY <2>2 DEF Content
    <3>4. \/ fs' = [fs EXCEPT ![To] = fs[To]]
          \/ fs' = [fs EXCEPT ![To] = fs[To] \o << >>]
      BY <1>1, <1>3, <2>4, <3>1, <3>2 DEF CopyData, CopyRemoved
    <3>5. QED BY <2>2, <3>3, <3>4
  <2>5. QED BY <2>3, <2>4
<1>4. QED BY <1>2, <1>3 DEF Call

\* So does the rest of a run that does not go well.
LEMMA BrokenKeeps ==
  ASSUME Kept, [Next]_allVars, IsMove => PlainTargets, handler # "breakout", noex'
  PROVE  UNCHANGED <<job, repVars>> /\ (UNCHANGED fs \/ Undoes)
<1>1. CASE Planning \/ Interrupt
  <2>1. pc \in PlanPhases
    BY <1>1, InPlanning DEF Planning, Interrupt
  <2>2. QED BY <2>1 DEF Kept, RunInv, DoInit
<1>2. CASE Doing
  <2>1. UNCHANGED <<job, repVars>>
    BY <1>2, DoingSamePlan DEF Doing
  <2>2. CASE Call /\ ~noex
    BY <2>1, <2>2, FailKeeps DEF Well
  <2>3. CASE Call /\ noex
    BY <2>3, CallFacts DEF Kept, ProgressInv
  <2>4. CASE ~Call
    BY <1>2, <2>1, <2>4
       DEF Doing, DoStep, Call, StartDoreps, NextChain, UserBreak, BreakPrinting,
           StartRep, PrintLine, ChainsEnd, doVars
  <2>5. QED BY <2>2, <2>3, <2>4 DEF Kept, ProgressInv
<1>3. CASE Signal
  BY <1>3 DEF Signal, Sigint
<1>4. CASE UNCHANGED allVars
  BY <1>4 DEF allVars, vars, doVars
<1>5. QED BY <1>1, <1>2, <1>3, <1>4 DEF Next

\* Until snap is called all goes well; afterwards the directories stay.
LEMMA BrokenBefore ==
  ASSUME Kept, [Next]_allVars, (IsMove => PlainTargets)', handler' # "breakout",
         noex', ~StartDoreps
  PROVE  /\ handler # "breakout" /\ (IsMove => PlainTargets)
         /\ UNCHANGED <<job, repVars>> /\ (UNCHANGED fs \/ Undoes)
<1>1. handler # "breakout"
  <2>1. CASE Planning \/ Interrupt \/ UNCHANGED allVars
    BY <2>1 DEF Planning, Interrupt, allVars, doVars
  <2>2. CASE Signal
    BY <2>2 DEF Signal, Sigint
  <2>3. CASE Doing
    <3>1. pc # "doreps" /\ pc \in RepPhases \cup {"chain"}
      BY <2>3, CallFacts
         DEF Doing, DoStep, Call, NextChain, UserBreak, BreakPrinting, StartRep,
             PrintLine, ChainsEnd, RepPhases, WritingPhases
    <3>2. QED BY <3>1 DEF Kept, RunInv
  <2>4. QED BY <2>1, <2>2, <2>3 DEF Next
<1>2. job' = job
  <2>1. CASE Planning \/ Interrupt
    BY <2>1, PlanRefuses DEF Planning, Interrupt
  <2>2. CASE Doing \/ Signal
    BY <2>2, DoingSamePlan DEF Doing, Signal
  <2>3. QED BY <2>1, <2>2 DEF Next, allVars, vars
<1>3. IsMove => PlainTargets
  BY <1>2 DEF IsMove, PlainTargets, Sources, Temps
<1>4. QED BY <1>1, <1>3, BrokenKeeps

\* A file whose copy is removed again is still where it was.
LEMMA RemovalSafe ==
  ASSUME UNCHANGED <<job, repVars>>, UNCHANGED fs \/ Undoes,
         fs \in [Name -> Content \cup {Absent}],
         NothingLost, NothingMisplaced
  PROVE  NothingLost' /\ NothingMisplaced'
<1>1. UNCHANGED <<job, fdel, aliased, Live, IsAppend>>
  BY SamePlan DEF repVars
<1>2. ASSUME NEW n \in Name, NEW f, Holds(n, f) PROVE Holds(n, f)'
  <2>1. fs'[n] = fs[n]
    BY <1>2 DEF Undoes, Holds
  <2>2. QED BY <1>1, <1>2, <2>1 DEF Holds
<1>3. ASSUME NEW n \in Name, NEW f \in Name, fs'[n] = <<f>> PROVE fs[n] = <<f>>
  BY <1>3, OneFile DEF Undoes
<1>4. NothingLost'
  BY <1>1, <1>2 DEF NothingLost
<1>5. NothingMisplaced'
  BY <1>1, <1>3 DEF NothingMisplaced, Temps
<1>6. QED BY <1>4, <1>5

Safe == (IsMove => PlainTargets) => NothingLost /\ NothingMisplaced

\* Every step keeps files somewhere, and nowhere else than planned.
LEMMA SafeStep == Kept /\ Kept' /\ Safe /\ [Next]_allVars => Safe'
<1> SUFFICES ASSUME Kept, Kept', Safe, [Next]_allVars, (IsMove => PlainTargets)'
             PROVE  NothingLost' /\ NothingMisplaced'
  BY DEF Safe
<1>1. (Kept /\ Well /\ (IsMove => PlainTargets) => NothingLost /\ NothingMisplaced)'
  BY WellSafe, PTL
<1>2. (RunInv /\ fs = Original => NothingLost /\ NothingMisplaced)'
  BY HomeSafe, PTL
<1>3. RunInv' /\ HomeInv' /\ ProgressInv'
  BY DEF Kept
<1>4. CASE handler' = "breakout"
  BY <1>2, <1>3, <1>4 DEF HomeInv
<1>5. CASE Well'
  BY <1>1, <1>5
<1>6. CASE StartDoreps
  <2>1. fs' = Original /\ job' = job
    BY <1>6, NothingDone DEF Kept
  <2>2. QED BY <1>2, <1>3, <2>1 DEF Original
<1>7. CASE handler' # "breakout" /\ noex' /\ ~StartDoreps
  <2>1. /\ IsMove => PlainTargets
        /\ UNCHANGED <<job, repVars>> /\ (UNCHANGED fs \/ Undoes)
    BY <1>7, BrokenBefore
  <2>2. fs \in [Name -> Content \cup {Absent}] /\ NothingLost /\ NothingMisplaced
    BY <2>1 DEF Kept, ExecInv, ExecTypeOK, Content, Safe
  <2>3. QED BY <2>1, <2>2, RemovalSafe
<1>8. noex' \in BOOLEAN
  BY <1>3 DEF ProgressInv
<1>9. QED BY <1>4, <1>5, <1>6, <1>7, <1>8 DEF Well

\* So files are safe in every state.
LEMMA SafeKept == Spec => []Safe
<1>1. Init => Safe
  <2> SUFFICES ASSUME Init PROVE Safe
    OBVIOUS
  <2>1. RunInv /\ fs = Original
    BY RunInit DEF Init, DoInit
  <2>2. QED BY <2>1, HomeSafe DEF Safe
<1>2. QED BY <1>1, SafeStep, PlacesKept, PTL DEF Spec

\* Whatever fails, whenever the user breaks in and wherever the program stops,
\* even between two system calls: each file of the snapshot is still there,
\* whole, under some name, unless its deletion was part of the plan.  For moves
\* this needs targets that are no temporary names.
THEOREM FilesSurvive == Spec => []((IsMove => PlainTargets) => NothingLost)
<1>1. Safe => ((IsMove => PlainTargets) => NothingLost)
  BY DEF Safe
<1>2. QED BY <1>1, SafeKept, PTL

\* And it is under its old name, under the one planned for it or, while its
\* cycle is being turned, under a temporary one: never in another's place.
THEOREM FilesInPlace == Spec => []((IsMove => PlainTargets) => NothingMisplaced)
<1>1. Safe => ((IsMove => PlainTargets) => NothingMisplaced)
  BY DEF Safe
<1>2. QED BY <1>1, SafeKept, PTL
-----------------------------------------------------------------------------
(***************************************************************************)
(* What doreps tells the user.                                             *)
(***************************************************************************)
\* A line speaks of a rep doreps has come to; "done" only of one it has left
\* behind, and only after a failure, or under -n, of one that is not done.
LinesInv ==
    handler # "breakout" =>
      \A l \in lines : /\ l.rep \in Live /\ (l.done => l.rep \notin Left)
                       /\ ~l.done => job.noex \/ failed

\* Only PrintLine and the start of doreps change what is left, or the lines.
LEMMA OthersQuiet ==
  ASSUME RunInv, DoStep \/ Sigint, ~PrintLine, ~StartDoreps
  PROVE  /\ UNCHANGED <<lines, Left, Live, job, repVars>>
         /\ failed => failed'
         /\ handler' # "breakout" => handler # "breakout"
         /\ UNCHANGED <<hd, cur>> \/ NextChain
<1>1. UNCHANGED <<job, repVars, Left, Live>>
  BY DoingSamePlan, SamePlan, LeftStays
<1>2. CASE NextChain \/ UserBreak \/ BreakPrinting \/ StartRep \/ ChainsEnd
  <2>1. /\ UNCHANGED lines /\ (failed => failed') /\ pc \in {"chain", "rep"}
        /\ UNCHANGED <<hd, cur>> \/ NextChain
    BY <1>2 DEF NextChain, UserBreak, BreakPrinting, StartRep, ChainsEnd, Snap, doVars
  <2>2. QED BY <1>1, <2>1 DEF RunInv, RepPhases
<1>3. CASE Sigint
  BY <1>1, <1>3 DEF Sigint
<1>4. CASE Call
  <2>1. UNCHANGED <<hd, cur, lines>> /\ pc \in WritingPhases /\ (NoSnap \/ Snap)
    BY <1>4, CallFacts
  <2>2. failed => failed'
    <3>1. CASE NoSnap
      BY <3>1 DEF NoSnap
    <3>2. CASE Snap
      BY <3>2 DEF Snap
    <3>3. QED BY <2>1, <3>1, <3>2
  <2>3. QED BY <1>1, <2>1, <2>2 DEF RunInv, RepPhases
<1>5. QED BY <1>2, <1>3, <1>4 DEF DoStep, Call

\* No line has been printed.
LEMMA LinesInit == Init => LinesInv
BY DEF Init, DoInit, LinesInv

\* A line is printed for the rep in work, as doreps leaves it behind.
LEMMA LinesStep ==
  RunInv /\ ProgressInv /\ LinesInv /\ [Next]_allVars => LinesInv'
<1> SUFFICES ASSUME RunInv, ProgressInv, LinesInv, [Next]_allVars,
                    handler' # "breakout"
             PROVE  LinesInv'
  BY DEF LinesInv
<1>1. CASE Planning \/ Interrupt
  <2>1. pc \in PlanPhases /\ UNCHANGED doVars
    BY <1>1, InPlanning DEF Planning, Interrupt
  <2>2. QED BY <2>1 DEF RunInv, DoInit, doVars
<1>2. CASE StartDoreps
  BY <1>2, NothingDone DEF LinesInv
<1>3. CASE PrintLine
  <2>1. /\ lines' \subseteq lines \cup {[rep |-> cur, from |-> PrintedFrom, done |-> ~noex]}
        /\ UNCHANGED <<job, repVars, noex, failed, handler>> /\ pc = "print"
    BY <1>3 DEF PrintLine, calm, DoneMark
  <2>2. handler # "breakout" /\ cur # Nil
    BY <2>1 DEF RunInv, RepPhases
  <2>3. Left' = Left \ {cur} /\ cur \in Live /\ Live' = Live /\ job' = job
    BY <1>3, <2>1, <2>2, PrintLeaves, LeftLive, SamePlan
  <2>4. noex => job.noex \/ failed
    BY DEF ProgressInv
  <2>5. ASSUME NEW l \in lines'
        PROVE  /\ l.rep \in Live /\ (l.done => l.rep \notin Left')
               /\ ~l.done => job.noex \/ failed
    <3>1. CASE l \in lines
      BY <2>2, <2>3, <3>1 DEF LinesInv
    <3>2. CASE l = [rep |-> cur, from |-> PrintedFrom, done |-> ~noex]
      BY <2>3, <2>4, <3>2
    <3>3. QED BY <2>1, <2>5, <3>1, <3>2
  <2>6. QED BY <2>1, <2>3, <2>5 DEF LinesInv
<1>4. CASE (Doing \/ Signal) /\ ~PrintLine /\ ~StartDoreps
  BY <1>4, OthersQuiet DEF Doing, Signal, LinesInv
<1>5. CASE UNCHANGED allVars
  <2>1. UNCHANGED <<job, repVars, doVars>>
    BY <1>5 DEF allVars, vars
  <2>2. Left' = Left /\ Live' = Live
    BY <2>1, SamePlan DEF Left, doVars, repVars
  <2>3. QED BY <2>1, <2>2 DEF LinesInv, doVars
<1>6. QED BY <1>1, <1>2, <1>3, <1>4, <1>5 DEF Next

\* What was to be achieved stays so.
LEMMA RemovalInPlace ==
  ASSUME UNCHANGED job, UNCHANGED fs \/ Undoes, NEW r, InPlace(r)
  PROVE  InPlace(r)'
<1>1. IsAppend' = IsAppend
  BY DEF IsAppend
<1>2. CASE UNCHANGED fs
  BY <1>1, <1>2 DEF InPlace
<1>3. CASE Undoes
  <2>1. fs[job.to[r]] = <<r>>
    BY <1>3 DEF InPlace, Undoes
  <2>2. << >> # <<r>>
    OBVIOUS
  <2>3. fs'[job.to[r]] = fs[job.to[r]]
    BY <1>3, <2>1, <2>2 DEF Undoes
  <2>4. QED BY <1>1, <2>3 DEF InPlace
<1>4. QED BY <1>2, <1>3

\* While all goes well, what is done is in place.
LEMMA DoneInPlace ==
  Kept /\ Well /\ (IsMove => PlainTargets) => \A r \in Done : InPlace(r)
<1> SUFFICES ASSUME Kept, Well, IsMove => PlainTargets, NEW r \in Done
             PROVE  InPlace(r)
  OBVIOUS
<1>1. RunInv /\ ProgressInv /\ ExecInv
  BY DEF Kept
<1>2. r \in Live /\ r \in Name /\ job.to[r] \in Name
  BY <1>1, DoneFacts, PlanFrame DEF Well
<1>3. CASE ~IsAppend
  <2>1. fs[job.to[r]] = <<r>>
    BY <1>3 DEF Kept, PlaceInv, Standing
  <2>2. QED BY <1>2, <1>3, <2>1, OneFile DEF InPlace
<1>4. CASE IsAppend
  <2> DEFINE n == job.to[r]
  <2>1. Appended
    BY <1>4 DEF Kept, AppendInv
  <2>2. r \in Comes(n)
    BY DEF Comes
  <2>3. PICK s \in SetToSeqs(Comes(n)) : s \in Seq(Name) /\ fs[n] = Base(n) \o s
    BY <1>1, <1>2, <1>4, <2>1, <2>2, HeldBy
  <2>4. Base(n) \in Seq(Name) /\ fs[n] # Absent
    BY <1>1, <1>2, <1>4, <2>1, <2>2, HeldBy
  <2>5. \E x \in 1..Len(s) : s[x] = r
    <3>1. Cardinality(Comes(n)) \in Nat
      BY <1>1, ComesFacts, FS_CardinalityType
    <3>2. PICK x \in 1..Cardinality(Comes(n)) : s[x] = r
      BY <1>1, <2>2, <2>3, ArrangedAll, ComesFacts
    <3>3. s \in [1..Cardinality(Comes(n)) -> Comes(n)]
      BY DEF SetToSeqs
    <3>4. Len(s) = Cardinality(Comes(n))
      BY <2>3, <3>1, <3>3, LenProperties
    <3>5. QED BY <3>2, <3>4
  <2>6. PICK x \in 1..Len(s) : s[x] = r
    BY <2>5
  <2>7. /\ Len(Base(n)) + x \in DOMAIN (Base(n) \o s)
        /\ (Base(n) \o s)[Len(Base(n)) + x] = r
    <3>1. Len(s) \in Nat /\ Len(Base(n)) \in Nat
      BY <2>3, <2>4, LenProperties
    <3>2. /\ Base(n) \o s \in Seq(Name) /\ Len(Base(n) \o s) = Len(Base(n)) + Len(s)
          /\ \A y \in 1..(Len(Base(n)) + Len(s)) :
               (Base(n) \o s)[y] = IF y <= Len(Base(n)) THEN Base(n)[y]
                                   ELSE s[y - Len(Base(n))]
      BY <2>3, <2>4, ConcatProperties
    <3>3. DOMAIN (Base(n) \o s) = 1..(Len(Base(n)) + Len(s))
      BY <3>2, LenProperties
    <3>4. QED BY <2>6, <3>1, <3>2, <3>3
  <2>8. QED BY <1>4, <2>3, <2>4, <2>7 DEF InPlace
<1>5. QED BY <1>3, <1>4

\* So a line tells of a rep that doreps has come to.
LEMMA LinesKept == Spec => [](Kept /\ LinesInv)
<1>1. Kept /\ LinesInv /\ [Next]_allVars => LinesInv'
  BY LinesStep DEF Kept
<1>2. QED BY <1>1, LinesInit, PlacesKept, PTL DEF Spec

\* Of every rep doreps has come to: it has been carried out, or listed as not.
Told == handler # "breakout" =>
          \A r \in Live \ Left : InPlace(r) \/ \E l \in lines : l.rep = r /\ ~l.done

Truthful == (IsMove => PlainTargets) => DoneTrue /\ Told

\* What a line says stays true when other reps are carried out.
LEMMA TruthStep ==
  Kept /\ Kept' /\ LinesInv /\ LinesInv' /\ Truthful /\ [Next]_allVars => Truthful'
<1> SUFFICES ASSUME Kept, Kept', LinesInv, LinesInv', Truthful, [Next]_allVars,
                    (IsMove => PlainTargets)'
             PROVE  DoneTrue' /\ Told'
  BY DEF Truthful
<1>1. (Kept /\ Well /\ (IsMove => PlainTargets) => \A r \in Done : InPlace(r))'
  BY DoneInPlace, PTL
<1>2. HomeInv' /\ ProgressInv' /\ RunInv /\ ProgressInv
  BY DEF Kept
<1>3. CASE handler' = "breakout"
  BY <1>2, <1>3 DEF HomeInv, DoneTrue, Told
<1>4. CASE Well'
  <2>1. \A r \in Done' : InPlace(r)'
    BY <1>1, <1>4
  <2>2. Live' \ Left' \subseteq Done'
    BY DEF Done
  <2>3. \A l \in lines' : l.rep \in Live' /\ (l.done => l.rep \notin Left')
    BY <1>4 DEF LinesInv, Well
  <2>4. QED BY <2>1, <2>2, <2>3 DEF DoneTrue, Told
<1>5. CASE StartDoreps
  <2>1. lines' = {} /\ Done' = {}
    BY <1>2, <1>5, NothingDone
  <2>2. Live' \ Left' \subseteq Done'
    BY DEF Done
  <2>3. QED BY <2>1, <2>2 DEF DoneTrue, Told
<1>6. CASE handler' # "breakout" /\ noex' /\ ~StartDoreps
  <2>1. /\ handler # "breakout" /\ (IsMove => PlainTargets)
        /\ UNCHANGED <<job, repVars>> /\ (UNCHANGED fs \/ Undoes)
    BY <1>6, BrokenBefore
  <2>2. Live' = Live /\ job' = job
    BY <2>1, SamePlan
  <2>3. \A r : InPlace(r) => InPlace(r)'
    BY <2>1, <2>2, RemovalInPlace
  <2>4. DoneTrue /\ Told
    BY <2>1 DEF Truthful
  <2>5. CASE PrintLine
    <3>1. /\ pc = "print" /\ UNCHANGED noex
          /\ Prints => lines' = lines \cup {[rep |-> cur, from |-> PrintedFrom,
                                             done |-> DoneMark]}
      BY <2>5 DEF PrintLine
    <3>2. noex = TRUE
      BY <1>2, <1>6, <3>1 DEF ProgressInv
    <3>3. lines' = lines \cup {[rep |-> cur, from |-> PrintedFrom, done |-> FALSE]}
      BY <3>1, <3>2 DEF Prints, DoneMark
    <3>4. Left' = Left \ {cur}
      BY <1>2, <2>5, PrintLeaves
    <3>5. DoneTrue'
      BY <2>3, <2>4, <3>3 DEF DoneTrue
    <3>6. Told'
      <4> DEFINE new == [rep |-> cur, from |-> PrintedFrom, done |-> FALSE]
      <4>1. ASSUME NEW r \in Live' \ Left'
            PROVE  InPlace(r)' \/ \E l \in lines' : l.rep = r /\ ~l.done
        <5>1. CASE r = cur
          <6>1. new \in lines' /\ new.rep = r /\ ~new.done
            BY <3>3, <5>1
          <6>2. QED BY <6>1
        <5>2. CASE r # cur
          <6>1. r \in Live \ Left
            BY <2>2, <3>4, <4>1, <5>2
          <6>2. InPlace(r) \/ \E l \in lines : l.rep = r /\ ~l.done
            BY <2>1, <2>4, <6>1 DEF Told
          <6>3. QED BY <2>3, <3>3, <6>2
        <5>3. QED BY <5>1, <5>2
      <4>2. QED BY <4>1 DEF Told
    <3>7. QED BY <3>5, <3>6
  <2>6. CASE ~PrintLine
    <3>1. lines' = lines /\ Left' = Left
      <4>1. CASE Doing \/ Signal
        BY <1>2, <1>6, <2>6, <4>1, OthersQuiet DEF Doing, Signal
      <4>2. CASE Planning \/ Interrupt
        <5>1. pc \in PlanPhases
          BY <4>2, InPlanning DEF Planning, Interrupt
        <5>2. QED BY <1>2, <2>1, <5>1 DEF RunInv, DoInit
      <4>3. CASE UNCHANGED allVars
        BY <4>3, SamePlan, <2>1 DEF allVars, doVars, Left, repVars
      <4>4. QED BY <4>1, <4>2, <4>3 DEF Next
    <3>2. QED BY <2>1, <2>2, <2>3, <2>4, <3>1 DEF DoneTrue, Told
  <2>7. QED BY <2>5, <2>6
<1>7. noex' \in BOOLEAN
  BY <1>2 DEF ProgressInv
<1>8. QED BY <1>3, <1>4, <1>5, <1>6, <1>7 DEF Well

\* So lines are true in every state.
LEMMA TruthKept == Spec => [](Kept /\ Truthful)
<1>1. Init => Truthful
  BY DEF Init, DoInit, Truthful, DoneTrue, Told
<1>2. QED BY <1>1, TruthStep, LinesKept, PTL DEF Spec

\* A line that ends in ": done" is true, and stays so to the end, whatever
\* fails later.
THEOREM DoneLinesTrue == Spec => []((IsMove => PlainTargets) => DoneTrue)
<1>1. Truthful => ((IsMove => PlainTargets) => DoneTrue)
  BY DEF Truthful
<1>2. QED BY <1>1, TruthKept, PTL

\* When mmv ends with status 2, after a failure or a break, each pair of the
\* plan has been carried out or is in the list of those left undone.
THEOREM UndoneAllListed == Spec => []((IsMove => PlainTargets) => UndoneComplete)
<1>1. Kept /\ Truthful => ((IsMove => PlainTargets) => UndoneComplete)
  <2> SUFFICES ASSUME Kept, DoneTrue, Told, pc = "exit", status = 2, NEW r \in Live
               PROVE  InPlace(r) \/ \E l \in lines : l.rep = r /\ ~l.done
    BY DEF Truthful, UndoneComplete
  <2>1. handler # "breakout" /\ Left = {}
    BY DEF Kept, ProgressInv
  <2>2. QED BY <2>1 DEF Told
<1>2. QED BY <1>1, TruthKept, PTL
-----------------------------------------------------------------------------
(***************************************************************************)
(* What is left undone after a move has failed can be done by another mmv. *)
(***************************************************************************)
\* The name under which doreps is going to list rep r as left undone.
Named(r) == IF cur # Nil /\ r \in Chain(list[hd]) /\ r \in aliased /\ printaliased
            THEN Temp(r) ELSE r

\* The rep whose file the head of its cycle was to put aside when it failed.
Excused(r) == broken \in cycle /\ job.to[broken] = r

BrokenInv == IsMove /\ failed =>
               \A r \in Left : fs[Named(r)] = <<r>> \/ Excused(r)

\* The rep whose failure turns doreps to the report.
LEMMA Breaking ==
  ASSUME Kept, Well, IsMove, PlainTargets, UserBreak \/ Call, ~noex, noex'
  PROVE  BrokenInv'
<1>1. /\ RunInv /\ ProgressInv /\ ExecInv /\ ~IsAppend
      /\ pc \in RepPhases /\ pc # "print"
      /\ UNCHANGED <<job, repVars, hd, cur>> /\ Snap
      /\ ~PrintLine /\ ~StartDoreps
  <2>1. ~IsAppend
    BY DEF IsMove, IsAppend, MoveOps, AppendOps
  <2>2. CASE UserBreak
    BY <2>1, <2>2
       DEF Kept, UserBreak, calm, RepPhases, WritingPhases, PrintLine, StartDoreps
  <2>3. CASE Call
    <3>1. pc \in WritingPhases /\ UNCHANGED <<job, repVars, hd, cur>> /\ (Snap \/ NoSnap)
      BY <2>3, CallFacts
    <3>2. ~NoSnap
      BY DEF NoSnap
    <3>3. QED
      BY <2>1, <3>1, <3>2 DEF Kept, RepPhases, WritingPhases, PrintLine, StartDoreps
  <2>4. QED BY <2>2, <2>3
<1>2. broken' = cur /\ printaliased' = (list[hd] # cur)
  BY <1>1 DEF Snap, PrintAlias
<1>3. UNCHANGED fs \/ Undoes
  <2>1. CASE UserBreak
    BY <2>1 DEF UserBreak
  <2>2. CASE Call
    BY <2>2, FailKeeps
  <2>3. QED BY <2>1, <2>2
<1>4. alias' = alias \/ cur = list[hd]
  <2>1. CASE MoveAlias
    BY <1>1, <2>1 DEF MoveAlias, RunInv
  <2>2. CASE ~MoveAlias
    BY <2>2 DEF UserBreak, Call, AppendAlias, UnlinkOld, Rename, Link, CopyOpen,
                CopyData, UnlinkSource
  <2>3. QED BY <2>1, <2>2
<1>5. Left' = Left
  BY <1>1, LeftStays DEF DoStep, Call
<1>6. /\ UNCHANGED <<list, cycle, aliased, Live>>
      /\ \A h : Chain(h)' = Chain(h)
  BY <1>1, SamePlan DEF repVars
<1>7. Standing
  BY <1>1 DEF Kept, PlaceInv
<1>8. /\ Left \subseteq Live /\ Live \subseteq Name /\ PlanStands /\ list[hd] \in Heads
      /\ cur # Nil /\ Done = Live \ Left /\ Threads /\ Heads \subseteq Sources
      /\ Live \subseteq Sources /\ Sources \subseteq Name
  BY <1>1, LeftLive, PlanFrame, RepNames, NameAssumption DEF Done, Well
<1>9. ASSUME NEW n \in Name, NEW r, fs[n] = <<r>> PROVE fs'[n] = <<r>>
  <2>1. CASE UNCHANGED fs
    BY <1>9, <2>1
  <2>2. CASE Undoes
    <3>1. << >> # <<r>>
      OBVIOUS
    <3>2. fs'[n] = fs[n]
      <4>1. n # To
        BY <1>9, <2>2, <3>1 DEF Undoes
      <4>2. QED BY <2>2, <4>1 DEF Undoes
    <3>3. QED BY <1>9, <3>2
  <2>3. QED BY <1>3, <2>1, <2>2
<1>10. ASSUME NEW r \in Left
       PROVE  fs'[Named(r)'] = <<r>> \/ Excused(r)'
  <2>1. CASE r \in Aside
    <3>1. Turned /\ r = job.to[list[hd]] /\ r \in aliased /\ r \in Chain(list[hd])
      BY <1>1, <2>1, AsideFacts
    <3>2. CASE cur = list[hd]
      BY <1>1, <1>2, <1>6, <3>1, <3>2 DEF Excused, Turned
    <3>3. CASE cur # list[hd]
      <4>1. Named(r)' = Temp(r)
        BY <1>1, <1>2, <1>4, <1>6, <1>8, <3>1, <3>3 DEF Named, Temp
      <4>2. fs[Temp(r)] = <<r>> /\ Temp(r) \in Name
        BY <1>7, <2>1 DEF Standing
      <4>3. QED BY <1>9, <4>1, <4>2
    <3>4. QED BY <3>2, <3>3
  <2>2. CASE r \notin Aside
    <3>1. fs[r] = <<r>> /\ r \in Name
      BY <1>1, <1>7, <1>8, <2>2, StillHome
    <3>2. r \in aliased /\ r \in Chain(list[hd]) => cur = list[hd]
      <4>1. SUFFICES ASSUME r \in aliased, r \in Chain(list[hd]), cur # list[hd]
                     PROVE  FALSE
        OBVIOUS
      <4>2. PICK h \in cycle \cap Heads : job.to[h] = r /\ r \in Chain(h)
        BY <1>8, <4>1 DEF PlanStands, HandedMoves
      <4>3. h = list[hd]
        BY <1>8, <4>1, <4>2, ChainsApart DEF PlanStands
      <4>4. Turned
        BY <1>1, <4>1, <4>2, <4>3 DEF Turned
      <4>5. QED BY <1>8, <2>2, <4>2, <4>3, <4>4 DEF Aside
    <3>3. Named(r)' = r
      BY <1>1, <1>2, <1>6, <3>2 DEF Named
    <3>4. QED BY <1>9, <3>1, <3>3
  <2>3. QED BY <2>1, <2>2
<1>11. QED BY <1>5, <1>10 DEF BrokenInv

\* What is left when a chain is over is in other chains.
LEMMA ChainOver ==
  ASSUME RunInv, pc = "print", thendo[cur] = Nil, NEW r \in Left, r # cur
  PROVE  r \notin Chain(list[hd])
<1>1. /\ handler # "breakout" /\ cur # Nil /\ hd \in 1..Len(list) /\ cur \in Chain(list[hd])
      /\ PlanStands
  BY DEF RunInv, RepPhases
<1>2. /\ list[hd] \in Heads /\ cur \in Sources /\ Threads /\ Sources \subseteq Name
      /\ Heads \subseteq Sources
  BY <1>1, AtRep, PlanFrame
<1>3. r \notin Chain(cur)
  <2>1. Closed({cur})
    BY DEF Closed
  <2>2. QED BY <1>2, <2>1, ChainLeast
<1>4. PICK h \in Heads : r \in Chain(h) /\ cur \notin Chain(h)
  BY <1>1, <1>3, LeftIn
<1>5. SUFFICES ASSUME r \in Chain(list[hd]) PROVE FALSE
  OBVIOUS
<1>6. QED BY <1>1, <1>2, <1>4, <1>5, ChainsApart DEF PlanStands

\* The name a rep is listed by does not change before it is listed.
LEMMA NamedStays ==
  ASSUME RunInv, ProgressInv, DoStep \/ Sigint, failed, handler # "breakout",
         NEW r \in Left'
  PROVE  r \in Left /\ Named(r)' = Named(r) /\ UNCHANGED broken
<1>1. noex /\ pc \notin WritingPhases /\ ~StartDoreps /\ ~Call
  <2>1. noex /\ pc \notin WritingPhases
    BY DEF ProgressInv
  <2>2. ~StartDoreps
    BY DEF StartDoreps, RunInv, DoInit
  <2>3. QED BY <2>1, <2>2, CallFacts
<1>2. /\ UNCHANGED <<job, list, cycle, aliased, Live>>
      /\ \A h : Chain(h)' = Chain(h)
  BY DoingSamePlan, SamePlan DEF repVars
<1>3. \/ NextChain \/ BreakPrinting \/ StartRep \/ PrintLine \/ ChainsEnd \/ Sigint
  BY <1>1 DEF DoStep, Call, UserBreak
<1>4. UNCHANGED <<alias, broken>> /\ \A x : Temp(x)' = Temp(x)
  BY <1>3 DEF NextChain, BreakPrinting, StartRep, PrintLine, ChainsEnd, Sigint, doVars, Temp
<1>5. CASE BreakPrinting \/ StartRep \/ ChainsEnd \/ Sigint
  <2>1. UNCHANGED <<hd, cur, printaliased>>
    BY <1>5 DEF BreakPrinting, StartRep, ChainsEnd, Sigint, doVars
  <2>2. Left' = Left
    BY <1>2, <2>1 DEF Left
  <2>3. QED BY <1>2, <1>4, <2>1, <2>2 DEF Named
<1>6. CASE NextChain
  <2>1. pc = "chain" /\ printaliased' = FALSE
    BY <1>6 DEF NextChain
  <2>2. cur = Nil
    BY <2>1 DEF RunInv
  <2>3. Left' = Left
    BY <1>6, <2>1, LeftStays DEF DoStep, PrintLine, StartDoreps
  <2>4. QED BY <1>4, <2>1, <2>2, <2>3 DEF Named
<1>7. CASE PrintLine
  <2>1. /\ pc = "print" /\ printaliased' = printaliased
        /\ IF thendo[cur] # Nil THEN cur' = thendo[cur] /\ hd' = hd
           ELSE cur' = Nil /\ hd' = hd + 1
    BY <1>7 DEF PrintLine, ChainGoesOn
  <2>2. Left' = Left \ {cur} /\ cur # Nil
    BY <1>7, <2>1, PrintLeaves DEF RunInv, RepPhases
  <2>3. CASE thendo[cur] # Nil
    BY <1>2, <1>4, <2>1, <2>2, <2>3 DEF Named
  <2>4. CASE thendo[cur] = Nil
    <3>1. r \in Left /\ r # cur
      BY <2>2
    <3>2. r \notin Chain(list[hd])
      BY <2>1, <2>4, <3>1, ChainOver
    <3>3. QED BY <1>4, <2>1, <2>4, <3>1, <3>2 DEF Named
  <2>5. QED BY <2>3, <2>4
<1>8. QED BY <1>3, <1>5, <1>6, <1>7

Rerun == (IsMove => PlainTargets) => BrokenInv /\ UndoneRerunnable

\* The line of a rep left undone names its file.
LEMMA PrintsName ==
  ASSUME RunInv, ProgressInv, IsMove, failed, PrintLine
  PROVE  /\ lines' = lines \cup {[rep |-> cur, from |-> Named(cur), done |-> FALSE]}
         /\ cur \in Left
<1>1. /\ pc = "print"
      /\ Prints => lines' = lines \cup {[rep |-> cur, from |-> PrintedFrom,
                                         done |-> DoneMark]}
  BY DEF PrintLine
<1>2. noex = TRUE
  BY DEF ProgressInv
<1>3. cur # Nil /\ cur \in Chain(list[hd]) /\ handler # "breakout"
  BY <1>1 DEF RunInv, RepPhases
<1>4. cur \in Left
  BY <1>3, LeftLive
<1>5. ~IsAppend
  BY DEF IsMove, IsAppend, MoveOps, AppendOps
<1>6. PrintedFrom = Named(cur)
  BY <1>3, <1>5 DEF PrintedFrom, Named, From, UsesAlias, Temp
<1>7. QED BY <1>1, <1>2, <1>4, <1>6 DEF Prints, DoneMark

\* What is listed as undone stays where its line says.
LEMMA RerunStep ==
  Kept /\ Kept' /\ LinesInv /\ LinesInv' /\ Rerun /\ [Next]_allVars => Rerun'
<1> SUFFICES ASSUME Kept, Kept', LinesInv, LinesInv', Rerun, [Next]_allVars,
                    (IsMove => PlainTargets)'
             PROVE  BrokenInv' /\ UndoneRerunnable'
  BY DEF Rerun
<1>1. RunInv /\ ProgressInv /\ ProgressInv' /\ HomeInv'
  BY DEF Kept
<1>2. CASE ~failed'
  <2>1. handler' # "breakout" => \A l \in lines' : ~l.done => job'.noex
    BY <1>2 DEF LinesInv
  <2>2. handler' = "breakout" => lines' = {}
    BY <1>1 DEF HomeInv
  <2>3. UndoneRerunnable'
    BY <2>1, <2>2 DEF UndoneRerunnable
  <2>4. QED BY <1>2, <2>3 DEF BrokenInv
<1>3. CASE failed' /\ ~IsMove'
  BY <1>3 DEF BrokenInv, UndoneRerunnable
<1>4. CASE failed' /\ IsMove'
  <2>1. handler' # "breakout" /\ noex'
    BY <1>1, <1>4 DEF ProgressInv
  <2>2. ~StartDoreps
    BY <1>1, <1>4 DEF StartDoreps, ProgressInv, RunInv, DoInit
  <2>3. /\ handler # "breakout" /\ (IsMove => PlainTargets)
        /\ UNCHANGED <<job, repVars>> /\ (UNCHANGED fs \/ Undoes)
    BY <2>1, <2>2, BrokenBefore
  <2>4. /\ IsMove /\ PlainTargets /\ job' = job /\ Live' = Live
        /\ UNCHANGED <<list, cycle, aliased>>
    BY <1>4, <2>3, SamePlan DEF repVars
  <2>5. BrokenInv /\ UndoneRerunnable
    BY <2>4 DEF Rerun
  <2>6. CASE ~failed
    <3>1. handler = "breakrep"
      BY <1>1, <2>3, <2>6 DEF ProgressInv
    <3>2. UserBreak \/ Call
      BY <1>4, <2>2, <2>3, <2>6, InPlanning
         DEF Next, Planning, Interrupt, Doing, Signal, DoStep, Call, StartDoreps,
             NextChain, BreakPrinting, StartRep, PrintLine, ChainsEnd, Sigint,
             allVars, doVars
    <3>3. ~noex
      <4>1. CASE UserBreak
        BY <4>1 DEF UserBreak
      <4>2. CASE Call
        BY <1>1, <4>2, CallFacts DEF ProgressInv
      <4>3. QED BY <3>2, <4>1, <4>2
    <3>4. BrokenInv'
      BY <2>1, <2>3, <2>4, <3>2, <3>3, Breaking DEF Well
    <3>5. lines' = lines
      BY <3>2, CallFacts DEF UserBreak
    <3>6. ~job.noex => \A l \in lines : l.done
      BY <1>1, <2>3, <2>6 DEF LinesInv
    <3>7. UndoneRerunnable'
      BY <2>4, <3>5, <3>6 DEF UndoneRerunnable
    <3>8. QED BY <3>4, <3>7
  <2>7. CASE failed
    <3>1. UNCHANGED fs
      <4>1. noex /\ pc # "copying"
        BY <1>1, <2>7 DEF ProgressInv, WritingPhases
      <4>2. QED BY <2>3, <4>1 DEF Undoes
    <3>2. CASE UNCHANGED allVars
      <4>1. UNCHANGED doVars
        BY <3>2 DEF allVars
      <4>2. /\ \A h : Chain(h)' = Chain(h)
            /\ UNCHANGED <<job, list, cycle, aliased>>
        BY <2>3, SamePlan DEF repVars
      <4>3. /\ Left' = Left /\ \A r : Named(r)' = Named(r)
        BY <4>1, <4>2 DEF Left, Named, Temp, doVars
      <4>4. QED
        BY <2>4, <2>5, <2>7, <4>1, <4>3
           DEF BrokenInv, UndoneRerunnable, Excused, doVars
    <3>3. CASE Doing \/ Signal
      <4>1. DoStep \/ Sigint
        BY <3>3 DEF Doing, Signal
      <4>2. /\ \A r \in Left' : r \in Left /\ Named(r)' = Named(r)
            /\ Left' # {} => UNCHANGED broken
        BY <1>1, <2>3, <2>7, <4>1, NamedStays
      <4>3. broken' = broken
        <5>1. noex /\ pc \notin WritingPhases
          BY <1>1, <2>7 DEF ProgressInv
        <5>2. ~Call
          BY <5>1, CallFacts
        <5>3. QED
          BY <4>1, <5>1, <5>2
             DEF DoStep, Call, StartDoreps, NextChain, UserBreak, BreakPrinting,
                 StartRep, PrintLine, ChainsEnd, Sigint, doVars
      <4>4. \A r : Excused(r)' <=> Excused(r)
        BY <2>4, <4>3 DEF Excused
      <4>5. BrokenInv'
        BY <2>4, <2>5, <2>7, <3>1, <4>2, <4>4 DEF BrokenInv
      <4>6. UndoneRerunnable'
        <5>1. ~job.noex => \A l \in lines : ~l.done =>
                 fs[l.from] = <<l.rep>> \/ Excused(l.rep)
          BY <2>4, <2>5 DEF UndoneRerunnable, Excused
        <5>2. ~job.noex => \A l \in lines' : ~l.done =>
                 fs[l.from] = <<l.rep>> \/ Excused(l.rep)
          <6>1. CASE PrintLine
            <7>1. /\ lines' = lines \cup {[rep |-> cur, from |-> Named(cur), done |-> FALSE]}
                  /\ cur \in Left
              BY <1>1, <2>4, <2>7, <6>1, PrintsName
            <7>2. fs[Named(cur)] = <<cur>> \/ Excused(cur)
              BY <2>4, <2>5, <2>7, <7>1 DEF BrokenInv
            <7>3. QED BY <5>1, <7>1, <7>2
          <6>2. CASE ~PrintLine
            BY <1>1, <2>2, <4>1, <5>1, <6>2, OthersQuiet
          <6>3. QED BY <6>1, <6>2
        <5>3. \A r : Excused(r) <=> (broken \in cycle /\ job.to[broken] = r)
          BY DEF Excused
        <5>4. QED BY <2>4, <3>1, <4>3, <5>2, <5>3 DEF UndoneRerunnable
      <4>7. QED BY <4>5, <4>6
    <3>4. CASE Planning \/ Interrupt
      <4>1. pc \in PlanPhases
        BY <3>4, InPlanning DEF Planning, Interrupt
      <4>2. QED BY <1>1, <2>3, <4>1 DEF RunInv, DoInit
    <3>5. QED BY <3>2, <3>3, <3>4 DEF Next
  <2>8. QED BY <2>6, <2>7
<1>5. QED BY <1>2, <1>3, <1>4

\* After a failure or a break, each line of "The following left undone:" names
\* the file where it is, so that another mmv can be fed it; but not the one
\* line of the file that the head of a cycle was about when it failed.
THEOREM UndoneCanRerun == Spec => []((IsMove => PlainTargets) => UndoneRerunnable)
<1>1. Init => Rerun
  BY DEF Init, DoInit, Rerun, BrokenInv, UndoneRerunnable
<1>2. Rerun => ((IsMove => PlainTargets) => UndoneRerunnable)
  BY DEF Rerun
<1>3. QED BY <1>1, <1>2, RerunStep, LinesKept, PTL DEF Spec
-----------------------------------------------------------------------------
(***************************************************************************)
(* Doing keeps the promise of MmvBulk as well: seen from outside, every    *)
(* step of doreps brings one file to its new name, deletes one that is     *)
(* replaced, puts one of a cycle aside, or changes nothing.                *)
(***************************************************************************)
Where   == [f \in job.files |-> Whereabouts(f)]
Outcome == IF noex \/ (pc = "exit" /\ handler # "breakrep") THEN "broken"
           ELSE IF pc = "exit" THEN "complete" ELSE "running"

\* doreps moves, copies or links, and all goes well.
Going == Kept /\ Well /\ ~IsAppend /\ (IsMove => PlainTargets)

\* Where the whereabouts come from: what is done is at its target, what is put
\* aside under the temporary name, the rest of the plan at home; a file that is
\* not in the plan is where it was, or gone.
At(f) == IF f \in Done /\ IsMove THEN job.to[f]
         ELSE IF f \in Aside /\ ~(pc = "unlinksrc" /\ f = cur /\ f = To) THEN Temp(f)
         ELSE IF f \in Live \/ fs[f] = <<f>> THEN f ELSE Nil

\* What is known while all goes well.
LEMMA GoingFacts ==
  ASSUME Going
  PROVE  /\ RunInv /\ ProgressInv /\ ExecInv /\ Well /\ ~IsAppend /\ Standing
         /\ (IsMove => PlainTargets) /\ handler = "breakrep"
         /\ PlanStands /\ Handed /\ Live \subseteq Sources /\ Sources \subseteq job.files
         /\ job.files \subseteq Name /\ Done \subseteq Live /\ Aside \subseteq Live
         /\ Done \cap Aside = {}
         /\ \A r \in Live : job.to[r] \in Name
         /\ Nil \notin Name /\ Temps \subseteq Name /\ (IsMove \/ CopyOrLink)
         /\ fs \in [Name -> Content \cup {Absent}]
<1>1. /\ RunInv /\ ProgressInv /\ ExecInv /\ Well /\ ~IsAppend /\ Standing
      /\ (IsMove => PlainTargets)
  BY DEF Going, Kept, PlaceInv
<1>2. handler = "breakrep"
  BY <1>1 DEF ProgressInv, Well
<1>3. Aside \subseteq Live /\ Done \subseteq Live /\ Done \cap Aside = {}
  BY <1>1, AsideFacts, DoneFacts
<1>4. /\ PlanStands /\ Handed /\ Live \subseteq Sources /\ Sources \subseteq job.files
      /\ job.files \subseteq Name /\ \A r \in Live : job.to[r] \in Name
      /\ IsMove \/ CopyOrLink
  BY <1>1, PlanFrame DEF Well, Handed, Job, Ops, CopyOrLink, IsMove, IsAppend
<1>5. Temps \subseteq Name
  BY TempAssumption DEF Temps
<1>6. fs \in [Name -> Content \cup {Absent}]
  BY <1>1 DEF ExecInv, ExecTypeOK, Content
<1>7. QED BY <1>1, <1>2, <1>3, <1>4, <1>5, <1>6, NameAssumption

\* A name that is known to hold one file.
LEMMA HoldsThat ==
  ASSUME ~IsAppend, fs \in [Name -> Content \cup {Absent}], NEW f \in Name, NEW n \in Name
  PROVE  Holds(n, f) <=> fs[n] = <<f>>
<1>1. fs[n] = <<f>> => Holds(n, f)
  BY HoldsOne
<1>2. ASSUME Holds(n, f) PROVE fs[n] = <<f>>
  <2>1. fs[n] \in Seq(Name \cup {Nil}) /\ Len(fs[n]) = 1 /\ fs[n][1] = f
    BY <1>2 DEF Holds, Content
  <2>2. QED BY <2>1
<1>3. QED BY <1>1, <1>2

\* All the names under which a file can be found.
LEMMA FoundAt ==
  ASSUME Going, NEW n \in Name, NEW f \in Name, fs[n] = <<f>>
  PROVE  \/ n = f /\ (IsMove => f \notin Done \cup Aside)
         \/ f \in Done /\ n = job.to[f]
         \/ f \in Aside /\ n = Temp(f)
         \/ pc = "unlinksrc" /\ f = cur /\ n = To
<1>1. Standing /\ Done \subseteq Live
  BY GoingFacts
<1>2. <<f>> # Absent /\ <<f>> # << >> /\ \A g : <<g>> = <<f>> => g = f
  BY OneFile
<1>3. Original[n] = <<f>> => n = f
  BY <1>2 DEF Original
<1>4. CASE n \in Targets(Done)
  BY <1>1, <1>2, <1>4 DEF Targets, Standing
<1>5. CASE n \in {Temp(r) : r \in Aside}
  BY <1>1, <1>2, <1>5 DEF Standing
<1>6. CASE n \in Busy
  <2>1. n = To /\ pc \in {"transfer", "copying", "unlinksrc"}
    BY <1>6 DEF Busy
  <2>2. CASE pc = "transfer"
    <3>1. fs[n] = IF Overwrites THEN Original[n] ELSE Absent
      BY <1>1, <2>1, <2>2 DEF Standing
    <3>2. Overwrites => ~IsMove
      BY DEF Overwrites, IsMove, MoveOps, AppendOps
    <3>3. QED BY <1>2, <1>3, <3>1, <3>2
  <2>3. CASE pc = "copying"
    BY <1>1, <1>2, <2>1, <2>3 DEF Standing
  <2>4. CASE pc = "unlinksrc"
    BY <1>1, <1>2, <2>1, <2>4 DEF Standing
  <2>5. QED BY <2>1, <2>2, <2>3, <2>4
<1>7. CASE n \notin Targets(Done) \cup {Temp(r) : r \in Aside} \cup Busy
  <2>1. fs[n] = Was(n)
    BY <1>1, <1>7 DEF Standing
  <2>2. QED BY <1>2, <1>3, <2>1 DEF Was
<1>8. QED BY <1>4, <1>5, <1>6, <1>7

\* So that is where a file is.
LEMMA WhereIs ==
  ASSUME Going, NEW f \in job.files
  PROVE  Whereabouts(f) = At(f)
<1>1. /\ RunInv /\ ProgressInv /\ Well /\ ~IsAppend /\ Standing /\ f \in Name
      /\ Done \subseteq Live /\ Aside \subseteq Live /\ Live \subseteq Sources
      /\ Done \cap Aside = {} /\ Temps \subseteq Name
      /\ (IsMove => PlainTargets) /\ \A r \in Live : job.to[r] \in Name
  BY GoingFacts
<1>2. \A n \in Name : Holds(n, f) <=> fs[n] = <<f>>
  BY HoldsThat, GoingFacts
<1>3. pc = "unlinksrc" => /\ IsMove /\ fs[To] = <<cur>> /\ cur \in Live /\ cur \notin Done
                          /\ To = job.to[cur]
  BY <1>1, FromIs DEF Standing, MovePhases, To
<1>4. CASE f \in Done /\ IsMove
  <2>1. Holds(job.to[f], f) /\ job.to[f] \notin Temps /\ f \in Live
    BY <1>1, <1>2, <1>4 DEF Standing, PlainTargets
  <2>2. \A n \in Name : Holds(n, f) => n = job.to[f]
    BY <1>1, <1>2, <1>3, <1>4, FoundAt
  <2>3. At(f) = job.to[f]
    BY <1>4 DEF At
  <2>4. CASE job.to[f] = f
    BY <2>1, <2>3, <2>4 DEF Whereabouts
  <2>5. CASE job.to[f] # f
    <3>1. ~Holds(f, f) /\ ~\E t \in Temps : Holds(t, f)
      BY <1>1, <2>1, <2>2, <2>5
    <3>2. QED BY <2>1, <2>3, <3>1 DEF Whereabouts
  <2>6. QED BY <2>4, <2>5
<1>5. CASE f \in Aside /\ ~(pc = "unlinksrc" /\ f = cur /\ f = To)
  <2>1. /\ Holds(Temp(f), f) /\ Temp(f) \in Temps /\ Temp(f) # f /\ IsMove
    BY <1>1, <1>2, <1>5, AsideFacts DEF Standing
  <2>2. \A n \in Name : Holds(n, f) => n = Temp(f) \/ (pc = "unlinksrc" /\ f = cur /\ n = To)
    BY <1>1, <1>2, <1>5, <2>1, FoundAt
  <2>3. pc = "unlinksrc" => To \notin Temps
    BY <1>1, <1>3 DEF PlainTargets
  <2>4. ~Holds(f, f)
    BY <1>1, <1>5, <2>1, <2>2
  <2>5. \A t \in Temps : Holds(t, f) => t = Temp(f)
    BY <1>1, <2>2, <2>3
  <2>6. (CHOOSE t \in Temps : Holds(t, f)) = Temp(f)
    BY <2>1, <2>5
  <2>7. At(f) = Temp(f)
    BY <1>1, <1>5 DEF At
  <2>8. QED BY <2>1, <2>4, <2>6, <2>7 DEF Whereabouts
<1>6. CASE f \in Live /\ ~(f \in Done /\ IsMove)
           /\ ~(f \in Aside /\ ~(pc = "unlinksrc" /\ f = cur /\ f = To))
  <2>1. At(f) = f
    BY <1>6 DEF At
  <2>2. CASE ~IsMove \/ f \notin Done \cup Aside
    <3>1. fs[f] = <<f>>
      BY <1>1, <1>6, <2>2, StillHome
    <3>2. QED BY <1>1, <1>2, <2>1, <3>1 DEF Whereabouts
  <2>3. CASE IsMove /\ f \in Aside
    <3>1. fs[f] = <<f>>
      BY <1>3, <1>6, <2>3
    <3>2. QED BY <1>1, <1>2, <2>1, <3>1 DEF Whereabouts
  <2>4. QED BY <1>6, <2>2, <2>3
<1>7. CASE f \notin Live
  <2>1. f \notin Done /\ f \notin Aside
    BY <1>1, <1>7
  <2>2. \A n \in Name : Holds(n, f) => n = f
    BY <1>1, <1>2, <1>3, <1>7, <2>1, FoundAt
  <2>3. CASE fs[f] = <<f>>
    BY <1>1, <1>2, <2>1, <2>3 DEF Whereabouts, At
  <2>4. CASE fs[f] # <<f>>
    <3>1. ~Holds(f, f) /\ ~\E t \in Temps : Holds(t, f)
      BY <1>1, <1>2, <2>2, <2>4
    <3>2. QED BY <1>7, <2>1, <2>4, <3>1 DEF Whereabouts, At
  <2>5. QED BY <2>3, <2>4
<1>8. QED BY <1>4, <1>5, <1>6, <1>7

\* The same of all the files at once.
LEMMA EachIs == Going => \A f \in job.files : Whereabouts(f) = At(f)
BY WhereIs

\* The file of the rep at hand, on its way.
Halfway == pc = "unlinksrc" /\ cur \in Aside /\ cur = To

\* Nobody is where a file is about to be moved.
LEMMA ToVacant ==
  ASSUME Going, IsMove, pc \in {"transfer", "copying", "unlinksrc"}, ~Halfway,
         NEW f \in job.files
  PROVE  At(f) # To
<1>1. /\ RunInv /\ ProgressInv /\ ExecInv /\ Well /\ ~IsAppend /\ Standing
      /\ IsMove => PlainTargets
      /\ Nil \notin Name /\ Done \subseteq Live /\ f \in Name /\ f # Nil
  BY GoingFacts
<1>2. /\ cur \in Live /\ cur \in Name /\ To \in Name /\ To \notin Targets(Done)
      /\ \A r \in Aside : Temp(r) # To
  BY <1>1, Ready DEF MovePhases
<1>3. CASE f \in Done
  BY <1>2, <1>3 DEF At, Targets
<1>4. CASE f \notin Done /\ f \in Aside
  <2>1. ~(pc = "unlinksrc" /\ f = cur /\ f = To)
    BY <1>4 DEF Halfway
  <2>2. QED BY <1>2, <1>4, <2>1 DEF At
<1>5. CASE f \notin Done \cup Aside /\ f \in Live
  <2>1. f # To
    BY <1>1, <1>5, StillHome DEF MovePhases
  <2>2. QED BY <1>5, <2>1 DEF At
<1>6. CASE f \notin Done \cup Aside /\ f \notin Live
  <2>1. <<f>> # Absent /\ <<f>> # << >> /\ (<<f>> = <<cur>> => f = cur)
    BY <1>1, OneFile
  <2>2. ~Overwrites
    BY DEF Overwrites, IsMove, MoveOps, AppendOps
  <2>3. fs[To] = Absent \/ fs[To] = << >> \/ fs[To] = <<cur>>
    BY <1>1, <2>2 DEF Standing
  <2>4. f = To => fs[f] # <<f>>
    BY <1>2, <1>6, <2>1, <2>3
  <2>5. QED BY <1>1, <1>2, <1>6, <2>4 DEF At
<1>7. QED BY <1>3, <1>4, <1>5, <1>6

\* A system call that goes well.
Works == Going /\ Going' /\ Call /\ ~noex'

\* It leaves the plan and the place in it alone, and the run goes on.
LEMMA WorksFacts ==
  ASSUME Works
  PROVE  /\ UNCHANGED <<job, repVars, hd, cur, noex, handler, Left, Live, IsMove, To>>
         /\ ~Snap /\ pc \in WritingPhases
         /\ ~noex /\ Outcome = "running" /\ Outcome' = "running"
<1>1. /\ UNCHANGED <<job, repVars, hd, cur>> /\ pc \in WritingPhases /\ pc' \in RepPhases
      /\ NoSnap \/ Snap
  BY CallFacts DEF Works
<1>2. ~Snap
  BY DEF Snap, Works
<1>3. Left' = Left
  BY <1>1, LeftStays, GoingFacts DEF Works, Call, DoStep, PrintLine, StartDoreps, WritingPhases
<1>4. UNCHANGED <<noex, handler>> /\ ~noex
  BY <1>1, <1>2 DEF NoSnap, Works
<1>5. UNCHANGED <<Live, IsMove, To>>
  BY <1>1, SamePlan DEF To
<1>6. Outcome = "running" /\ Outcome' = "running"
  BY <1>1, <1>4 DEF Outcome, WritingPhases, RepPhases
<1>7. QED BY <1>1, <1>2, <1>3, <1>4, <1>5, <1>6

\* What such a call does to the plan's files, before the last one for a rep.
LEMMA OnTheWay ==
  ASSUME Works, pc \in MovePhases, pc' \in {"transfer", "copying", "unlinksrc"}, UNCHANGED alias
  PROVE  UNCHANGED <<Done, Aside>> /\ \A r : Temp(r)' = Temp(r)
<1>1. /\ UNCHANGED <<job, repVars, hd, cur, noex, handler, Left, Live, IsMove, To>> /\ ~noex
  BY WorksFacts
<1>2. UNCHANGED <<list, cycle>> /\ pc # "print" /\ pc' # "print"
  BY <1>1 DEF MovePhases, repVars
<1>3. Done' = Done
  BY <1>1, <1>2 DEF Done
<1>4. Turned' <=> Turned
  BY <1>1, <1>2 DEF Turned, MovePhases, RepPhases, WritingPhases
<1>5. Aside' = Aside
  BY <1>1, <1>2, <1>3, <1>4 DEF Aside
<1>6. QED BY <1>1, <1>3, <1>5 DEF Temp

\* With the last call for a rep it is done.
LEMMA AtItsEnd ==
  ASSUME Works, pc \in MovePhases, pc' = "print", UNCHANGED alias
  PROVE  Done' = Done \cup {cur} /\ Aside' = Aside \ {cur} /\ \A r : Temp(r)' = Temp(r)
<1>1. /\ UNCHANGED <<job, repVars, hd, cur, noex, handler, Left, Live, IsMove, To>> /\ ~noex
  BY WorksFacts
<1>2. UNCHANGED <<list, cycle>> /\ pc # "print"
  BY <1>1 DEF MovePhases, repVars
<1>3. Done' = Done \cup {cur}
  BY <1>1, <1>2 DEF Done
<1>4. Turned' <=> Turned
  BY <1>1, <1>2 DEF Turned, MovePhases, RepPhases, WritingPhases
<1>5. Aside' = Aside \ {cur}
  BY <1>1, <1>2, <1>3, <1>4 DEF Aside
<1>6. QED BY <1>1, <1>3, <1>5 DEF Temp

\* It moves no other file of the plan, and none outside it but the target's.
LEMMA OthersStay ==
  ASSUME Works, pc \in MovePhases,
         \/ UNCHANGED <<Done, Aside>>
         \/ Done' = Done \cup {cur} /\ Aside' = Aside \ {cur},
         \A r : Temp(r)' = Temp(r),
         \A n \in job.files : n # To /\ n \notin Live => fs'[n] = fs[n],
         NEW f \in job.files, f # cur, f \in Live \/ f # To
  PROVE  At(f)' = At(f)
<1>1. /\ UNCHANGED <<job, cur, Live, IsMove, To>>
  BY WorksFacts
<1>2. (f \in Done' <=> f \in Done) /\ (f \in Aside' <=> f \in Aside)
  OBVIOUS
<1>3. f \in Live \/ fs'[f] = fs[f]
  OBVIOUS
<1>4. QED BY <1>1, <1>2, <1>3 DEF At

\* Where the plan's file at hand is.
LEMMA AtHand ==
  ASSUME Going, pc \in MovePhases
  PROVE  /\ cur \in Live /\ cur \in job.files /\ cur \notin Done
         /\ ~IsMove => At(cur) = cur
         /\ At(cur) = IF cur \in Aside /\ ~Halfway THEN Temp(cur) ELSE cur
<1>1. /\ cur \in Live /\ cur \notin Done /\ cur \in job.files
      /\ ~IsMove => cur \notin Aside
  BY GoingFacts, FromIs
<1>2. QED BY <1>1 DEF At, Halfway

\* A step of doreps that changes nothing seen from outside.
LEMMA Unseen ==
  ASSUME UNCHANGED <<job, repVars, Where, Outcome>>
  PROVE  UNCHANGED Bulk!bulkVars
<1>1. UNCHANGED <<Live, IsMove, IsAppend>>
  BY SamePlan
<1>2. QED BY <1>1 DEF Bulk!bulkVars, Where, Outcome

\* After such a step one file is elsewhere.
LEMMA SeenGoing ==
  ASSUME UNCHANGED <<job, repVars>>, Outcome = "running", Outcome' = "running",
         NEW f \in job.files, NEW n, Where' = [Where EXCEPT ![f] = n]
  PROVE  Bulk!Goes(f, n)
<1>1. UNCHANGED <<Live, IsMove, IsAppend>>
  BY SamePlan
<1>2. QED BY <1>1 DEF Bulk!Goes, Bulk!given, Where, Outcome

\* With this one the run ceases to go well.
LEMMA SeenBreaking ==
  ASSUME UNCHANGED <<job, repVars, Where>>, Outcome = "running", Outcome' = "broken"
  PROVE  Bulk!Finish
<1>1. UNCHANGED <<Live, IsMove, IsAppend>>
  BY SamePlan
<1>2. QED BY <1>1 DEF Bulk!Finish, Bulk!given, Where, Outcome

\* Where every file is as before.
LEMMA WhereStays ==
  ASSUME Works, \A f \in job.files : At(f)' = At(f)
  PROVE  UNCHANGED Where
<1>1. job' = job
  BY WorksFacts
<1>2. \A f \in job.files : Whereabouts(f) = At(f)
  BY EachIs DEF Works
<1>3. (Going => \A f \in job.files : Whereabouts(f) = At(f))'
  BY EachIs, PTL
<1>4. \A f \in job.files : Whereabouts(f)' = Whereabouts(f)
  BY <1>1, <1>2, <1>3 DEF Works
<1>5. QED BY <1>1, <1>4 DEF Where

\* All but one stay.
LEMMA WhereGoes ==
  ASSUME Works, NEW g \in job.files, \A f \in job.files : f # g => At(f)' = At(f)
  PROVE  Where' = [Where EXCEPT ![g] = At(g)']
<1>1. job' = job
  BY WorksFacts
<1>2. \A f \in job.files : Whereabouts(f) = At(f)
  BY EachIs DEF Works
<1>3. (Going => \A f \in job.files : Whereabouts(f) = At(f))'
  BY EachIs, PTL
<1>4. \A f \in job.files : Whereabouts(f)' = IF f = g THEN At(g)' ELSE Whereabouts(f)
  BY <1>1, <1>2, <1>3 DEF Works
<1>5. QED BY <1>1, <1>4 DEF Where

\* The reps of a cycle take each other's places.
LEMMA TurnsInPlace ==
  ASSUME Going, pc = "alias"
  PROVE  Bulk!OnCycle(To)
<1> DEFINE S == Chain(cur)
           g == [r \in S |-> job.to[r]]
<1>1. /\ RunInv /\ PlanStands /\ Handed /\ ~IsAppend /\ cur \in cycle /\ IsMove
  <2>1. /\ RunInv /\ PlanStands /\ Handed /\ ~IsAppend /\ cur \in cycle /\ (IsMove \/ CopyOrLink)
    BY GoingFacts DEF RunInv
  <2>2. cur # Nil /\ hd \in 1..Len(list) /\ cur \in Chain(list[hd])
    BY <2>1 DEF RunInv, RepPhases, WritingPhases
  <2>3. QED BY <2>1, <2>2, CycleAtHead
<1>2. /\ cur \in Heads /\ cur \in Sources /\ To \in S /\ S \subseteq Live
      /\ Live \subseteq Sources /\ Sources \subseteq Name /\ Threads /\ Nil \notin Name /\ IsFiniteSet(Live)
      /\ \A r \in Live : thendo[r] # Nil => job.to[thendo[r]] = r
      /\ \A r, s \in Live : job.to[r] = job.to[s] => r = s
  <2>1. /\ cur \in Heads /\ To \in Chain(cur)
        /\ \A r \in Live : thendo[r] # Nil => job.to[thendo[r]] = r
    BY <1>1 DEF PlanStands, HandedMoves, Breaks, To
  <2>2. QED BY <1>1, <2>1, GoingFacts, PlanFrame DEF Handed, Well
<1>3. ASSUME NEW r \in S PROVE job.to[r] \in S
  <2>1. CASE r = cur
    BY <1>2, <2>1 DEF To
  <2>2. CASE r # cur
    <3>1. PICK y \in S : thendo[y] = r
      BY <1>2, <2>2, ChainPred
    <3>2. QED BY <1>2, <3>1
  <2>3. QED BY <2>1, <2>2
<1>4. IsFiniteSet(S)
  BY <1>2, FS_Subset
<1> HIDE DEF S
<1>5. g \in Injection(S, S)
  BY <1>2, <1>3 DEF Injection, IsInjective
<1>6. g \in Surjection(S, S)
  BY <1>4, <1>5, FS_Injection
<1>7. {job.to[r] : r \in S} = S
  BY <1>6 DEF Surjection
<1>8. QED BY <1>2, <1>7 DEF Bulk!OnCycle

\* movealias.
LEMMA AliasSeen ==
  ASSUME Works, MoveAlias
  PROVE  Bulk!Next
<1>1. /\ UNCHANGED <<job, repVars, hd, cur, noex, handler, Left, Live, IsMove, To>>
      /\ Outcome = "running" /\ Outcome' = "running" /\ Going /\ pc = "alias"
  BY WorksFacts DEF Works, MoveAlias
<1>2. /\ UNCHANGED <<Live, Done, IsMove, To>>
      /\ pc' = "unlink" /\ IsMove /\ To \in Name /\ To \in job.files /\ To \in Live
      /\ To \notin Done /\ Aside = {} /\ Aside' = {To}
      /\ Temp(To)' \in (Name \cap Temps) \ job.files
      /\ \A n \in Name : n # Temp(To)' /\ n # To => fs'[n] = fs[n]
  BY <1>1, GoingFacts, AliasMoves
<1>3. /\ job.files \subseteq Name /\ Nil \notin Name /\ Done \subseteq Live
      /\ (IsMove => PlainTargets) /\ Live \subseteq Sources
  BY <1>1, GoingFacts
<1>4. At(To) = To
  BY <1>2 DEF At
<1>5. At(To)' = Temp(To)'
  BY <1>1, <1>2 DEF At
<1>6. \A f \in job.files : f # To => At(f)' = At(f)
  BY <1>1, <1>2, <1>3 DEF At
<1>7. \A f \in job.files : At(f) # Temp(To)'
  BY <1>2, <1>3 DEF At, PlainTargets
<1>8. Where' = [Where EXCEPT ![To] = Temp(To)']
  BY <1>2, <1>5, <1>6, WhereGoes
<1>9. \A f \in job.files : Where[f] = At(f)
  BY <1>1, WhereIs DEF Where
<1>10. Bulk!OnCycle(To)
  BY <1>1, TurnsInPlace
<1>11. Bulk!Goes(To, Temp(To)')
  BY <1>1, <1>2, <1>8, SeenGoing
<1>12. Bulk!SetAside(To)
  BY <1>2, <1>4, <1>7, <1>9, <1>10, <1>11 DEF Bulk!SetAside, Bulk!Vacant, Where
<1>13. QED BY <1>2, <1>12 DEF Bulk!Next

\* A file that is replaced, and the moment it goes.
LEMMA DeleteSeen ==
  ASSUME Works, pc \in MovePhases, pc' \in {"transfer", "copying", "unlinksrc"}, UNCHANGED alias,
         pc # "unlinksrc", pc' # "unlinksrc",
         \A n \in Name : n # To => fs'[n] = fs[n]
  PROVE  IF To \in job.files /\ To \notin Live /\ fs[To] = <<To>> /\ fs'[To] # <<To>>
         THEN Bulk!Next
         ELSE (To \in job.files /\ To \notin Live => (fs'[To] = <<To>> <=> fs[To] = <<To>>))
                => UNCHANGED Bulk!bulkVars
<1>1. /\ UNCHANGED <<job, repVars, hd, cur, noex, handler, Left, Live, IsMove, To>>
      /\ Outcome = "running" /\ Outcome' = "running" /\ Going /\ Going'
  BY WorksFacts DEF Works
<1>2. UNCHANGED <<Done, Aside>> /\ \A r : Temp(r)' = Temp(r)
  BY OnTheWay
<1>3. /\ job.files \subseteq Name /\ Nil \notin Name /\ Done \subseteq Live /\ Aside \subseteq Live
      /\ ~IsAppend
  BY <1>1, GoingFacts
<1>4. cur \in Live /\ cur \in job.files
  BY <1>1, AtHand
<1>5. \A f \in job.files : f # To \/ f \in Live => At(f)' = At(f)
  BY <1>1, <1>2, <1>3, <1>4 DEF At
<1>6. CASE To \in job.files /\ To \notin Live /\ fs[To] = <<To>> /\ fs'[To] # <<To>>
  <2>1. At(To) = To /\ At(To)' = Nil
    BY <1>1, <1>2, <1>3, <1>6 DEF At
  <2>2. Where' = [Where EXCEPT ![To] = Nil]
    BY <1>1, <1>5, <1>6, <2>1, WhereGoes
  <2>3. Where[To] = To
    BY <1>1, <1>6, <2>1, WhereIs DEF Where
  <2>4. Bulk!Goes(To, Nil)
    BY <1>1, <1>6, <2>2, SeenGoing
  <2>5. Bulk!Replaced(To)
    BY <1>3, <1>4, <1>6 DEF Bulk!Replaced, To
  <2>6. Bulk!Delete(To)
    BY <1>6, <2>3, <2>4, <2>5 DEF Bulk!Delete, Where
  <2>7. QED BY <1>6, <2>6 DEF Bulk!Next
<1>7. ASSUME To \in job.files /\ To \notin Live => (fs'[To] = <<To>> <=> fs[To] = <<To>>)
      PROVE  UNCHANGED Bulk!bulkVars
  <2>1. To \in job.files => At(To)' = At(To)
    BY <1>1, <1>2, <1>3, <1>5, <1>7 DEF At
  <2>2. UNCHANGED Where
    BY <1>1, <1>5, <2>1, WhereStays
  <2>3. QED BY <1>1, <2>2, Unseen
<1>8. QED BY <1>6, <1>7

\* The rep at hand comes to its new name.
LEMMA PutSeen ==
  ASSUME Works, IsMove, pc \in {"transfer", "copying", "unlinksrc"}, ~Halfway,
         At(cur)' = To, \A f \in job.files : f # cur => At(f)' = At(f)
  PROVE  Bulk!Next
<1>1. /\ UNCHANGED <<job, repVars, hd, cur, noex, handler, Left, Live, IsMove, To>>
      /\ Outcome = "running" /\ Outcome' = "running" /\ Going
  BY WorksFacts DEF Works
<1>2. /\ cur \in Live /\ cur \in job.files
      /\ At(cur) = IF cur \in Aside THEN Temp(cur) ELSE cur
  BY <1>1, AtHand DEF MovePhases
<1>3. cur \in Aside => Temp(cur) \in Temps
  BY <1>1, GoingFacts DEF Standing
<1>4. \A f \in job.files : Where[f] = At(f)
  BY <1>1, WhereIs DEF Where
<1>5. \A f \in job.files : At(f) # To
  BY <1>1, ToVacant
<1>6. Where' = [Where EXCEPT ![cur] = To]
  BY <1>1, <1>2, WhereGoes
<1>7. Bulk!Goes(cur, To)
  BY <1>1, <1>2, <1>6, SeenGoing
<1>8. Bulk!Put(cur)
  BY <1>2, <1>3, <1>4, <1>5, <1>7 DEF Bulk!Put, Bulk!Vacant, Where, To
<1>9. QED BY <1>2, <1>8 DEF Bulk!Next

\* The files but the one at hand, when there is something new at the target.
LEMMA OthersAt ==
  ASSUME Works, pc \in {"transfer", "copying", "unlinksrc"}, pc = "transfer" => ~Overwrites,
         \/ UNCHANGED <<Done, Aside>>
         \/ Done' = Done \cup {cur} /\ Aside' = Aside \ {cur},
         \A r : Temp(r)' = Temp(r),
         fs'[To] = <<cur>>,
         \A n \in Name : n # To /\ n # From => fs'[n] = fs[n]
  PROVE  \A f \in job.files : f # cur => At(f)' = At(f)
<1>1. /\ UNCHANGED <<job, cur, Live, IsMove, To>> /\ Going /\ pc \in MovePhases
  BY WorksFacts DEF Works, MovePhases
<1>2. /\ job.files \subseteq Name /\ Done \subseteq Live /\ Aside \subseteq Live /\ Standing
      /\ RunInv /\ ProgressInv /\ ExecInv /\ Well /\ ~IsAppend /\ (IsMove => PlainTargets)
  BY <1>1, GoingFacts
<1>3. cur \in Live /\ cur \in Name /\ (From = cur \/ From \notin job.files)
  BY <1>1, <1>2, Ready
<1>4. \A n \in job.files : n # To /\ n \notin Live => fs'[n] = fs[n]
  BY <1>2, <1>3
<1>5. ASSUME To \in job.files, To \notin Live PROVE At(To)' = At(To)
  <2>1. fs[To] # <<To>> /\ fs'[To] # <<To>>
    BY <1>2, <1>3, <1>5, OneFile DEF Standing
  <2>2. To \notin Done \cup Aside /\ To \notin (Done \cup Aside)' /\ To # cur
    BY <1>2, <1>3, <1>5
  <2>3. QED BY <1>1, <1>5, <2>1, <2>2 DEF At
<1>6. ASSUME NEW f \in job.files, f # cur PROVE At(f)' = At(f)
  BY <1>1, <1>4, <1>5, <1>6, OthersStay
<1>7. QED BY <1>6

\* The call that carries out a rep.
LEMMA LandingSeen ==
  ASSUME Works, pc \in {"transfer", "copying", "unlinksrc"}, pc = "transfer" => ~Overwrites,
         pc' = "print", UNCHANGED alias,
         fs'[To] = <<cur>>,
         \A n \in Name : n # To /\ n # From => fs'[n] = fs[n]
  PROVE  Bulk!Next \/ UNCHANGED Bulk!bulkVars
<1>1. /\ UNCHANGED <<job, repVars, cur, Live, IsMove, To, Outcome>> /\ Going
      /\ pc \in MovePhases
  BY WorksFacts DEF Works, MovePhases
<1>2. /\ Done' = Done \cup {cur} /\ Aside' = Aside \ {cur} /\ \A r : Temp(r)' = Temp(r)
  BY <1>1, AtItsEnd
<1>3. \A f \in job.files : f # cur => At(f)' = At(f)
  BY <1>2, OthersAt
<1>4. /\ cur \in Live
      /\ ~IsMove => At(cur) = cur
      /\ Halfway => At(cur) = To
  BY <1>1, AtHand DEF Halfway
<1>5. At(cur)' = IF IsMove THEN To ELSE cur
  BY <1>1, <1>2, <1>4 DEF At, To
<1>6. CASE IsMove /\ ~Halfway
  <2>1. At(cur)' = To
    BY <1>5, <1>6
  <2>2. QED BY <1>3, <1>6, <2>1, PutSeen
<1>7. CASE ~(IsMove /\ ~Halfway)
  <2>1. At(cur)' = At(cur)
    BY <1>4, <1>5, <1>7 DEF Halfway
  <2>2. \A f \in job.files : At(f)' = At(f)
    BY <1>1, <1>3, <2>1
  <2>3. UNCHANGED Where
    BY <2>2, WhereStays
  <2>4. QED BY <1>1, <2>3, Unseen
<1>8. QED BY <1>6, <1>7

\* A call that only clears the target's name.
LEMMA ClearingSeen ==
  ASSUME Works, pc \in {"unlink", "transfer"}, pc' \in {"transfer", "copying"},
         UNCHANGED alias, fs'[To] \in {Absent, << >>, fs[To]},
         \A n \in Name : n # To => fs'[n] = fs[n]
  PROVE  Bulk!Next \/ UNCHANGED Bulk!bulkVars
<1>1. pc \in MovePhases /\ pc # "unlinksrc" /\ pc' # "unlinksrc" /\ Going
      /\ pc' \in {"transfer", "copying", "unlinksrc"}
  BY DEF MovePhases, Works
<1>2. To \in job.files => (fs'[To] = <<To>> => fs[To] = <<To>>)
  BY <1>1, GoingFacts, OneFile
<1>3. QED BY <1>1, <1>2, DeleteSeen

\* Every system call that goes well.
LEMMA CallSeen ==
  ASSUME Works
  PROVE  Bulk!Next \/ UNCHANGED Bulk!bulkVars
<1>1. /\ UNCHANGED <<job, repVars, hd, cur, noex, handler, Left, Live, IsMove, To, Outcome>>
      /\ ~Snap /\ Going
  BY WorksFacts DEF Works
<1>2. /\ RunInv /\ ProgressInv /\ ExecInv /\ Well /\ ~IsAppend /\ Standing
      /\ (IsMove => PlainTargets) /\ (IsMove \/ CopyOrLink)
      /\ fs \in [Name -> Content \cup {Absent}]
  BY <1>1, GoingFacts
<1> DEFINE Facts == /\ cur \in Name /\ To \in Name /\ From \in Name /\ From # To
                    /\ fs[From] = <<cur>>
<1>3. pc \in MovePhases => Facts
  BY <1>2, Ready
<1> HIDE DEF Facts
<1>4. IsMove => ~Overwrites
  BY DEF Overwrites, IsMove, MoveOps, AppendOps
<1>5. CASE MoveAlias
  BY <1>5, AliasSeen
<1>6. CASE AppendAlias
  BY <1>2, <1>6 DEF AppendAlias
<1>7. CASE UnlinkOld
  <2>1. /\ pc = "unlink" /\ pc' = "transfer" /\ alias' = alias
        /\ fs' = fs \/ fs' = [fs EXCEPT ![To] = Absent]
    BY <1>1, <1>7 DEF UnlinkOld, Goes
  <2>2. fs'[To] \in {Absent, << >>, fs[To]} /\ \A n \in Name : n # To => fs'[n] = fs[n]
    BY <1>2, <1>3, <2>1 DEF Facts, MovePhases
  <2>3. QED BY <2>1, <2>2, ClearingSeen
<1>8. CASE Rename
  <2>1. /\ pc = "transfer" /\ pc' = "print" /\ alias' = alias /\ IsMove
        /\ fs' = IF From = To THEN fs
                 ELSE [fs EXCEPT ![To] = fs[From], ![From] = Absent]
    BY <1>1, <1>8 DEF Rename, Goes
  <2>2. fs'[To] = <<cur>> /\ \A n \in Name : n # To /\ n # From => fs'[n] = fs[n]
    BY <1>2, <1>3, <2>1 DEF Facts, MovePhases
  <2>3. QED BY <1>4, <2>1, <2>2, LandingSeen
<1>9. CASE Link
  <2>1. /\ pc = "transfer" /\ pc' = "print" /\ alias' = alias
        /\ fs' = [fs EXCEPT ![To] = fs[From]]
    BY <1>1, <1>9 DEF Link, Goes
  <2>2. fs'[To] = <<cur>> /\ \A n \in Name : n # To /\ n # From => fs'[n] = fs[n]
    BY <1>2, <1>3, <2>1 DEF Facts, MovePhases
  <2>3. ~Overwrites
    BY <1>9 DEF Link, Overwrites, LinkOps, AppendOps
  <2>4. QED BY <2>1, <2>2, <2>3, LandingSeen
<1>10. CASE CopyOpen
  <2>1. /\ pc = "transfer" /\ pc' = "copying" /\ alias' = alias
        /\ fs' = [fs EXCEPT ![To] = Opened(@)]
    BY <1>1, <1>10 DEF CopyOpen, Goes
  <2>2. fs'[To] = << >> /\ \A n \in Name : n # To => fs'[n] = fs[n]
    BY <1>2, <1>3, <2>1 DEF Facts, MovePhases, Opened
  <2>3. QED BY <2>1, <2>2, ClearingSeen
<1>11. CASE CopyData
  <2>1. /\ pc = "copying" /\ alias' = alias
        /\ pc' = IF IsMove THEN "unlinksrc" ELSE "print"
        /\ fs' = [fs EXCEPT ![To] = @ \o Transferred]
    BY <1>1, <1>11 DEF CopyData, Goes
  <2>2. Transferred = <<cur>>
    <3>1. fs[From] = <<cur>>
      BY <1>3, <2>1 DEF Facts, MovePhases
    <3>2. IsMove \/ cur \notin aliased
      BY <1>2, <2>1, FromIs DEF MovePhases
    <3>3. QED BY <3>1, <3>2 DEF Transferred
  <2>3. fs'[To] = <<cur>> /\ \A n \in Name : n # To => fs'[n] = fs[n]
    <3>1. fs[To] = << >> /\ cur \in Name /\ To \in Name
      BY <1>2, <1>3, <2>1 DEF Standing, Facts, MovePhases
    <3>2. << >> \o <<cur>> = <<cur>>
      BY <3>1
    <3>3. QED BY <1>2, <2>1, <2>2, <3>1, <3>2
  <2>4. CASE ~IsMove
    BY <2>1, <2>3, <2>4, LandingSeen
  <2>5. CASE IsMove
    <3>1. pc \in MovePhases /\ pc' = "unlinksrc" /\ ~Halfway
      BY <2>1, <2>5 DEF MovePhases, Halfway
    <3>2. UNCHANGED <<Done, Aside>> /\ \A r : Temp(r)' = Temp(r)
      BY <2>1, <3>1, OnTheWay
    <3>3. \A f \in job.files : f # cur => At(f)' = At(f)
      BY <2>1, <2>3, <3>2, OthersAt
    <3>4. /\ cur \in Live /\ cur \notin Done
          /\ At(cur) = IF cur \in Aside THEN Temp(cur) ELSE cur
      BY <1>1, <3>1, AtHand
    <3>5. CASE cur \in Aside /\ cur = To
      <4>1. At(cur)' = To
        BY <1>1, <3>1, <3>2, <3>4, <3>5 DEF At
      <4>2. QED BY <2>1, <2>5, <3>1, <3>3, <4>1, PutSeen
    <3>6. CASE ~(cur \in Aside /\ cur = To)
      <4>1. At(cur)' = At(cur)
        BY <1>1, <3>1, <3>2, <3>4, <3>6 DEF At
      <4>2. \A f \in job.files : At(f)' = At(f)
        BY <1>1, <3>3, <4>1
      <4>3. UNCHANGED Where
        BY <4>2, WhereStays
      <4>4. QED BY <1>1, <4>3, Unseen
    <3>7. QED BY <3>5, <3>6
  <2>6. QED BY <2>4, <2>5
<1>12. CASE UnlinkSource
  <2>1. /\ pc = "unlinksrc" /\ pc' = "print" /\ alias' = alias
        /\ fs' = [fs EXCEPT ![From] = Absent]
    BY <1>1, <1>12 DEF UnlinkSource, Goes, SourceGone
  <2>2. fs[To] = <<cur>>
    BY <1>2, <2>1 DEF Standing
  <2>3. fs'[To] = <<cur>> /\ \A n \in Name : n # To /\ n # From => fs'[n] = fs[n]
    BY <1>2, <1>3, <2>1, <2>2 DEF Facts, MovePhases
  <2>4. QED BY <2>1, <2>3, LandingSeen
<1>13. QED
  BY <1>5, <1>6, <1>7, <1>8, <1>9, <1>10, <1>11, <1>12 DEF Works, Call

\* As long as the directories stay, or only lose a copy nothing was written to,
\* every file is where it was.
LEMMA WhereKept ==
  ASSUME RunInv, ExecInv, UNCHANGED <<job, repVars>>, UNCHANGED fs \/ Undoes
  PROVE  UNCHANGED Where
<1>1. UNCHANGED <<job, Live, IsAppend, Temps>>
  BY SamePlan DEF Temps
<1>2. /\ job.files \subseteq Name /\ Temps \subseteq Name /\ \A r \in Live : job.to[r] \in Name
      /\ fs \in [Name -> Content \cup {Absent}]
  <2>1. job \in Job
    BY JobsAssumption DEF RunInv
  <2>2. job.files \subseteq Name /\ job.to \in [Name -> Name] /\ Live \subseteq Name
    BY <2>1, ElementOfSeq DEF Job, Live, Sources, Range
  <2>3. fs \in [Name -> Content \cup {Absent}]
    BY DEF ExecInv, ExecTypeOK, Content
  <2>4. QED BY <2>2, <2>3, TempAssumption DEF Temps
<1>3. ASSUME NEW n \in Name, NEW f PROVE Holds(n, f)' <=> Holds(n, f)
  <2>1. fs'[n] = fs[n] \/ (fs[n] = << >> /\ fs'[n] = Absent)
    BY <1>2 DEF Undoes
  <2>2. QED BY <1>1, <2>1 DEF Holds
<1>4. ASSUME NEW f \in job.files PROVE Whereabouts(f)' = Whereabouts(f)
  <2>1. /\ f \in Name /\ (Holds(f, f)' <=> Holds(f, f))
        /\ \A t \in Temps : Holds(t, f)' <=> Holds(t, f)
        /\ f \in Live => (Holds(job.to[f], f)' <=> Holds(job.to[f], f))
    BY <1>1, <1>2, <1>3
  <2>2. (CHOOSE t \in Temps : Holds(t, f))' = (CHOOSE t \in Temps : Holds(t, f))
    BY <1>1, <2>1
  <2>3. QED BY <1>1, <2>1, <2>2 DEF Whereabouts
<1>5. QED BY <1>1, <1>4 DEF Where

\* While files are appended to each other, all are at home.
LEMMA WhereHome ==
  ASSUME RunInv, ProgressInv, ExecInv, AppendInv, Well, IsAppend
  PROVE  Where = [f \in job.files |-> f]
BY AppendsHold DEF AppendInv, Where, Whereabouts

\* The step with which a run ends well.
LEMMA ChainsEndSeen ==
  ASSUME Kept, Well, IsMove => PlainTargets, ChainsEnd
  PROVE  Bulk!Finish
<1>1. /\ RunInv /\ ProgressInv /\ ExecInv /\ UNCHANGED <<job, repVars, doVars>>
      /\ pc = "chain" /\ pc' = "exit" /\ hd > Len(list)
      /\ handler = "breakrep" /\ ~noex
  BY DEF Kept, Well, ProgressInv, ChainsEnd, calm
<1>2. UNCHANGED <<fs, noex, handler>>
  BY <1>1 DEF doVars
<1>3. UNCHANGED <<Live, IsMove, IsAppend, Where>>
  BY <1>1, <1>2, SamePlan, WhereKept
<1>4. Outcome = "running" /\ Outcome' = "complete"
  BY <1>1, <1>2 DEF Outcome
<1>5. ASSUME IsMove, NEW r \in Live PROVE Where[r] = job.to[r]
  <2>1. Going
    BY <1>5 DEF Going, IsMove, IsAppend, MoveOps, AppendOps
  <2>2. r \in Done
    <3>1. cur = Nil
      BY <1>1 DEF RunInv
    <3>2. Left = {}
      BY <1>1, <3>1, LeftLive DEF Well
    <3>3. QED BY <3>2 DEF Done
  <2>3. At(r) = job.to[r]
    BY <1>5, <2>2 DEF At
  <2>4. r \in job.files
    BY <2>1, GoingFacts
  <2>5. QED BY <2>1, <2>3, <2>4, WhereIs DEF Where
<1>6. QED BY <1>1, <1>3, <1>4, <1>5 DEF Bulk!Finish, Bulk!given, Where, Outcome

\* The other steps of a run that goes well are not seen.
LEMMA RestSeen ==
  ASSUME Kept, Well, ~noex', StartDoreps \/ NextChain \/ StartRep \/ Sigint \/ PrintLine
  PROVE  UNCHANGED Bulk!bulkVars
<1>1. /\ RunInv /\ ProgressInv /\ ExecInv /\ handler = "breakrep" /\ ~noex
  BY DEF Kept, Well, ProgressInv
<1>2. /\ UNCHANGED <<job, repVars, fs, noex>>
      /\ pc # "exit" /\ pc' # "exit"
  BY <1>1 DEF StartDoreps, NextChain, StartRep, Sigint, PrintLine, calm, doVars, Goes,
              ChainGoesOn, DoPhases
<1>3. UNCHANGED Where
  BY <1>1, <1>2, WhereKept
<1>4. UNCHANGED Outcome
  BY <1>2 DEF Outcome
<1>5. QED BY <1>2, <1>3, <1>4, Unseen

\* The step that fails, or at which the user breaks in.
LEMMA BreakSeen ==
  ASSUME Kept, Well, IsMove => PlainTargets, UserBreak \/ Call, noex'
  PROVE  Bulk!Finish
<1>1. /\ RunInv /\ ExecInv /\ UNCHANGED <<job, repVars>> /\ ~noex /\ pc # "exit"
  BY CallFacts DEF Kept, Well, UserBreak, calm, WritingPhases
<1>2. UNCHANGED fs \/ Undoes
  BY FailKeeps DEF UserBreak
<1>3. UNCHANGED Where
  BY <1>1, <1>2, WhereKept
<1>4. Outcome = "running" /\ Outcome' = "broken"
  BY <1>1 DEF Outcome
<1>5. QED BY <1>1, <1>3, <1>4, SeenBreaking

\* Once a run does not go well nothing more is seen of it.
LEMMA BrokenSeen ==
  ASSUME Kept, noex, DoStep \/ Sigint
  PROVE  UNCHANGED Bulk!bulkVars
<1>1. /\ RunInv /\ ExecInv /\ UNCHANGED <<job, repVars>> /\ pc \notin WritingPhases
  BY DoingSamePlan DEF Kept, ProgressInv
<1>2. UNCHANGED fs /\ noex'
  BY <1>1, CallFacts
     DEF DoStep, Call, StartDoreps, NextChain, UserBreak, BreakPrinting, StartRep,
         PrintLine, ChainsEnd, Sigint, doVars, Snap
<1>3. UNCHANGED Where
  BY <1>1, <1>2, WhereKept
<1>4. UNCHANGED Outcome
  BY <1>2 DEF Outcome
<1>5. QED BY <1>1, <1>3, <1>4, Unseen

\* Before doreps has begun.
LEMMA BeginSeen ==
  ASSUME Kept, handler = "breakout", DoStep \/ Sigint
  PROVE  Bulk!Next \/ UNCHANGED Bulk!bulkVars
<1>1. /\ RunInv /\ ExecInv /\ UNCHANGED <<job, repVars>>
  BY DoingSamePlan DEF Kept
<1>2. pc \notin RepPhases \cup {"chain"} /\ pc # "exit"
  <2>1. pc \in DoPhases
    BY CallFacts DEF DoStep, Call, StartDoreps, NextChain, UserBreak, BreakPrinting, StartRep,
                     PrintLine, ChainsEnd, Sigint, WritingPhases, DoPhases
  <2>2. QED BY <1>1, <2>1 DEF RunInv, DoPhases
<1>3. StartDoreps \/ Sigint
  BY <1>2, CallFacts DEF DoStep, Call, NextChain, UserBreak, BreakPrinting, StartRep,
                         PrintLine, ChainsEnd, RepPhases
<1>4. UNCHANGED <<fs, noex>>
  BY <1>3 DEF StartDoreps, Sigint
<1>5. UNCHANGED Where
  BY <1>1, <1>4, WhereKept
<1>6. CASE StartDoreps
  <2>1. UNCHANGED Outcome
    BY <1>2, <1>4, <1>6 DEF Outcome, StartDoreps, Goes
  <2>2. QED BY <1>1, <1>5, <2>1, Unseen
<1>7. CASE Sigint
  <2>1. pc' = "exit" /\ handler' = handler
    BY <1>7 DEF Sigint
  <2>2. UNCHANGED Outcome \/ (Outcome = "running" /\ Outcome' = "broken")
    BY <1>2, <1>4, <2>1 DEF Outcome
  <2>3. QED BY <1>1, <1>5, <2>2, Unseen, SeenBreaking DEF Bulk!Next
<1>8. QED BY <1>3, <1>6, <1>7

\* So every step of doreps keeps the promise.
LEMMA DoingSeen ==
  ASSUME Kept, Kept', IsMove => PlainTargets, (IsMove => PlainTargets)', DoStep \/ Sigint
  PROVE  Bulk!Next \/ UNCHANGED Bulk!bulkVars
<1>1. CASE handler = "breakout"
  BY <1>1, BeginSeen
<1>2. CASE noex
  BY <1>2, BrokenSeen
<1>3. CASE Well /\ noex'
  <2>1. UserBreak \/ Call
    BY <1>3 DEF Well, DoStep, Call, StartDoreps, NextChain, BreakPrinting, StartRep,
                PrintLine, ChainsEnd, Sigint, doVars
  <2>2. QED BY <1>3, <2>1, BreakSeen DEF Bulk!Next
<1>4. CASE Well /\ ~noex'
  <2>1. RunInv /\ ProgressInv
    BY DEF Kept
  <2>2. Well'
    <3>1. handler' # "breakout"
      BY <1>4, <2>1, HandlerSet DEF Well, Sigint
    <3>2. QED BY <1>4, <3>1 DEF Well
  <2>3. StartDoreps \/ NextChain \/ StartRep \/ ChainsEnd \/ Sigint \/ PrintLine \/ Call
    BY <2>1, <2>2, WellBefore
  <2>4. CASE ChainsEnd
    BY <1>4, <2>4, ChainsEndSeen DEF Bulk!Next
  <2>5. CASE StartDoreps \/ NextChain \/ StartRep \/ Sigint \/ PrintLine
    BY <1>4, <2>5, RestSeen
  <2>6. CASE Call /\ ~IsAppend
    <3>1. UNCHANGED <<job, repVars>>
      BY DoingSamePlan
    <3>2. IsAppend' <=> IsAppend
      BY <3>1, SamePlan
    <3>3. Works
      BY <1>4, <2>2, <2>6, <3>2 DEF Works, Going
    <3>4. QED BY <3>3, CallSeen
  <2>7. CASE Call /\ IsAppend
    <3>1. /\ UNCHANGED <<job, repVars>> /\ pc # "exit" /\ pc' # "exit" /\ ~noex
      BY <1>4, <2>7, CallFacts DEF WritingPhases, RepPhases, Well
    <3>2. UNCHANGED <<IsAppend, job>>
      BY <3>1, SamePlan
    <3>3. Where = [f \in job.files |-> f]
      BY <1>4, <2>7, WhereHome DEF Kept
    <3>4. (RunInv /\ ProgressInv /\ ExecInv /\ AppendInv /\ Well /\ IsAppend)'
      BY <2>2, <2>7, <3>2 DEF Kept
    <3>5. (RunInv /\ ProgressInv /\ ExecInv /\ AppendInv /\ Well /\ IsAppend
             => Where = [f \in job.files |-> f])'
      BY WhereHome, PTL
    <3>6. UNCHANGED Where
      BY <3>2, <3>3, <3>4, <3>5
    <3>7. UNCHANGED Outcome
      BY <1>4, <3>1 DEF Outcome
    <3>8. QED BY <3>1, <3>6, <3>7, Unseen
  <2>8. QED BY <2>3, <2>4, <2>5, <2>6, <2>7
<1>5. QED BY <1>1, <1>2, <1>3, <1>4 DEF Well

\* mmv_execute does what MmvBulk promises, however many names and pairs there
\* are, whichever calls fail and whenever the user breaks in: pairs are refused
\* while every file is still at home; then one file after the other goes to its
\* new name, which is vacant by then, only files that the plan replaces are
\* deleted, only a file of a cycle is put aside, and a run that ends well has
\* brought every file to its new name.  For moves this needs targets that are
\* no temporary names.
THEOREM KeepsPromise == Spec /\ [](IsMove => PlainTargets) => BulkMove
<1>1. Spec => []Untouched
  BY UntouchedInit, UntouchedStep, PTL DEF Spec
<1>2. /\ Untouched /\ Kept /\ Kept' /\ (IsMove => PlainTargets) /\ (IsMove => PlainTargets)'
      /\ [Next]_allVars
      => [Bulk!Next]_(Bulk!bulkVars)
  <2> SUFFICES ASSUME Untouched, Kept, Kept', IsMove => PlainTargets,
                      (IsMove => PlainTargets)', [Next]_allVars
               PROVE  Bulk!Next \/ UNCHANGED Bulk!bulkVars
    OBVIOUS
  <2>1. CASE Planning \/ Interrupt
    BY <2>1, PlanningStep
  <2>2. CASE Doing \/ Signal
    BY <2>2, DoingSeen DEF Doing, Signal
  <2>3. CASE UNCHANGED allVars
    <3>1. UNCHANGED <<job, repVars, pc, fs, noex, handler>>
      BY <2>3 DEF allVars, vars, doVars
    <3>2. UNCHANGED <<Where, Outcome>>
      BY <3>1, WhereKept DEF Kept, Outcome
    <3>3. QED BY <3>1, <3>2, Unseen
  <2>4. QED BY <2>1, <2>2, <2>3 DEF Next
<1>3. QED BY <1>1, <1>2, PlacesKept, BulkBegins, PTL DEF Spec, BulkMove, Bulk!Spec

\* MmvBulk's own theorem, for the same reading of the variables as Bulk.
Promised == INSTANCE MmvBulkProofs WITH
    Gone <- Nil, moves <- IsMove, keeps <- IsAppend, files <- job.files,
    to <- job.to, plan <- Live, where <- [f \in job.files |-> Whereabouts(f)],
    result <- IF noex \/ (pc = "exit" /\ handler # "breakrep") THEN "broken"
              ELSE IF pc = "exit" THEN "complete" ELSE "running"

\* What follows from the promise holds of mmv_execute: no two files are ever at
\* one name, so that none is put on top of another, and a file that is gone has
\* been replaced by the plan.
THEOREM NothingOnTop ==
  Spec /\ [](IsMove => PlainTargets) => [](Bulk!Apart /\ Bulk!OnlyReplaced)
<1>1. Promised!NamesApart
  BY NameAssumption, TempAssumption DEF Promised!NamesApart, Temps
<1>2. Bulk!Init => Promised!Init
  BY DEF Bulk!Init, Promised!Init, Bulk!AtHome, Promised!AtHome
<1>3. [Bulk!Next]_(Bulk!bulkVars) => [Promised!Next]_(Promised!bulkVars)
  BY DEF Bulk!Next, Promised!Next, Bulk!bulkVars, Promised!bulkVars, Bulk!given,
         Promised!given, Bulk!Refuse, Promised!Refuse, Bulk!Finish, Promised!Finish,
         Bulk!Delete, Promised!Delete, Bulk!SetAside, Promised!SetAside, Bulk!Put,
         Promised!Put, Bulk!Goes, Promised!Goes, Bulk!Vacant, Promised!Vacant,
         Bulk!OnCycle, Promised!OnCycle, Bulk!Replaced, Promised!Replaced,
         Bulk!AtHome, Promised!AtHome
<1>4. Promised!Spec => [](Promised!Apart /\ Promised!OnlyReplaced)
  BY <1>1, Promised!NothingOverwritten
<1>5. Promised!Apart /\ Promised!OnlyReplaced => Bulk!Apart /\ Bulk!OnlyReplaced
  BY DEF Promised!Apart, Promised!OnlyReplaced, Bulk!Apart, Bulk!OnlyReplaced,
         Promised!Replaced, Bulk!Replaced
<1>6. QED
  BY <1>2, <1>3, <1>4, <1>5, KeepsPromise, PTL DEF BulkMove, Bulk!Spec, Promised!Spec
=============================================================================
