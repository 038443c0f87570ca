------------------------------ MODULE MmvDoreps ------------------------------
(***************************************************************************)
(* The doing half of mmv_execute: doreps, and what it calls: movealias,    *)
(* appendalias, do_move_pair, copymove, mmv_copy, snap and the SIGINT      *)
(* handlers.  One action is one system call that changes the directories,  *)
(* or one branch of the code between two of them, so that every state is   *)
(* one a crash could leave behind.  Any call may fail at any time.         *)
(* A definition right before another one, differing from it in one detail, *)
(* is a slip the properties are sensitive to; the specification itself     *)
(* does not use it.                                                        *)
(***************************************************************************)
EXTENDS MmvRep

CONSTANTS
    Dir,        \* the directories
    DirOf,      \* the directory of each name
    MaxTemp,    \* bound on the sequence numbers tried for a temporary name
    TempName,   \* TempName[d][s] is "$$mmvtmp.<s>" in directory d
    MaxSig      \* bound on the number of SIGINTs

ASSUME TempAssumption ==
    /\ DirOf \in [Name -> Dir]
    /\ MaxTemp \in Nat /\ MaxSig \in Nat
    /\ TempName \in [Dir -> [0..MaxTemp -> Name]]
    /\ \A d \in Dir : IsInjective(TempName[d])
    /\ \A d \in Dir, s \in 0..MaxTemp : DirOf[TempName[d][s]] = d
    /\ \A j \in Jobs, d \in Dir : \E s \in 0..MaxTemp : TempName[d][s] \notin j.files

VARIABLES
    fs,         \* what each name holds: a sequence of pieces, or Absent
    hd, cur,    \* first, as its index in list, and p
    alias,      \* sequence number of the temporary name in use
    aliaslen,   \* length of the aliased file before anything was appended
    printaliased,
    noex, failed, gotsig,
    handler,    \* what SIGINT does now
    k,          \* how many reps doreps has come to
    lines,      \* lines printed by doreps: rep, its source as printed, done
    shown,      \* reps show_done_all has reported as done
    broken,     \* the rep snap was called for, Nil if none (history)
    sigs        \* number of SIGINTs so far (bound)

doVars == <<fs, hd, cur, alias, aliaslen, printaliased, noex, failed, gotsig,
            handler, k, lines, shown, broken, sigs>>

\* What a branch of the code that is no system call leaves alone.
calm == <<job, repVars, sigs>>

Absent == Nil
SizeUnlimited == -1
DoPhases == {"doreps", "chain", "rep", "alias", "unlink", "transfer",
             "copying", "unlinksrc", "print", "end"}

\* The directories as takedir read them; file f holds one piece, its own.
Original == [n \in Name |-> IF n \in job.files THEN <<n>> ELSE Absent]

DoInit ==
    /\ fs = Original
    /\ hd = 1 /\ cur = Nil /\ alias = 0 /\ aliaslen = SizeUnlimited
    /\ printaliased = FALSE
    /\ noex = job.noex /\ failed = FALSE /\ gotsig = FALSE
    /\ handler = "breakout" /\ k = 0
    /\ lines = {} /\ shown = {} /\ broken = Nil /\ sigs = 0
-----------------------------------------------------------------------------
Overwrites == job.op \in AppendOps \cup {"OVERWRITE"}
UsesAliasCopied(r) == r \in aliased /\ ~IsMove
UsesAlias(r) == r \in aliased /\ ~IsAppend
To == job.to[cur]

AliasSeqZero(d) == 0

\* make_alias_fname looks for a free number in the snapshot of the target's
\* directory, not in the directory itself.
AliasSeq(d) == CHOOSE s \in 0..MaxTemp :
                  /\ TempName[d][s] \notin job.files
                  /\ \A u \in 0..(s - 1) : TempName[d][u] \in job.files

\* mmv->pathbuf when the operation on cur is done.
From == IF UsesAlias(cur) THEN TempName[DirOf[cur]][alias] ELSE cur

\* show_done_all(fin): the inner loop stops at fin, the outer one goes on.
ShowDoneAll(fin) == (UNION {Chain(h) : h \in Range(list)}) \ Chain(fin)

PrintAliasNever == FALSE
PrintAlias == list[hd] # cur

(***************************************************************************)
(* snap, when noex is not set.  With ASKBAD and a terminal the user may    *)
(* have the report redirected; naming a file that can be opened is left to *)
(* the user, who is asked until it can.                                    *)
(***************************************************************************)
Snap ==
    /\ failed' = TRUE /\ handler' = "breakstat" /\ noex' = TRUE
    /\ broken' = cur
    /\ \E redirected \in BOOLEAN :
         /\ redirected => job.badstyle = "ASKBAD" /\ job.tty
         /\ shown' = IF redirected \/ ~job.verbose THEN shown \cup ShowDoneAll(cur)
                     ELSE shown
    /\ printaliased' = PrintAlias

NoSnap == UNCHANGED <<failed, handler, noex, broken, shown, printaliased>>

Goes(phase) == pc' = phase /\ UNCHANGED status
-----------------------------------------------------------------------------
StartDoreps ==
    /\ pc = "doreps"
    /\ handler' = "breakrep" /\ hd' = 1 /\ k' = 0
    /\ Goes("chain")
    /\ UNCHANGED <<calm, fs, cur, alias, aliaslen, printaliased, noex, failed,
                   gotsig, lines, shown, broken>>

NextChain ==
    /\ pc = "chain" /\ hd <= Len(list)
    /\ cur' = list[hd] /\ printaliased' = FALSE
    /\ Goes("rep")
    /\ UNCHANGED <<calm, fs, hd, alias, aliaslen, noex, failed, gotsig,
                   handler, k, lines, shown, broken>>

UserBreak ==
    /\ pc = "rep" /\ gotsig /\ ~noex
    /\ Snap /\ gotsig' = FALSE
    /\ Goes("print")
    /\ UNCHANGED <<calm, fs, hd, cur, alias, aliaslen, k, lines>>

BreaksAfterFailure == gotsig /\ noex /\ failed
BreaksWhilePrinting == gotsig /\ noex

\* snap's "if (mmv->noex) exit(1)": a break while only printing.
BreakPrinting ==
    /\ pc = "rep" /\ BreaksWhilePrinting
    /\ pc' = "exit" /\ status' = 1
    /\ UNCHANGED <<calm, doVars>>

NeedsAliasAlways == cur \in cycle
NeedsAlias == ~noex /\ cur \in cycle

StartRep ==
    /\ pc = "rep" /\ ~gotsig
    /\ Goes(IF NeedsAlias THEN "alias" ELSE IF noex THEN "print" ELSE "unlink")
    /\ UNCHANGED <<calm, doVars>>

MoveAlias ==
    /\ pc = "alias" /\ ~IsAppend
    /\ alias' = AliasSeq(DirOf[To])
    /\ \/ /\ fs[To] # Absent
          /\ fs' = [fs EXCEPT ![TempName[DirOf[To]][alias']] = fs[To], ![To] = Absent]
          /\ NoSnap /\ Goes("unlink")
       \/ Snap /\ Goes("print") /\ UNCHANGED fs
    /\ UNCHANGED <<calm, hd, cur, aliaslen, gotsig, k, lines>>

AppendAlias ==
    /\ pc = "alias" /\ IsAppend
    /\ \/ /\ fs[To] # Absent /\ aliaslen' = Len(fs[To])
          /\ NoSnap /\ Goes("unlink")
       \/ aliaslen' = SizeUnlimited /\ Snap /\ Goes("print")
    /\ UNCHANGED <<calm, fs, hd, cur, alias, gotsig, k, lines>>
-----------------------------------------------------------------------------
(***************************************************************************)
(* do_move_pair.                                                           *)
(***************************************************************************)
UnlinkOld ==
    /\ pc = "unlink"
    /\ IF fdel[cur] # Nil /\ ~Overwrites
       THEN \/ /\ fs[To] # Absent
               /\ fs' = [fs EXCEPT ![To] = Absent] /\ NoSnap /\ Goes("transfer")
            \/ Snap /\ Goes("print") /\ UNCHANGED fs
       ELSE NoSnap /\ Goes("transfer") /\ UNCHANGED fs
    /\ UNCHANGED <<calm, hd, cur, alias, aliaslen, gotsig, k, lines>>

Copies == job.op \in CopyOps \cup AppendOps \/ (IsMove /\ cur \in job.isx)

Rename ==
    /\ pc = "transfer" /\ IsMove /\ ~Copies
    /\ \/ /\ fs[From] # Absent
          /\ fs' = IF From = To THEN fs
                   ELSE [fs EXCEPT ![To] = fs[From], ![From] = Absent]
          /\ NoSnap
       \/ Snap /\ UNCHANGED fs
    /\ Goes("print")
    /\ UNCHANGED <<calm, hd, cur, alias, aliaslen, gotsig, k, lines>>

Link ==
    /\ pc = "transfer" /\ job.op \in LinkOps
    /\ \/ /\ fs[To] = Absent /\ fs[From] # Absent
          /\ fs' = [fs EXCEPT ![To] = fs[From]]
          /\ NoSnap
       \/ Snap /\ UNCHANGED fs
    /\ Goes("print")
    /\ UNCHANGED <<calm, hd, cur, alias, aliaslen, gotsig, k, lines>>

Truncated(old) == << >>
Opened(old) == IF IsAppend /\ old # Absent THEN old ELSE << >>

\* file_copy opens the source, then the target (O_CREAT, and O_TRUNC unless
\* appending); if either cannot be opened nothing is undone.
CopyOpen ==
    /\ pc = "transfer" /\ Copies
    /\ \/ /\ fs[From] # Absent
          /\ fs' = [fs EXCEPT ![To] = Opened(@)]
          /\ NoSnap /\ Goes("copying")
       \/ Snap /\ Goes("print") /\ UNCHANGED fs
    /\ UNCHANGED <<calm, hd, cur, alias, aliaslen, gotsig, k, lines>>

TransferredAll == fs[From]

\* The pieces file_copy_fds transfers: no more than aliaslen of an aliased
\* source.
Transferred ==
    IF cur \in aliased /\ ~IsMove /\ aliaslen # SizeUnlimited
    THEN SubSeq(fs[From], 1, IF aliaslen < Len(fs[From]) THEN aliaslen
                             ELSE Len(fs[From]))
    ELSE fs[From]

\* A failed copy removes the target it has begun, a failed append does not.
SourceRemoved == [fs EXCEPT ![From] = IF IsAppend THEN @ ELSE Absent]
CopyRemoved == [fs EXCEPT ![To] = IF IsAppend THEN @ ELSE Absent]

CopyData ==
    /\ pc = "copying"
    /\ \/ /\ fs' = [fs EXCEPT ![To] = @ \o Transferred]
          /\ NoSnap /\ Goes(IF IsMove THEN "unlinksrc" ELSE "print")
       \/ /\ fs' = CopyRemoved
          /\ Snap /\ Goes("print")
       \/ /\ IsAppend /\ Transferred # << >>
          /\ fs' = [fs EXCEPT ![To] = @ \o Front(Transferred)]
          /\ Snap /\ Goes("print")
    /\ UNCHANGED <<calm, hd, cur, alias, aliaslen, gotsig, k, lines>>

SourceStays == fs
SourceGone == [fs EXCEPT ![From] = Absent]

\* copymove's mmv_unlink(mmv->pathbuf).
UnlinkSource ==
    /\ pc = "unlinksrc"
    /\ \/ fs' = SourceGone /\ NoSnap
       \/ Snap /\ UNCHANGED fs
    /\ Goes("print")
    /\ UNCHANGED <<calm, hd, cur, alias, aliaslen, gotsig, k, lines>>
-----------------------------------------------------------------------------
\* The line doreps prints, and the two loops' steps to the next rep.
PrintedFrom == IF cur \in aliased /\ ~printaliased THEN cur ELSE From

PrintsVerbose == job.verbose
Prints == job.verbose \/ noex
DoneAlways == TRUE
DoneMark == ~noex
ChainEndless == TRUE
ChainGoesOn == thendo[cur] # Nil

PrintLine ==
    /\ pc = "print"
    /\ lines' = IF Prints
                THEN lines \cup {[rep |-> cur, from |-> PrintedFrom, done |-> DoneMark]}
                ELSE lines
    /\ k' = k + 1
    /\ IF ChainGoesOn
       THEN cur' = thendo[cur] /\ Goes("rep") /\ UNCHANGED hd
       ELSE cur' = Nil /\ hd' = hd + 1 /\ Goes("chain")
    /\ UNCHANGED <<calm, fs, alias, aliaslen, printaliased, noex, failed,
                   gotsig, handler, shown, broken>>

ChainsEnd ==
    /\ pc = "chain" /\ hd > Len(list)
    /\ pc' = "exit"
    /\ status' = IF failed THEN 2
                 ELSE IF nreps = 0 /\ (job.paterr \/ badreps > 0) THEN 1 ELSE 0
    /\ UNCHANGED <<calm, doVars>>

\* breakrep; breakout before doreps has installed it, breakstat after snap.
Sigint ==
    /\ pc \in DoPhases /\ sigs < MaxSig
    /\ sigs' = sigs + 1
    /\ IF handler = "breakrep"
       THEN gotsig' = TRUE /\ UNCHANGED <<pc, status>>
       ELSE pc' = "exit" /\ status' = 1 /\ UNCHANGED gotsig
    /\ UNCHANGED <<job, repVars, fs, hd, cur, alias, aliaslen, printaliased,
                   noex, failed, handler, k, lines, shown, broken>>

DoStep ==
    \/ StartDoreps \/ NextChain \/ UserBreak \/ BreakPrinting \/ StartRep
    \/ MoveAlias \/ AppendAlias
    \/ UnlinkOld \/ Rename \/ Link \/ CopyOpen \/ CopyData \/ UnlinkSource
    \/ PrintLine \/ ChainsEnd
=============================================================================
