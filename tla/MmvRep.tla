------------------------------- MODULE MmvRep -------------------------------
(***************************************************************************)
(* The replacement store every other module works on: the job (what the    *)
(* options, the scan of the directories and the {from -> to} pairs put     *)
(* into an mmv_t before mmv_execute runs) and the mutable part of the REP  *)
(* structures of mmv-impl-rep.h.                                           *)
(*                                                                         *)
(* dostage_fnames and dostage_patterns give a source file at most one REP  *)
(* (trymatch refuses a FILEINFO that already has an fi_rep), so a REP is   *)
(* named by its source file: r_ffrom of rep r is r itself.  A name here is *)
(* a whole path (directory and simple name): two names are equal exactly   *)
(* when rd_same_target says so.                                            *)
(***************************************************************************)
EXTENDS Integers, Sequences, FiniteSets, Functions, SequencesExt

CONSTANTS
    Name,       \* every path an invocation can meet
    Nil,        \* the NULL pointer
    Mistake,    \* &mmv->mistake, the sentinel fi_rep of a refused source
    Jobs        \* the invocations considered

ASSUME NameAssumption == IsFiniteSet(Name) /\ Nil \notin Name
                         /\ Mistake \notin Name /\ Nil # Mistake

MoveOps   == {"NORMMOVE", "XMOVE", "DIRMOVE"}
CopyOps   == {"NORMCOPY", "OVERWRITE"}
AppendOps == {"NORMAPPEND"}
LinkOps   == {"HARDLINK"}     \* no option sets SYMLINK, DFLT is replaced
Ops       == MoveOps \cup CopyOps \cup AppendOps \cup LinkOps
DelStyles == {"ASKDEL", "ALLDEL", "NODEL"}
BadStyles == {"ASKBAD", "SKIPBAD", "ABORTBAD"}

(***************************************************************************)
(* What mmv_execute finds when it is called.  reps: the hrep list, in the  *)
(* order of ++lastrep; to: r_hto/r_nto of each rep; files: the snapshot of *)
(* the directories takedir made; dirs: FI_ISDIR; ro: access(W_OK) fails;   *)
(* delok: R_DELOK (a deletion approved in the pattern itself); isx: R_ISX  *)
(* (target on another device); bad: sources badrep has refused, each       *)
(* counted in badreps and left with fi_rep = &mistake; paterr: some        *)
(* pattern or pair could not be used at all.                               *)
(***************************************************************************)
Job == [op : Ops, delstyle : DelStyles, badstyle : BadStyles,
        paterr : BOOLEAN, bad : SUBSET Name, reps : Seq(Name), to : [Name -> Name],
        files : SUBSET Name, dirs : SUBSET Name, ro : SUBSET Name,
        delok : SUBSET Name, isx : SUBSET Name,
        noex : BOOLEAN, verbose : BOOLEAN, tty : BOOLEAN]

(***************************************************************************)
(* What badrep and trymatch have already refused cannot be in a job: a     *)
(* source that is not in the snapshot, two REPs of one source, a directory *)
(* as a source except for DIRMOVE, a cross-device NORMMOVE or HARDLINK,    *)
(* and a DIRMOVE out of its directory.                                     *)
(***************************************************************************)
JobOK(j) ==
    /\ IsInjective(j.reps)
    /\ Range(j.reps) \subseteq j.files
    /\ j.dirs \cup j.ro \subseteq j.files
    /\ j.bad \subseteq j.files \ Range(j.reps)
    /\ j.op # "DIRMOVE" => Range(j.reps) \cap j.dirs = {}
    /\ j.op \in {"NORMMOVE", "HARDLINK", "DIRMOVE"} => j.isx = {}

ASSUME JobsAssumption == \A j \in Jobs : j \in Job /\ JobOK(j)

\* NULL is no sequence of anything.
ASSUME NilAssumption == Nil \notin Seq(Name)

VARIABLES
    job,        \* the invocation; never changes
    list,       \* mmv->hrep.r_next: the heads of the chains, in order
    thendo,     \* r_thendo: the rep to do right after this one
    first,      \* r_first: the head of the chain the rep is in
    fdel,       \* r_fdel: the existing file the rep would replace
    fiRep,      \* fi_rep of each file: Nil, Mistake or the rep it has
    skip,       \* reps with R_SKIP
    cycle,      \* reps with R_ISCYCLE
    aliased,    \* reps with R_ISALIASED
    nreps,      \* mmv->nreps
    badreps,    \* mmv->badreps (of this stage)
    pc,         \* where the program is
    status      \* exit status, or Running

repVars == <<list, thendo, first, fdel, fiRep, skip, cycle, aliased,
             nreps, badreps>>

Running  == -1
IsMove   == job.op \in MoveOps
IsAppend == job.op \in AppendOps
Sources  == Range(job.reps)
Live     == {r \in Sources : fiRep[r] = r}

\* The reps r_thendo leads to from rep h on: the least set with h that it does
\* not leave.
Closed(C) == \A x \in C : thendo[x] \in C \cup {Nil}
Chain(h)  == {x \in Sources : \A C \in SUBSET Sources :
                                 h \in C /\ Closed(C) => x \in C}

(***************************************************************************)
(* The REPs as dostage_fnames leaves them: one per source in input order,  *)
(* alone in its chain, r_fdel the snapshot's entry for the target.         *)
(***************************************************************************)
RepStart ==
    /\ list = job.reps
    /\ thendo = [n \in Name |-> Nil]
    /\ first = [n \in Name |-> n]
    /\ fdel = [n \in Name |-> IF n \in Sources /\ job.to[n] \in job.files
                              THEN job.to[n] ELSE Nil]
    /\ fiRep = [n \in Name |-> IF n \in Sources THEN n
                              ELSE IF n \in job.bad THEN Mistake ELSE Nil]
    /\ skip = {} /\ cycle = {} /\ aliased = {}
    /\ nreps = Len(job.reps)
    /\ badreps = Cardinality(job.bad)

RepInit == job \in Jobs /\ RepStart

RepTypeOK ==
    /\ job \in Job /\ JobOK(job)
    /\ list \in Seq(Name)
    /\ thendo \in [Name -> Name \cup {Nil}]
    /\ first \in [Name -> Name]
    /\ fdel \in [Name -> Name \cup {Nil}]
    /\ fiRep \in [Name -> Name \cup {Nil, Mistake}]
    /\ skip \subseteq Name /\ cycle \subseteq Name /\ aliased \subseteq Name
    /\ nreps \in Int
    /\ badreps \in Nat
=============================================================================
