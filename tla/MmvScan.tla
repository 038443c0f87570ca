------------------------------- MODULE MmvScan -------------------------------
(***************************************************************************)
(* From {from -> to} pairs to REPs: the readers of mmv-read-*.c and        *)
(* mmv_add_fname_pairs, the parsing of a pair, and dostage_fnames with all *)
(* it calls (checkdir, trymatch, keepmatch, badrep, checkto, dwritable),   *)
(* up to the call of mmv_execute.  What it promises is the precondition of *)
(* MmvRep: HandsOver.                                                      *)
(*                                                                         *)
(* A path is a spelling of its directory ("", "s/", "./s/", ...) and a     *)
(* simple name; a directory (inode) may have several spellings, and two    *)
(* spellings are one DIRINFO only if dsearch finds it.  Neither "search    *)
(* path too long" test can fire here: a pair shorter than MAXPATLEN, which *)
(* is PATH_MAX, is matched literally.                                      *)
(***************************************************************************)
EXTENDS Integers, Sequences, FiniteSets, Functions

CONSTANTS
    Spelling,   \* names of directories, each ending in "/", or the empty one
    Simple,     \* simple file names
    Inode,      \* directories
    Cwd,        \* the empty spelling
    Home,       \* what "~/" expands to, a spelling
    Empty,      \* no simple name: the path ends with its directory
    Dots,       \* the names "." and ".."
    LongNames,  \* simple names longer than name_max
    Below,      \* spelling of a directory inside another: <<spelling, name>>
    NoDir, Nil, Mistake,
    Calls       \* the invocations considered

MoveOps == {"NORMMOVE", "XMOVE", "DIRMOVE"}
File    == Inode \X Simple
Readers == {"nul", "qp", "vis", "xnn", "argv", "pat"}

(***************************************************************************)
(* One item of the input.  "path" is a file name; "home" one that was      *)
(* written ~/name; "homelong" one whose expansion does not fit; "bad" a    *)
(* line the decoder rejects; "long" one that does not fit the buffer,      *)
(* "longbad" one of these that is cut where the decoder rejects it, and    *)
(* "full" one that fits only without the NUL that ends it.  "repbad" is a  *)
(* target that makerep has found to be none (module MmvPattern).           *)
(***************************************************************************)
Item == [kind : {"path", "home", "homelong", "bad", "long", "longbad", "full",
                 "repbad"},
         dir : Spelling, name : Simple \cup {Empty}]

\* The directories as they are during the scan.
World == [at : [Spelling -> Inode \cup {NoDir}], dev : [Inode -> Nat],
          files : [Inode -> SUBSET Simple], sub : [File -> Inode \cup {NoDir}],
          unreadable : SUBSET Inode, unwritable : SUBSET Inode,
          dangling : SUBSET File, noread : SUBSET File]

\* An entry is a directory exactly if sub leads somewhere, and going there by
\* name is what Below spells.
WorldOK(w) ==
    /\ \A f \in File : w.sub[f] # NoDir =>
         f[2] \in w.files[f[1]] /\ f \notin w.dangling
    /\ \A s \in Spelling, n \in Simple :
         <<s, n>> \in DOMAIN Below /\ w.at[s] # NoDir =>
            w.at[Below[<<s, n>>]] = w.sub[<<w.at[s], n>>]

\* A directory that a pair names as its target can be spelled.
TargetsSpelled(c) ==
    \A t \in Range(c.input) :
        /\ c.world.at[t.dir] # NoDir /\ t.name # Empty
        /\ c.world.sub[<<c.world.at[t.dir], t.name>>] # NoDir
        => <<t.dir, t.name>> \in DOMAIN Below

CallOK(c) ==
    /\ c.op \in {"NORMMOVE", "XMOVE", "DIRMOVE", "NORMCOPY", "OVERWRITE",
                 "NORMAPPEND", "HARDLINK"}
    /\ c.reader \in Readers /\ c.input \in Seq(Item)
    /\ c.world \in World /\ WorldOK(c.world) /\ TargetsSpelled(c)

ASSUME SpellingAssumption ==
    /\ Cwd \in Spelling /\ NoDir \notin Inode /\ Empty \notin Simple
    /\ Nil \notin Nat \X Simple
    /\ \A f \in DOMAIN Below : Below[f] \in Spelling

ASSUME CallsAssumption == \A c \in Calls : CallOK(c)

VARIABLES
    call,       \* operation, reader, input and directories; never changes
    pc,         \* where the program is
    pos,        \* how many items have been consumed
    from, to,   \* mmv->from, mmv->to
    paterr,     \* mmv->paterr
    handle,     \* h_di of each spelling: a place in dirs, 0 if never asked,
                \* H_NODIR or H_NOREADDIR if checkdir has failed
    dirs,       \* the inode of each DIRINFO, in the order of dadd
    mistakes,   \* the FILEINFOs with fi_rep = &mistake
    badreps,    \* mmv->badreps
    reps,       \* the REPs, in the order of lastrep
    cand,       \* badrep's results for the current source
    tried,      \* pairs that reached dostage_fnames
    unmatched   \* pairs for which "no match" or "does not exist" was printed

callVars == <<call, tried, unmatched>>
readVars == <<pos, from, to>>
dirVars  == <<handle, dirs>>
repVars  == <<mistakes, badreps, reps>>
scanVars == <<call, pc, pos, from, to, paterr, handle, dirs, mistakes,
              badreps, reps, cand, tried, unmatched>>

H_NODIR == -1
H_NOREADDIR == -2
NoWord  == [kind |-> "path", dir |-> Cwd, name |-> Empty]
NoCand  == [hto |-> Cwd, nto |-> Empty, fdel |-> Nil, path |-> FALSE]
W       == call.world
Pair    == pos \div 2
More    == pos < Len(call.input)
Item1   == call.input[pos + 1]
Item2   == call.input[pos + 2]

ScanInit ==
    /\ call \in Calls
    /\ pc = CASE call.reader = "argv" -> "args"
              [] call.reader = "pat"  -> "getpat"
              [] OTHER                -> "from"
    /\ pos = 0 /\ from = NoWord /\ to = NoWord /\ paterr = FALSE
    /\ handle = [s \in Spelling |-> 0] /\ dirs = << >>
    /\ mistakes = {} /\ badreps = 0 /\ reps = << >>
    /\ cand = NoCand /\ tried = {} /\ unmatched = {}
-----------------------------------------------------------------------------
(***************************************************************************)
(* Readers.  get_filename_* return EOF at the end of the input, also when  *)
(* the last record is not terminated.  The decoding readers return -1 for  *)
(* a line that cannot be decoded: that is EOF, too.                        *)
(***************************************************************************)
AtEofOff == More => Item1.kind \in {"bad", "longbad"}
AtEof   == More => Item1.kind \in {"bad", "longbad"} /\ call.reader # "nul"
TooLong == More /\ Item1.kind \in {"long", "longbad"}

\* Every reader but xnn starts a pair by forgetting the errors of the others.
Forgotten == IF call.reader = "xnn" THEN paterr ELSE FALSE

ReadEofOff ==
    /\ pc = "from" /\ AtEof
    /\ paterr' = Forgotten /\ pc' = "execute"
    /\ UNCHANGED <<callVars, readVars, dirVars, repVars, cand>>
\* The end of the input, before a pair or in the middle of one: execute.
ReadEof ==
    /\ \/ pc = "from" /\ paterr' = Forgotten
       \/ pc = "to" /\ UNCHANGED paterr
    /\ AtEof
    /\ pc' = "execute"
    /\ UNCHANGED <<callVars, readVars, dirVars, repVars, cand>>

ReadTooLong ==
    /\ \/ pc = "from" /\ paterr' = Forgotten
       \/ pc = "to" /\ UNCHANGED paterr
    /\ ~AtEof /\ TooLong
    /\ pc' = "error"
    /\ UNCHANGED <<callVars, readVars, dirVars, repVars, cand>>

ReadFrom ==
    /\ pc = "from" /\ ~AtEof /\ ~TooLong
    /\ from' = Item1 /\ pos' = pos + 1
    /\ paterr' = Forgotten
    /\ pc' = "to"
    /\ UNCHANGED <<callVars, to, dirVars, repVars, cand>>

\* The nul reader counts the NUL, so a name that just fits is refused.
ReadTo ==
    /\ pc = "to" /\ ~AtEof /\ ~TooLong
    /\ to' = Item1 /\ pos' = pos + 1
    /\ LET full == call.reader = "nul" /\ "full" \in {from.kind, Item1.kind}
       IN  /\ paterr' = (paterr \/ full)
           /\ pc' = IF full THEN "error" ELSE "parse"
    /\ UNCHANGED <<callVars, from, dirVars, repVars, cand>>

\* mmv_add_fname_pairs: every pair is copied to mmv->from and mmv->to and
\* parsed; only then comes mmv_compile.
OddArgs ==
    /\ pc = "args" /\ Len(call.input) % 2 = 1
    /\ pc' = "error"
    /\ UNCHANGED <<callVars, readVars, paterr, dirVars, repVars, cand>>

NextArgs ==
    /\ pc = "args" /\ Len(call.input) % 2 = 0
    /\ IF More
         THEN /\ from' = Item1 /\ to' = Item2 /\ pos' = pos + 2
              /\ pc' = "parse"
         ELSE pc' = "stage" /\ UNCHANGED readVars
    /\ UNCHANGED <<callVars, paterr, dirVars, repVars, cand>>

\* parse_src_fname and parse_dst_fname expand ~/; what follows the home
\* directory of a target is what is searched for a slash under -r.
ParseFails ==
    \/ "homelong" \in {from.kind, to.kind}
    \/ call.op = "DIRMOVE" /\ to.kind # "home" /\ to.dir # Cwd

ParseError ==
    /\ pc = "parse" /\ call.reader # "xnn" /\ ParseFails
    /\ paterr' = TRUE /\ pc' = "error"
    /\ UNCHANGED <<callVars, readVars, dirVars, repVars, cand>>

ParseOK ==
    /\ pc = "parse" /\ call.reader # "xnn" /\ ~ParseFails
    /\ pc' = IF call.reader = "argv" THEN "args" ELSE "stage"
    /\ UNCHANGED <<callVars, readVars, paterr, dirVars, repVars, cand>>

\* The xnn reader calls matchpat, whose parse_src_pattern goes through
\* mmv->aux: NULL here, for only the pattern programs call mmv_init_patgen.
ParseXnn ==
    /\ pc = "parse" /\ call.reader = "xnn"
    /\ IF from.kind = "homelong"
         THEN paterr' = TRUE /\ pc' = "error"
         ELSE pc' = "crash" /\ UNCHANGED paterr
    /\ UNCHANGED <<callVars, readVars, dirVars, repVars, cand>>
-----------------------------------------------------------------------------
(***************************************************************************)
(* The directory cache.                                                    *)
(***************************************************************************)
dsearchOff(d) == IF dirs # << >> /\ W.dev[dirs[1]] = W.dev[d] THEN 1 ELSE 0
\* dsearch starts at *dirs and counts up the pointer to that DIRINFO, not the
\* array: behind the first one it looks at memory that is no DIRINFO.
dsearch(d) == IF dirs # << >> /\ dirs[1] = d THEN 1 ELSE 0

\* What hsearch finds, or else checkdir stores in the handle.
Found(s) ==
    IF handle[s] # 0 THEN handle[s]
    ELSE IF W.at[s] = NoDir THEN H_NODIR
    ELSE IF W.at[s] \in W.unreadable THEN H_NOREADDIR
    ELSE IF dsearch(W.at[s]) # 0 THEN dsearch(W.at[s])
    ELSE Len(dirs) + 1

checkdirOff(s) ==
    handle' = [handle EXCEPT ![s] = Found(s)] /\ UNCHANGED dirs
\* checkdir(s) with the takedir of a new directory.
checkdir(s) ==
    /\ handle' = [handle EXCEPT ![s] = Found(s)]
    /\ dirs' = IF Found(s) > Len(dirs) THEN Append(dirs, W.at[s]) ELSE dirs

\* fsearch(n, d), for DIRINFO number d of inode i: a FILEINFO or NULL.
fsearch(n, i, d) == IF n \in W.files[i] THEN <<d, n>> ELSE Nil

HasRepOff(f) == \E k \in DOMAIN reps : reps[k].ffrom = f
HasRep(f) == f \in mistakes \/ \E k \in DOMAIN reps : reps[k].ffrom = f

Dangles(s, n) == <<W.at[s], n>> \in W.dangling
IsDir(s, n)   == W.sub[<<W.at[s], n>>] # NoDir
NoRead(s, n)  == <<W.at[s], n>> \in W.noread
dwritable(s)  == W.at[s] \notin W.unwritable

\* Back to the reader or to dostage_patterns, or, for argv, from mmv_compile to
\* the program.
Return(err) ==
    pc' = CASE call.reader = "argv" -> IF err THEN "error" ELSE "execute"
            [] call.reader = "pat"  -> "walk"
            [] OTHER                -> "from"
-----------------------------------------------------------------------------
(***************************************************************************)
(* dostage_fnames.                                                         *)
(***************************************************************************)
ffrom == <<handle[from.dir], from.name>>

\* The source directory can be used and the file is there.  trymatch passes
\* over a file that has its REP, or has been refused, already.
Matches ==
    LET d == Found(from.dir) IN
    /\ d > 0
    /\ call.op \in MoveOps => dwritable(from.dir)
    /\ from.name \in W.files[W.at[from.dir]]
    /\ ~HasRep(<<d, from.name>>)

Stage ==
    /\ pc = "stage"
    /\ checkdir(from.dir)
    /\ tried' = tried \cup {Pair}
    /\ IF Matches
         THEN /\ pc' = IF Dangles(from.dir, from.name) THEN "quit" ELSE "source"
              /\ UNCHANGED <<paterr, unmatched>>
         ELSE /\ paterr' = TRUE /\ unmatched' = unmatched \cup {Pair}
              /\ Return(TRUE)
    /\ UNCHANGED <<call, readVars, repVars, cand>>

RefuseSource ==
    /\ badreps' = badreps + 1 /\ mistakes' = mistakes \cup {ffrom}
    /\ Return(paterr)
    /\ UNCHANGED <<callVars, readVars, paterr, reps>>

\* What badrep says about the source and about an empty new name.
BadSource ==
    \/ IsDir(from.dir, from.name) /\ call.op # "DIRMOVE"
    \/ call.op \in {"NORMCOPY", "OVERWRITE", "NORMAPPEND"}
         /\ NoRead(from.dir, from.name)
    \/ from.name \in Dots
    \/ to.kind = "repbad"
    \/ to.dir = Cwd /\ to.name = Empty

SourceBad == pc = "source" /\ BadSource /\ RefuseSource
             /\ UNCHANGED <<dirVars, cand>>

SourceGood ==
    /\ pc = "source" /\ ~BadSource
    /\ pc' = "checkto"
    /\ UNCHANGED <<callVars, readVars, paterr, dirVars, repVars, cand>>

\* The target is n in the directory spelled s, whose handle is d; path says
\* that n is not a simple name, and d < 0 that
\* there is no such directory, or none to be searched.
Target(s, n, d, path) ==
    [hto |-> s, nto |-> n, path |-> path,
     fdel |-> IF d < 0 \/ path THEN Nil ELSE fsearch(n, W.at[s], d)]

\* With the getstat of what would be replaced.
Take(s, n, d) ==
    /\ cand' = Target(s, n, d, FALSE)
    /\ pc' = IF n \in W.files[W.at[s]] /\ Dangles(s, n) THEN "quit"
             ELSE "verdict"

\* checkto under -r: the new name is looked up in the source's directory, the
\* whole of it, which no simple name equals if it begins with the home.
CheckToDirmove ==
    /\ pc = "checkto" /\ call.op = "DIRMOVE"
    /\ IF to.kind = "home"
         THEN cand' = Target(from.dir, to.name, handle[from.dir], TRUE)
              /\ pc' = "verdict"
         ELSE Take(from.dir, to.name, handle[from.dir])
    /\ UNCHANGED <<callVars, readVars, paterr, dirVars, repVars>>

CheckTo ==
    LET d == Found(to.dir)
        n == IF to.name = Empty THEN from.name ELSE to.name
        enters == to.name # Empty /\ IsDir(to.dir, to.name)
    IN
    /\ pc = "checkto" /\ call.op # "DIRMOVE"
    /\ checkdir(to.dir)
    /\ \/ d < 0 /\ cand' = Target(to.dir, n, d, FALSE) /\ pc' = "verdict"
       \/ d > 0 /\ enters /\ pc' = "inside" /\ UNCHANGED cand
       \/ d > 0 /\ ~enters /\ Take(to.dir, n, d)
    /\ UNCHANGED <<callVars, readVars, paterr, repVars>>

\* The target is an existing directory: into it, under the source's name.
CheckInside ==
    LET s == Below[<<to.dir, to.name>>] IN
    /\ pc = "inside"
    /\ checkdir(s)
    /\ IF Found(s) < 0
         THEN cand' = Target(s, from.name, Found(s), FALSE) /\ pc' = "verdict"
         ELSE Take(s, from.name, Found(s))
    /\ UNCHANGED <<callVars, readVars, paterr, repVars>>

IsX == W.dev[W.at[cand.hto]] # W.dev[W.at[from.dir]]

\* What badrep says about the target.
BadTarget ==
    \/ cand.nto \in LongNames \cup (IF cand.path THEN {} ELSE Dots)
    \/ handle[cand.hto] < 0
    \/ handle[cand.hto] > 0 /\
         \/ ~dwritable(cand.hto)
         \/ IsX /\ call.op \in {"NORMMOVE", "HARDLINK"}
         \/ IsX /\ call.op \in MoveOps /\ NoRead(from.dir, from.name)

TargetBad == pc = "verdict" /\ BadTarget /\ RefuseSource
             /\ UNCHANGED <<dirVars, cand>>

KeepRep ==
    /\ pc = "verdict" /\ ~BadTarget
    /\ reps' = Append(reps, [pair |-> Pair, hfrom |-> from.dir, ffrom |-> ffrom,
                             to |-> cand, isx |-> IsX])
    /\ Return(paterr)
    /\ UNCHANGED <<callVars, readVars, paterr, dirVars, mistakes, badreps, cand>>

ScanNext ==
    \/ ReadEof \/ ReadTooLong \/ ReadFrom \/ ReadTo \/ OddArgs \/ NextArgs
    \/ ParseError \/ ParseOK \/ ParseXnn
    \/ Stage \/ SourceBad \/ SourceGood \/ CheckToDirmove \/ CheckTo
    \/ CheckInside \/ TargetBad \/ KeepRep

ScanSpec == ScanInit /\ [][ScanNext]_scanVars /\ WF_scanVars(ScanNext)
-----------------------------------------------------------------------------
(***************************************************************************)
(* Properties.                                                             *)
(***************************************************************************)
ScanPhases == {"from", "to", "args", "parse", "stage", "source", "checkto",
               "inside", "verdict", "execute", "error", "crash", "quit",
               "getpat", "pattern", "enter", "walk"}

\* The types of the scan's variables.
ScanTypeOK ==
    /\ pc \in ScanPhases /\ pos \in 0..Len(call.input)
    /\ {from, to} \subseteq Item /\ paterr \in BOOLEAN
    /\ handle \in [Spelling -> H_NOREADDIR..Len(dirs)]
    /\ dirs \in Seq(Inode)
    /\ mistakes \subseteq (DOMAIN dirs) \X Simple /\ badreps \in Nat
    /\ \A r \in Range(reps) :
         /\ r.pair \in tried /\ r.ffrom \in (DOMAIN dirs) \X Simple
         /\ r.to.fdel = Nil \/ r.to.fdel \in (DOMAIN dirs) \X Simple

\* Where names really are: a file in its inode, not in a spelling.
Place(f)    == <<dirs[f[1]], f[2]>>
SourceOf(r) == Place(r.ffrom)
TargetOf(r) ==
    IF ~r.to.path THEN <<W.at[r.to.hto], r.to.nto>>
    ELSE <<IF r.hfrom = Cwd THEN W.at[Home] ELSE NoDir, r.to.nto>>

RepOf(f) == CHOOSE r \in Range(reps) : SourceOf(r) = f
HasPlacedRep(f) == \E r \in Range(reps) : SourceOf(r) = f

\* The job the scan hands to mmv_execute.
ScanJob ==
    [op |-> call.op, paterr |-> paterr,
     bad |-> {Place(f) : f \in mistakes},
     reps |-> [k \in DOMAIN reps |-> SourceOf(reps[k])],
     to |-> [f \in File |-> IF HasPlacedRep(f) THEN TargetOf(RepOf(f)) ELSE f],
     files |-> {f \in File : f[2] \in W.files[f[1]]},
     dirs |-> {f \in File : W.sub[f] # NoDir}, ro |-> {}, delok |-> {},
     isx |-> {SourceOf(r) : r \in {q \in Range(reps) : q.isx}}]

Rep == INSTANCE MmvRep WITH
    Name <- File, Jobs <- {}, job <- ScanJob, list <- ScanJob.reps,
    thendo <- [f \in File |-> Nil], first <- [f \in File |-> f],
    fdel <- [f \in File |->
               IF HasPlacedRep(f) /\ RepOf(f).to.fdel # Nil
               THEN Place(RepOf(f).to.fdel) ELSE Nil],
    fiRep <- [f \in File |-> IF HasPlacedRep(f) THEN f
                             ELSE IF f \in ScanJob.bad THEN Mistake ELSE Nil],
    skip <- {}, cycle <- {}, aliased <- {}, nreps <- Len(reps),
    status <- 0

\* What mmv_execute relies on: when the scan calls it, every file has at most
\* one REP or one counted refusal, no REP is one badrep must refuse, and each
\* r_fdel is exactly the existing file the target names, or NULL.
HandsOver == pc = "execute" => Rep!JobOK(ScanJob) /\ Rep!RepStart

\* What mv does with the same two names: into an existing directory under the
\* source's name, but never out of the source's directory under -r.
MvTarget(f, t) ==
    LET d == W.at[t.dir] IN
    IF call.op = "DIRMOVE" THEN <<W.at[f.dir], t.name>>
    ELSE IF t.name = Empty THEN <<d, f.name>>
    ELSE IF W.sub[<<d, t.name>>] # NoDir THEN <<W.sub[<<d, t.name>>], f.name>>
    ELSE <<d, t.name>>

\* Each REP does what its own pair says, however the directories are spelled
\* and whatever checkdir has cached for earlier pairs; and the first of several
\* pairs with one source wins.
TargetsAsMv ==
    pc = "execute" => \A i \in DOMAIN reps :
        LET f == call.input[2 * reps[i].pair - 1]
            t == call.input[2 * reps[i].pair]
        IN  /\ SourceOf(reps[i]) = <<W.at[f.dir], f.name>>
            /\ TargetOf(reps[i]) = MvTarget(f, t)
            /\ \A q \in tried : q < reps[i].pair =>
                 LET g == call.input[2 * q - 1] IN
                 <<W.at[g.dir], g.name>> = SourceOf(reps[i]) => q \in unmatched

\* mmv_execute is not called before every complete pair has been looked up.
EveryPairTried ==
    pc = "execute" => \A k \in 1..(Len(call.input) \div 2) : k \in tried

\* Two spellings of a directory are one DIRINFO: "Search all |DIRINFO| struct
\* for matching the given { devid, dirid }", before dsearch.
SpellingsShare ==
    \A s, t \in Spelling :
        handle[s] > 0 /\ handle[t] > 0 /\ W.at[s] = W.at[t]
            => handle[s] = handle[t]

\* Under -r a file stays in its directory ("no path allowed in target").
DirMoveStays ==
    call.op = "DIRMOVE" =>
        \A r \in Range(reps) : TargetOf(r)[1] = SourceOf(r)[1]

\* Reading and scanning come to an end.
ScanEnds == <>(pc \in {"execute", "error", "crash", "quit"})
=============================================================================
