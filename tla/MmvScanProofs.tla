---------------------------- MODULE MmvScanProofs ----------------------------
(***************************************************************************)
(* The scan of any pairs in any directories: its types, and that every     *)
(* file it accepts gets one REP and every file it refuses is counted once. *)
(* The invariant says what dostage_fnames may rely on between two of its   *)
(* steps: a handle that is open stays open, and the source it works on is  *)
(* in a directory that is open and has no REP yet.                         *)
(***************************************************************************)
EXTENDS MmvScan, FiniteSetTheorems, TLAPS

Working == {"source", "checkto", "inside", "verdict"}

CandRec == [hto : Spelling, nto : Simple \cup {Empty}, path : BOOLEAN,
            fdel : (Nat \X Simple) \cup {Nil}]
RepRec  == [pair : Int, hfrom : Spelling, ffrom : Nat \X Simple, to : CandRec,
            isx : BOOLEAN]

HandlesOpen == \A s \in Spelling : handle[s] > 0 => W.at[s] \in Inode

\* No file has two REPs, or a REP and a refusal, and each refusal is counted.
OneRepEach ==
    /\ IsFiniteSet(mistakes) /\ badreps = Cardinality(mistakes)
    /\ \A i, j \in DOMAIN reps : reps[i].ffrom = reps[j].ffrom => i = j
    /\ \A k \in DOMAIN reps : reps[k].ffrom \notin mistakes

\* The source that dostage_fnames or dostage_patterns works on, and what is known
\* of its target.
AtWork ==
    pc \in Working =>
        /\ handle[from.dir] > 0 /\ from.name \in Simple
        /\ ~HasRep(ffrom)
        /\ pc = "inside" =>
             /\ handle[to.dir] > 0 /\ to.name # Empty
             /\ IsDir(to.dir, to.name) /\ <<to.dir, to.name>> \in DOMAIN Below
        /\ pc = "verdict" =>
             cand.fdel = Nil \/ cand.fdel \in (DOMAIN dirs) \X Simple

CoreTypes ==
    /\ pc \in ScanPhases /\ pos \in Nat
    /\ {from, to} \subseteq Item /\ paterr \in BOOLEAN
    /\ handle \in [Spelling -> H_NOREADDIR..Len(dirs)]
    /\ dirs \in Seq(Inode)
    /\ mistakes \subseteq (DOMAIN dirs) \X Simple /\ badreps \in Nat
    /\ \A r \in Range(reps) :
         /\ r.ffrom \in (DOMAIN dirs) \X Simple
         /\ r.to.fdel = Nil \/ r.to.fdel \in (DOMAIN dirs) \X Simple
    /\ cand \in CandRec /\ reps \in Seq(RepRec)

\* What holds however the pairs are found, in a list or by patterns.
CoreInv == call \in Calls /\ CoreTypes /\ HandlesOpen /\ OneRepEach /\ AtWork

\* What the readers add.  The words in hand are words of the input, and argv is
\* read in pairs.
InHand ==
    /\ to \in Range(call.input) \cup {NoWord}
    /\ call.reader = "argv" => pos % 2 = 0 /\ pc \notin {"from", "to"}
    /\ pc = "args" => call.reader = "argv"

ReadInv ==
    /\ pos \in 0..Len(call.input) /\ InHand
    /\ pc \in Working => Pair \in tried
    /\ \A r \in Range(reps) : r.pair \in tried

ScanInv == CoreInv /\ ReadInv
-----------------------------------------------------------------------------
\* What CallOK says of the invocation at hand.
LEMMA CallFacts ==
    ASSUME call \in Calls
    PROVE  /\ call.input \in Seq(Item)
           /\ W.at \in [Spelling -> Inode \cup {NoDir}]
           /\ W.files \in [Inode -> SUBSET Simple]
           /\ TargetsSpelled(call)
BY CallsAssumption DEF CallOK, World, W

\* checkdir gives the spelling a handle, and changes no other.
LEMMA CheckdirOpens ==
    ASSUME CoreInv, NEW s \in Spelling, checkdir(s), call' = call
    PROVE  /\ Found(s) \in H_NOREADDIR..Len(dirs') /\ Found(s) # 0
           /\ Found(s) > 0 => W.at[s] \in Inode /\ Found(s) \in DOMAIN dirs'
           /\ handle'[s] = Found(s)
           /\ \A t \in Spelling : handle[t] # 0 => handle'[t] = handle[t]
           /\ dirs' \in Seq(Inode) /\ DOMAIN dirs \subseteq DOMAIN dirs'
           /\ handle' \in [Spelling -> H_NOREADDIR..Len(dirs')]
           /\ HandlesOpen'
<1> USE DEF H_NODIR, H_NOREADDIR
<1>1. W.at[s] \in Inode \cup {NoDir} /\ dirs \in Seq(Inode)
      /\ handle \in [Spelling -> -2..Len(dirs)]
  BY CallFacts DEF CoreInv, CoreTypes
<1>2. dsearch(W.at[s]) \in 0..Len(dirs)
  BY <1>1 DEF dsearch
<1>3. Found(s) \in -2..(Len(dirs) + 1) /\ Found(s) # 0
  BY <1>1, <1>2 DEF Found
<1>4. Found(s) > 0 => W.at[s] \in Inode
  BY <1>1 DEF Found, CoreInv, HandlesOpen
<1>5. /\ dirs' \in Seq(Inode) /\ DOMAIN dirs \subseteq DOMAIN dirs'
      /\ Len(dirs) <= Len(dirs') /\ Found(s) <= Len(dirs')
  <2>1. CASE Found(s) > Len(dirs)
    BY <1>1, <1>3, <1>4, <2>1 DEF checkdir
  <2>2. CASE ~(Found(s) > Len(dirs))
    BY <1>1, <1>3, <2>2 DEF checkdir
  <2> QED BY <2>1, <2>2
<1>6. handle' = [handle EXCEPT ![s] = Found(s)]
  BY DEF checkdir
<1>7. handle' \in [Spelling -> -2..Len(dirs')]
  BY <1>1, <1>3, <1>5, <1>6
<1>8. /\ handle'[s] = Found(s)
      /\ \A t \in Spelling : handle[t] # 0 => handle'[t] = handle[t]
  BY <1>1, <1>6 DEF Found
<1>9. HandlesOpen'
  BY <1>1, <1>4, <1>6 DEF CoreInv, HandlesOpen, W
<1> QED BY <1>1, <1>3, <1>4, <1>5, <1>7, <1>8, <1>9

-----------------------------------------------------------------------------
\* No handle, no directory and no rep at first.
LEMMA ScanInitCore == ScanInit => CoreInv
<1> SUFFICES ASSUME ScanInit PROVE CoreInv
  OBVIOUS
<1> USE SpellingAssumption DEF ScanInit
<1>1. call \in Calls
  OBVIOUS
<1>2. NoWord \in Item
  BY DEF NoWord, Item
<1>3. CoreTypes
  <2>1. pc \in ScanPhases /\ pos \in Nat
    BY DEF ScanPhases
  <2>2. Len(dirs) = 0 /\ handle \in [Spelling -> H_NOREADDIR..Len(dirs)]
    BY DEF H_NOREADDIR
  <2>3. Range(reps) = {} /\ dirs \in Seq(Inode)
    BY DEF Range
  <2>4. cand \in CandRec /\ reps \in Seq(RepRec)
    BY DEF NoCand, CandRec
  <2> QED BY <1>2, <2>1, <2>2, <2>3, <2>4 DEF CoreTypes
<1>4. OneRepEach
  BY FS_EmptySet DEF OneRepEach
<1>5. HandlesOpen /\ AtWork
  BY DEF HandlesOpen, AtWork, Working
<1> QED BY <1>1, <1>3, <1>4, <1>5 DEF CoreInv

\* What the readers and the parser leave alone keeps its part of ScanInv; pc is
\* then outside dostage_fnames, which is all that AtWork asks.
Reading ==
    \/ ReadEof \/ ReadTooLong \/ ReadFrom \/ ReadTo \/ OddArgs \/ NextArgs
    \/ ParseError \/ ParseOK \/ ParseXnn

\* Reading a pair opens a handle at most.
LEMMA ReadingKeeps == ScanInv /\ Reading => ScanInv'
<1> SUFFICES ASSUME ScanInv, Reading PROVE ScanInv'
  OBVIOUS
<1> USE DEF ReadEof, ReadTooLong, ReadFrom, ReadTo, OddArgs, NextArgs,
            ParseError, ParseOK, ParseXnn
<1>1. UNCHANGED <<call, tried, unmatched, handle, dirs, mistakes, badreps,
                  reps, cand>>
  BY DEF Reading, callVars, dirVars, repVars
<1>2. call.input \in Seq(Item) /\ pos \in 0..Len(call.input)
  BY CallFacts DEF ScanInv, CoreInv, ReadInv
<1>3. /\ pc' \in ScanPhases \ Working /\ paterr' \in BOOLEAN
      /\ pc' = "args" => call.reader = "argv"
  BY DEF Reading, ScanInv, CoreInv, ReadInv, CoreTypes, ScanPhases, Working, InHand,
     Forgotten, readVars
<1>4. /\ pos' \in 0..Len(call.input)
      /\ from' \in {from} \cup Range(call.input)
      /\ to' \in {to} \cup Range(call.input)
      /\ call.reader = "argv" => pos' % 2 = 0 /\ pc' \notin {"from", "to"}
  <2>1. More => pos + 1 \in DOMAIN call.input
    BY <1>2 DEF More
  <2>2. CASE ReadFrom \/ ReadTo
    <3>1. call.reader # "argv" /\ More
      BY <2>2 DEF ScanInv, ReadInv, InHand, AtEof
    <3> QED BY <1>2, <2>1, <2>2, <3>1 DEF Item1, Range, readVars
  <2>3. CASE NextArgs
    <3>1. call.reader = "argv" /\ pos % 2 = 0
      BY <2>3 DEF ScanInv, ReadInv, InHand
    <3>2. CASE More
      <4>1. \A a, b \in Nat : a % 2 = 0 /\ b % 2 = 0 /\ a < b => a + 2 <= b
        OBVIOUS
      <4>2. Len(call.input) \in Nat /\ pos \in Nat
        BY <1>2
      <4>3. Len(call.input) % 2 = 0 /\ pos < Len(call.input)
        BY <2>3, <3>2 DEF More
      <4>4. pos + 2 <= Len(call.input)
        BY <3>1, <4>1, <4>2, <4>3, Zenon
      <4>5. pos + 2 \in DOMAIN call.input
        BY <1>2, <4>2, <4>4
      <4> QED BY <1>2, <2>1, <2>3, <3>1, <3>2, <4>5 DEF Item1, Item2, Range
    <3>3. CASE ~More
      BY <1>2, <2>3, <3>1, <3>3 DEF readVars
    <3> QED BY <3>2, <3>3
  <2>4. CASE ~(ReadFrom \/ ReadTo \/ NextArgs)
    BY <1>2, <2>4 DEF Reading, readVars, ScanInv, ReadInv, InHand
  <2> QED BY <2>2, <2>3, <2>4
<1>5. Range(call.input) \subseteq Item
  BY <1>2 DEF Range
<1>6. CoreTypes'
  BY <1>1, <1>2, <1>3, <1>4, <1>5 DEF ScanInv, CoreInv, CoreTypes
<1>7. HandlesOpen' /\ OneRepEach' /\ AtWork'
  BY <1>1, <1>3 DEF ScanInv, CoreInv, HandlesOpen, OneRepEach, AtWork, W
<1>8. ReadInv'
  BY <1>1, <1>3, <1>4 DEF ScanInv, ReadInv, InHand
<1> QED BY <1>1, <1>6, <1>7, <1>8 DEF ScanInv, CoreInv

-----------------------------------------------------------------------------
\* The steps of dostage_fnames.
LEMMA StageKeeps == ScanInv /\ Stage => ScanInv'
<1> SUFFICES ASSUME ScanInv, Stage PROVE ScanInv'
  OBVIOUS
<1>1. /\ checkdir(from.dir) /\ pc = "stage"
      /\ tried' = tried \cup {Pair}
      /\ UNCHANGED <<call, pos, from, to, mistakes, badreps, reps, cand>>
  BY DEF Stage, readVars, repVars
<1>2. from \in Item /\ from.dir \in Spelling /\ from.name \in Simple \cup {Empty}
  BY DEF ScanInv, CoreInv, CoreTypes, Item
<1>3. /\ dirs' \in Seq(Inode) /\ DOMAIN dirs \subseteq DOMAIN dirs'
      /\ handle' \in [Spelling -> H_NOREADDIR..Len(dirs')]
      /\ handle'[from.dir] = Found(from.dir) /\ HandlesOpen'
  BY <1>1, <1>2, CheckdirOpens DEF ScanInv
<1>4. /\ pc' \in {"quit", "source", "error", "execute", "walk", "from"}
      /\ paterr' \in BOOLEAN
      /\ call.reader = "argv" => pc' # "from"
      /\ pc' = "source" => Matches
  BY DEF Stage, Return, ScanInv, CoreInv, CoreTypes
<1>5. CoreTypes'
  BY <1>1, <1>3, <1>4 DEF ScanInv, CoreInv, CoreTypes, ScanPhases
<1>6. ReadInv'
  BY <1>1, <1>4 DEF ScanInv, ReadInv, InHand, Pair, Working
<1>7. AtWork'
  <2> SUFFICES ASSUME pc' \in Working PROVE AtWork'
    BY DEF AtWork
  <2>1. pc' = "source" /\ Matches
    BY <1>4 DEF Working
  <2>2. Found(from.dir) > 0 /\ W.at[from.dir] \in Inode
    BY <1>1, <1>2, <2>1, CheckdirOpens DEF Matches, ScanInv
  <2>3. from.name \in Simple
    BY <2>1, <2>2, CallFacts DEF Matches, ScanInv, CoreInv
  <2>4. ~HasRep(ffrom)'
    BY <1>1, <1>3, <2>1 DEF Matches, HasRep, ffrom
  <2> QED BY <1>1, <1>3, <2>1, <2>2, <2>3, <2>4 DEF AtWork
<1> QED BY <1>1, <1>3, <1>5, <1>6, <1>7 DEF ScanInv, CoreInv, OneRepEach

\* A refusal counts one more bad rep, of a file that has no rep.
LEMMA RefuseKeeps ==
    ASSUME CoreInv, pc \in Working, RefuseSource, UNCHANGED <<dirVars, cand>>
    PROVE  CoreInv'
<1>1. /\ badreps' = badreps + 1 /\ mistakes' = mistakes \cup {ffrom}
      /\ UNCHANGED <<call, pos, from, to, paterr, handle, dirs, reps, cand,
                     tried>>
  BY DEF RefuseSource, callVars, readVars, dirVars
<1>2. /\ pc' \in {"error", "execute", "walk", "from"}
      /\ call.reader = "argv" => pc' # "from"
  BY DEF RefuseSource, Return
<1>3. ffrom \in (DOMAIN dirs) \X Simple /\ ~HasRep(ffrom)
  <2>1. handle[from.dir] > 0 /\ handle[from.dir] <= Len(dirs)
    BY DEF CoreInv, AtWork, CoreTypes, Item, H_NOREADDIR
  <2> QED BY <2>1 DEF CoreInv, AtWork, CoreTypes, ffrom, Item, H_NOREADDIR
<1>4. IsFiniteSet(mistakes') /\ badreps' = Cardinality(mistakes')
  BY <1>1, <1>3, FS_AddElement DEF CoreInv, OneRepEach, HasRep
<1>5. OneRepEach'
  BY <1>1, <1>3, <1>4 DEF CoreInv, OneRepEach, HasRep
<1>6. CoreTypes'
  BY <1>1, <1>2, <1>3 DEF CoreInv, CoreTypes, ScanPhases
<1>7. HandlesOpen' /\ AtWork'
  BY <1>1, <1>2 DEF CoreInv, HandlesOpen, AtWork, Working, W
<1> QED BY <1>1, <1>5, <1>6, <1>7 DEF CoreInv

\* Looking for the target may open directories, and leaves the rest alone.
LEMMA LookingKeeps ==
    ASSUME CoreInv, pc \in Working, pc' \in Working \cup {"quit"},
           UNCHANGED <<call, pos, from, to, paterr, mistakes, badreps, reps,
                       tried>>,
           dirs' \in Seq(Inode), DOMAIN dirs \subseteq DOMAIN dirs',
           handle' \in [Spelling -> H_NOREADDIR..Len(dirs')], HandlesOpen',
           \A t \in Spelling : handle[t] # 0 => handle'[t] = handle[t],
           cand' \in CandRec,
           pc' = "inside" =>
             /\ handle'[to.dir] > 0 /\ to.name # Empty /\ IsDir(to.dir, to.name)
             /\ <<to.dir, to.name>> \in DOMAIN Below,
           pc' = "verdict" =>
             cand'.fdel = Nil \/ cand'.fdel \in (DOMAIN dirs') \X Simple
    PROVE  CoreInv'
<1>1. from.dir \in Spelling /\ handle[from.dir] > 0
  BY DEF CoreInv, AtWork, CoreTypes, Item
<1>2. handle'[from.dir] = handle[from.dir]
  BY <1>1
<1>3. AtWork'
  BY <1>1, <1>2 DEF CoreInv, AtWork, HasRep, ffrom, IsDir, W
<1>4. CoreTypes'
  BY DEF CoreInv, CoreTypes, ScanPhases, Working
<1> QED BY <1>3, <1>4 DEF CoreInv, OneRepEach

\* A target in an open directory, as checkto leaves it.
LEMMA TargetFits ==
    ASSUME CoreInv, NEW s \in Spelling, NEW n \in Simple \cup {Empty},
           NEW d, NEW top, NEW path \in BOOLEAN,
           top \in Nat, d \in H_NOREADDIR..top, d # 0,
           d > 0 => W.at[s] \in Inode
    PROVE  LET c == Target(s, n, d, path) IN
           /\ c \in CandRec
           /\ c.fdel = Nil \/ c.fdel \in (1..top) \X Simple
<1>1. CASE d < 0 \/ path
  BY <1>1 DEF Target, CandRec
<1>2. CASE ~(d < 0 \/ path)
  <2>1. d \in 1..top /\ W.at[s] \in Inode
    BY <1>2 DEF H_NOREADDIR
  <2>2. W.files[W.at[s]] \subseteq Simple
    BY <2>1, CallFacts DEF CoreInv
  <2>3. fsearch(n, W.at[s], d) \in ((1..top) \X Simple) \cup {Nil}
    BY <2>1, <2>2 DEF fsearch
  <2> QED BY <1>2, <2>1, <2>3 DEF Target, CandRec
<1> QED BY <1>1, <1>2

\* A source that is accepted only leads on to its target.
LEMMA SourceGoodKeeps == CoreInv /\ SourceGood => CoreInv'
BY DEF SourceGood, CoreInv, CoreTypes, ScanPhases, HandlesOpen, OneRepEach,
   AtWork, Working, HasRep, ffrom, W, CandRec, callVars, readVars,
   dirVars, repVars

\* The target of a move of directories, whose handle is looked up first.
LEMMA CheckToDirmoveKeeps == CoreInv /\ CheckToDirmove => CoreInv'
<1> SUFFICES ASSUME CoreInv, CheckToDirmove PROVE CoreInv'
  OBVIOUS
<1> USE DEF H_NOREADDIR
<1>1. /\ pc = "checkto"
      /\ UNCHANGED <<call, pos, from, to, paterr, handle, dirs, mistakes,
                     badreps, reps, tried>>
  BY DEF CheckToDirmove, callVars, readVars, dirVars, repVars
<1>2. /\ from.dir \in Spelling /\ to.name \in Simple \cup {Empty}
      /\ dirs \in Seq(Inode) /\ handle \in [Spelling -> -2..Len(dirs)]
  BY DEF CoreInv, CoreTypes, Item
<1>3. handle[from.dir] > 0 /\ W.at[from.dir] \in Inode
  BY <1>1, <1>2 DEF CoreInv, AtWork, Working, HandlesOpen
<1>4. \E path \in BOOLEAN :
        cand' = Target(from.dir, to.name, handle[from.dir], path)
  BY DEF CheckToDirmove, Take
<1>5. cand' \in CandRec
      /\ (cand'.fdel = Nil \/ cand'.fdel \in (1..Len(dirs)) \X Simple)
  <2>1. PICK path \in BOOLEAN :
          cand' = Target(from.dir, to.name, handle[from.dir], path)
    BY <1>4
  <2> DEFINE d == handle[from.dir]
             s == from.dir
             n == to.name
  <2>2. /\ Len(dirs) \in Nat /\ d \in -2..Len(dirs) /\ d # 0
        /\ s \in Spelling /\ n \in Simple \cup {Empty} /\ W.at[s] \in Inode
    BY <1>2, <1>3
  <2>3. cand' = Target(s, n, d, path)
    BY <2>1
  <2> HIDE DEF d, s, n
  <2> QED BY <2>2, <2>3, TargetFits
<1>6. pc' \in {"quit", "verdict"}
  BY DEF CheckToDirmove, Take
<1>7. HandlesOpen'
  BY <1>1 DEF CoreInv, HandlesOpen, W
<1> QED BY <1>1, <1>2, <1>5, <1>6, <1>7, LookingKeeps DEF Working

\* The target of any other operation, in the directory it names.
LEMMA CheckToKeeps ==
    ASSUME CoreInv, CheckTo,
           pc' = "inside" => <<to.dir, to.name>> \in DOMAIN Below
    PROVE  CoreInv'
<1> USE DEF H_NOREADDIR
<1> DEFINE d == Found(to.dir)
           n == IF to.name = Empty THEN from.name ELSE to.name
<1>1. /\ pc = "checkto" /\ checkdir(to.dir)
      /\ UNCHANGED <<call, pos, from, to, paterr, mistakes, badreps, reps,
                     tried>>
  BY DEF CheckTo, callVars, readVars, repVars
<1>2. to.dir \in Spelling /\ n \in Simple \cup {Empty}
  BY DEF CoreInv, CoreTypes, Item
<1>3. /\ d \in -2..Len(dirs') /\ d # 0 /\ handle'[to.dir] = d
      /\ d > 0 => W.at[to.dir] \in Inode
      /\ \A t \in Spelling : handle[t] # 0 => handle'[t] = handle[t]
      /\ dirs' \in Seq(Inode) /\ DOMAIN dirs \subseteq DOMAIN dirs'
      /\ handle' \in [Spelling -> -2..Len(dirs')] /\ HandlesOpen'
  BY <1>1, <1>2, CheckdirOpens
<1>4. \/ d > 0 /\ to.name # Empty /\ IsDir(to.dir, to.name)
           /\ pc' = "inside" /\ cand' = cand
      \/ cand' = Target(to.dir, n, d, FALSE) /\ pc' \in {"verdict", "quit"}
  BY DEF CheckTo, Take
<1>5. CASE pc' = "inside"
  BY <1>1, <1>3, <1>4, <1>5, LookingKeeps DEF Working, CoreInv, CoreTypes
<1>6. CASE pc' # "inside"
  <2>1. Len(dirs') \in Nat
    BY <1>3
  <2>2. cand' = Target(to.dir, n, d, FALSE) /\ pc' \in {"verdict", "quit"}
    BY <1>4, <1>6
  <2>3. cand' \in CandRec
        /\ (cand'.fdel = Nil \/ cand'.fdel \in (1..Len(dirs')) \X Simple)
    <3> HIDE DEF d, n
    <3> QED BY <1>2, <1>3, <2>1, <2>2, TargetFits
  <2>4. DOMAIN dirs' = 1..Len(dirs')
    BY <1>3
  <2> QED BY <1>1, <1>3, <2>2, <2>3, <2>4, LookingKeeps DEF Working
<1> QED BY <1>5, <1>6

\* The target within the directory that the pair names.
LEMMA CheckInsideKeeps == CoreInv /\ CheckInside => CoreInv'
<1> SUFFICES ASSUME CoreInv, CheckInside PROVE CoreInv'
  OBVIOUS
<1> USE DEF H_NOREADDIR
<1> DEFINE s == Below[<<to.dir, to.name>>]
           d == Found(s)
<1>1. /\ pc = "inside" /\ checkdir(s)
      /\ UNCHANGED <<call, pos, from, to, paterr, mistakes, badreps, reps,
                     tried>>
  BY DEF CheckInside, callVars, readVars, repVars
<1>2. /\ to.dir \in Spelling /\ to.name # Empty /\ W.at[to.dir] \in Inode
      /\ W.sub[<<W.at[to.dir], to.name>>] # NoDir
  BY <1>1 DEF CoreInv, CoreTypes, Item, AtWork, Working, HandlesOpen, IsDir
<1>4. s \in Spelling
  BY <1>1, SpellingAssumption DEF CoreInv, AtWork, Working
<1>5. /\ d \in -2..Len(dirs') /\ d # 0
      /\ d > 0 => W.at[s] \in Inode
      /\ \A t \in Spelling : handle[t] # 0 => handle'[t] = handle[t]
      /\ dirs' \in Seq(Inode) /\ DOMAIN dirs \subseteq DOMAIN dirs'
      /\ handle' \in [Spelling -> -2..Len(dirs')] /\ HandlesOpen'
  BY <1>1, <1>4, CheckdirOpens
<1>6. from.name \in Simple \cup {Empty} /\ Len(dirs') \in Nat
      /\ DOMAIN dirs' = 1..Len(dirs')
  BY <1>5 DEF CoreInv, CoreTypes, Item
<1>7. cand' = Target(s, from.name, d, FALSE) /\ pc' \in {"verdict", "quit"}
  BY DEF CheckInside, Take
<1>8. cand' \in CandRec
      /\ (cand'.fdel = Nil \/ cand'.fdel \in (1..Len(dirs')) \X Simple)
  <2> HIDE DEF d, s
  <2> QED BY <1>4, <1>5, <1>6, <1>7, TargetFits
<1> QED BY <1>1, <1>5, <1>6, <1>7, <1>8, LookingKeeps DEF Working

\* keepmatch's end: a REP for a file that has none.
LEMMA KeepRepKeeps == CoreInv /\ KeepRep => CoreInv'
<1> SUFFICES ASSUME CoreInv, KeepRep PROVE CoreInv'
  OBVIOUS
<1> DEFINE r == [pair |-> Pair, hfrom |-> from.dir, ffrom |-> ffrom,
                 to |-> cand, isx |-> IsX]
<1>1. /\ pc = "verdict" /\ reps' = Append(reps, r)
      /\ UNCHANGED <<call, pos, from, to, paterr, handle, dirs, mistakes,
                     badreps, cand, tried>>
  BY DEF KeepRep, callVars, readVars, dirVars
<1>2. /\ pc' \in {"error", "execute", "walk", "from"}
      /\ call.reader = "argv" => pc' # "from"
  BY DEF KeepRep, Return
<1>3. /\ ffrom \in (DOMAIN dirs) \X Simple /\ ~HasRep(ffrom)
      /\ cand.fdel = Nil \/ cand.fdel \in (DOMAIN dirs) \X Simple
  <2>1. handle[from.dir] > 0 /\ handle[from.dir] <= Len(dirs)
    BY <1>1 DEF CoreInv, AtWork, Working, CoreTypes, Item, H_NOREADDIR
  <2> QED BY <1>1, <2>1 DEF CoreInv, AtWork, Working, CoreTypes, ffrom, Item,
                            H_NOREADDIR
<1>4. r \in RepRec
  <2>1. Pair \in Int /\ from.dir \in Spelling /\ IsX \in BOOLEAN
    BY CallFacts DEF CoreInv, CoreTypes, Item, Pair, IsX
  <2>2. ffrom \in Nat \X Simple
    BY <1>3 DEF CoreInv, CoreTypes
  <2> QED BY <2>1, <2>2 DEF RepRec, CoreInv, CoreTypes
<1> HIDE DEF r
<1>5. /\ reps \in Seq(RepRec) /\ reps' \in Seq(RepRec)
      /\ DOMAIN reps' = DOMAIN reps \cup {Len(reps) + 1}
      /\ \A k \in DOMAIN reps : reps'[k] = reps[k]
      /\ reps'[Len(reps) + 1] = r /\ Len(reps) + 1 \notin DOMAIN reps
  BY <1>1, <1>4 DEF CoreInv, CoreTypes
<1>6. r.ffrom = ffrom /\ r.pair = Pair /\ r.to = cand
  BY DEF r
<1>7. OneRepEach'
  <2>1. \A k \in DOMAIN reps : reps[k].ffrom # ffrom
    BY <1>3 DEF HasRep
  <2>2. ffrom \notin mistakes
    BY <1>3 DEF HasRep
  <2>3. ASSUME NEW i \in DOMAIN reps', NEW j \in DOMAIN reps',
               reps'[i].ffrom = reps'[j].ffrom
        PROVE  i = j
    BY <1>5, <1>6, <2>1, <2>3 DEF CoreInv, OneRepEach
  <2>4. ASSUME NEW k \in DOMAIN reps' PROVE reps'[k].ffrom \notin mistakes
    BY <1>5, <1>6, <2>2 DEF CoreInv, OneRepEach
  <2> QED BY <1>1, <2>3, <2>4 DEF CoreInv, OneRepEach
<1>8. Range(reps') = Range(reps) \cup {r}
  BY <1>5 DEF Range
<1>9. CoreTypes'
  BY <1>1, <1>2, <1>3, <1>5, <1>6, <1>8 DEF CoreInv, CoreTypes, ScanPhases
<1>10. HandlesOpen' /\ AtWork'
  BY <1>1, <1>2 DEF CoreInv, HandlesOpen, AtWork, Working, W
<1> QED BY <1>1, <1>5, <1>7, <1>9, <1>10 DEF CoreInv
-----------------------------------------------------------------------------
\* What both kinds of scan do with one file and its new name.
Deciding ==
    \/ SourceBad \/ SourceGood \/ CheckToDirmove \/ CheckTo \/ CheckInside
    \/ TargetBad \/ KeepRep

\* What badrep and checkto decide about a source keeps the types and the one rep
\* of each file.
LEMMA DecidingKeeps ==
    ASSUME CoreInv, Deciding,
           pc' = "inside" => <<to.dir, to.name>> \in DOMAIN Below
    PROVE  CoreInv'
<1>1. CASE SourceBad
  BY <1>1, RefuseKeeps DEF SourceBad, Working
<1>2. CASE SourceGood
  BY <1>2, SourceGoodKeeps
<1>3. CASE CheckToDirmove
  BY <1>3, CheckToDirmoveKeeps
<1>4. CASE CheckTo
  BY <1>4, CheckToKeeps
<1>5. CASE CheckInside
  BY <1>5, CheckInsideKeeps
<1>6. CASE TargetBad
  BY <1>6, RefuseKeeps DEF TargetBad, Working
<1>7. CASE KeepRep
  BY <1>7, KeepRepKeeps
<1> QED BY <1>1, <1>2, <1>3, <1>4, <1>5, <1>6, <1>7 DEF Deciding

\* What it leaves alone, and where it goes.
LEMMA DecidingLeaves ==
    ASSUME Deciding
    PROVE  /\ pc \in Working
           /\ pc' \in Working \cup {"quit", "error", "execute", "walk", "from"}
           /\ pc' \in {"error", "execute", "walk", "from"} => Return(paterr)
           /\ pc' = "inside" => pc = "checkto" /\ CheckTo
           /\ reps' = reps \/ KeepRep
           /\ UNCHANGED <<call, pos, from, to, paterr, tried, unmatched>>
BY DEF Deciding, SourceBad, SourceGood, CheckToDirmove, CheckTo, CheckInside,
   TargetBad, KeepRep, RefuseSource, Return, Take, Working, callVars, readVars,
   dirVars, repVars

\* A directory that a pair names can be spelled.
LEMMA PairsSpelled ==
    ASSUME ScanInv, CheckTo, pc' = "inside"
    PROVE  <<to.dir, to.name>> \in DOMAIN Below
<1>1. /\ to.name # Empty /\ IsDir(to.dir, to.name) /\ Found(to.dir) > 0
      /\ checkdir(to.dir) /\ call' = call
  BY DEF CheckTo, Take, callVars
<1>2. to.dir \in Spelling
  BY DEF ScanInv, CoreInv, CoreTypes, Item
<1>3. W.at[to.dir] \in Inode
  BY <1>1, <1>2, CheckdirOpens DEF ScanInv
<1>4. to \in Range(call.input)
  BY <1>1 DEF ScanInv, ReadInv, InHand, NoWord
<1>5. <<to.dir, to.name>> \in DOMAIN Below
  BY <1>1, <1>3, <1>4, SpellingAssumption, CallFacts
     DEF ScanInv, CoreInv, TargetsSpelled, W, IsDir
<1> QED BY <1>5

\* The readers' part while one pair is decided.
LEMMA DecidingRead == ScanInv /\ Deciding => ReadInv'
<1> SUFFICES ASSUME ScanInv, Deciding PROVE ReadInv'
  OBVIOUS
<1>1. /\ pc \in Working
      /\ pc' \in Working \cup {"quit", "error", "execute", "walk", "from"}
      /\ call.reader = "argv" => pc' # "from"
      /\ reps' = reps \/ KeepRep
      /\ UNCHANGED <<call, pos, from, to, tried>>
  BY DecidingLeaves DEF Return, Working
<1>2. \A r \in Range(reps') : r.pair \in tried
  <2>1. CASE reps' = reps
    BY <2>1 DEF ScanInv, ReadInv
  <2>2. CASE KeepRep
    <3> DEFINE r == [pair |-> Pair, hfrom |-> from.dir, ffrom |-> ffrom,
                     to |-> cand, isx |-> IsX]
    <3>1. reps' = Append(reps, r) /\ r.pair \in tried
      BY <1>1, <2>2 DEF KeepRep, ScanInv, ReadInv
    <3> HIDE DEF r
    <3>2. Range(reps') \subseteq Range(reps) \cup {r}
      BY <3>1 DEF Range, ScanInv, CoreInv, CoreTypes
    <3> QED BY <3>1, <3>2 DEF ScanInv, ReadInv
  <2> QED BY <1>1, <2>1, <2>2
<1>3. InHand' /\ pos' \in 0..Len(call'.input)
  BY <1>1 DEF ScanInv, ReadInv, InHand, Working
<1> QED BY <1>1, <1>2, <1>3 DEF ScanInv, ReadInv, Pair

\* No handle, no rep and no pair at first.
LEMMA ScanInitInv == ScanInit => ScanInv
<1> SUFFICES ASSUME ScanInit PROVE ScanInv
  OBVIOUS
<1>1. call.input \in Seq(Item) /\ Range(reps) = {}
  BY CallFacts DEF ScanInit, Range
<1>2. ReadInv
  BY <1>1 DEF ScanInit, ReadInv, InHand, Working
<1> QED BY <1>2, ScanInitCore DEF ScanInv

\* ScanInv is inductive.
LEMMA ScanStepKeeps == ScanInv /\ [ScanNext]_scanVars => ScanInv'
<1> SUFFICES ASSUME ScanInv, [ScanNext]_scanVars PROVE ScanInv'
  OBVIOUS
<1>1. CASE Reading
  BY <1>1, ReadingKeeps
<1>2. CASE Stage
  BY <1>2, StageKeeps
<1>3. CASE Deciding
  <2>1. pc' = "inside" => <<to.dir, to.name>> \in DOMAIN Below
    BY <1>3, DecidingLeaves, PairsSpelled
  <2> QED BY <1>3, <2>1, DecidingKeeps, DecidingRead DEF ScanInv
<1>4. CASE UNCHANGED scanVars
  BY <1>4 DEF scanVars, ScanInv, CoreInv, ReadInv, CoreTypes, HandlesOpen,
     OneRepEach, InHand, AtWork, HasRep, ffrom, Pair, IsDir, W
<1> QED BY <1>1, <1>2, <1>3, <1>4 DEF ScanNext, Reading, Deciding

\* The invariant holds of the scan of any pairs in any directories.
LEMMA ScanKept == ScanSpec => []ScanInv
BY ScanInitInv, ScanStepKeeps, PTL DEF ScanSpec

\* Whatever is read and whatever the directories hold: dirs, handles and REPs
\* of checkdir and keepmatch are what their types say, and no file (FILEINFO)
\* ever has two REPs, or a REP and a refusal, while mmv->badreps counts the
\* files refused.
THEOREM ScanCorrect == ScanSpec => [](ScanTypeOK /\ OneRepEach)
<1>1. ScanInv => ScanTypeOK /\ OneRepEach
  BY DEF ScanInv, CoreInv, ReadInv, CoreTypes, ScanTypeOK
<1> QED BY <1>1, ScanKept, PTL
-----------------------------------------------------------------------------
(***************************************************************************)
(* What mmv_execute is handed, by either kind of scan.                     *)
(***************************************************************************)
\* A DIRINFO is that of the directory its spellings lead to.
DirsLed ==
    /\ \A s \in Spelling : handle[s] > 0 => dirs[handle[s]] = W.at[s]
    /\ \A k \in DOMAIN dirs : \E s \in Spelling : handle[s] = k

There(f) == f[2] \in W.files[dirs[f[1]]]

\* r_fdel of a target whose directory is open.
FdelRight(c) ==
    handle[c.hto] > 0 /\ c.fdel = fsearch(c.nto, W.at[c.hto], handle[c.hto])

RepFits(r) ==
    /\ There(r.ffrom) /\ handle[r.hfrom] = r.ffrom[1] /\ r.hfrom \in Spelling
    /\ call.op # "DIRMOVE" => W.sub[Place(r.ffrom)] = NoDir
    /\ call.op \in {"NORMMOVE", "HARDLINK", "DIRMOVE"} => ~r.isx
    /\ ~r.to.path => FdelRight(r.to) /\ r.to.hto \in Spelling
    /\ r.to.path => call.op = "DIRMOVE"

\* The source at work is there and may be one; its target is where mv puts it.
AtWorkFits ==
    /\ pc \in Working => from.name \in W.files[W.at[from.dir]]
    /\ pc \in Working \ {"source"} /\ call.op # "DIRMOVE" =>
         ~IsDir(from.dir, from.name)
    /\ pc = "inside" => call.op # "DIRMOVE"
    /\ pc = "verdict" =>
         /\ handle[cand.hto] # 0
         /\ call.op = "DIRMOVE" => cand.hto = from.dir
         /\ cand.path => call.op = "DIRMOVE" /\ to.kind = "home"
         /\ ~cand.path /\ handle[cand.hto] > 0 =>
              /\ FdelRight(cand)
              /\ <<W.at[cand.hto], cand.nto>> = MvTarget(from, to)

FitInv ==
    /\ DirsLed /\ AtWorkFits
    /\ \A f \in mistakes : There(f)
    /\ \A r \in Range(reps) : RepFits(r)

\* What only grows: handles are given once, and DIRINFOs are added behind the last.
Grows ==
    /\ \A t \in Spelling : handle[t] # 0 => handle'[t] = handle[t]
    /\ \A k \in DOMAIN dirs : k \in DOMAIN dirs' /\ dirs'[k] = dirs[k]
    /\ call' = call

\* checkdir adds a DIRINFO behind the last, or none, and it is that of its directory.
LEMMA DirsGrow ==
    ASSUME CoreInv, DirsLed, call' = call,
           UNCHANGED dirVars \/ \E s \in Spelling : checkdir(s)
    PROVE  Grows /\ DirsLed'
<1>1. CASE UNCHANGED dirVars
  BY <1>1 DEF dirVars, Grows, DirsLed, W
<1>2. ASSUME NEW s \in Spelling, checkdir(s)
      PROVE  Grows /\ DirsLed'
  <2> USE DEF H_NODIR, H_NOREADDIR
  <2>1. /\ dirs \in Seq(Inode) /\ handle \in [Spelling -> -2..Len(dirs)]
        /\ W.at[s] \in Inode \cup {NoDir}
    BY CallFacts DEF CoreInv, CoreTypes
  <2>2. /\ Found(s) \in -2..Len(dirs') /\ Found(s) # 0
        /\ Found(s) > 0 => W.at[s] \in Inode
        /\ \A t \in Spelling : handle[t] # 0 => handle'[t] = handle[t]
    BY <1>2, CheckdirOpens
  <2>3. handle' = [handle EXCEPT ![s] = Found(s)]
        /\ dirs' = IF Found(s) > Len(dirs) THEN Append(dirs, W.at[s]) ELSE dirs
    BY <1>2 DEF checkdir
  <2>4. Found(s) > Len(dirs) => Found(s) = Len(dirs) + 1 /\ handle[s] = 0
    BY <2>1 DEF Found, dsearch
  <2>5. /\ \A k \in DOMAIN dirs : k \in DOMAIN dirs' /\ dirs'[k] = dirs[k]
        /\ \A k \in DOMAIN dirs' : k \in DOMAIN dirs \/ k = Found(s)
    BY <2>1, <2>2, <2>3, <2>4
  <2>6. Found(s) > 0 => dirs'[Found(s)] = W.at[s]
    <3>1. CASE handle[s] # 0
      BY <2>1, <2>3, <2>4, <3>1 DEF Found, DirsLed
    <3>2. CASE handle[s] = 0 /\ Found(s) > Len(dirs)
      BY <2>1, <2>2, <2>3, <2>4, <3>2
    <3>3. CASE handle[s] = 0 /\ Found(s) <= Len(dirs)
      BY <2>1, <2>3, <3>3 DEF Found, dsearch
    <3> QED BY <2>1, <2>2, <3>1, <3>2, <3>3
  <2>7. ASSUME NEW t \in Spelling, handle'[t] > 0
        PROVE  dirs'[handle'[t]] = W.at[t]
    <3>1. CASE t = s
      BY <2>1, <2>3, <2>6, <2>7, <3>1
    <3>2. CASE t # s
      BY <2>1, <2>3, <2>5, <2>7, <3>2 DEF DirsLed
    <3> QED BY <3>1, <3>2
  <2>8. ASSUME NEW k \in DOMAIN dirs'
        PROVE  \E t \in Spelling : handle'[t] = k
    <3>1. CASE k \in DOMAIN dirs
      <4>1. PICK t \in Spelling : handle[t] = k
        BY <3>1 DEF DirsLed
      <4>2. k # 0
        BY <2>1, <3>1
      <4> QED BY <2>2, <4>1, <4>2
    <3>2. CASE k = Found(s)
      BY <2>1, <2>3, <3>2
    <3> QED BY <2>5, <3>1, <3>2
  <2> QED BY <1>2, <2>2, <2>5, <2>7, <2>8 DEF Grows, DirsLed, W
<1> QED BY <1>1, <1>2

\* A rep that fits goes on fitting, and a refused file is still there.
LEMMA FitsStill ==
    ASSUME CoreInv, FitInv, Grows
    PROVE  /\ \A r \in Range(reps) : RepFits(r)'
           /\ \A f \in mistakes : There(f)'
<1>1. ASSUME NEW f \in (DOMAIN dirs) \X Simple, There(f)
      PROVE  There(f)' /\ Place(f)' = Place(f)
  BY <1>1 DEF There, Place, Grows, W
<1>2. ASSUME NEW r \in Range(reps)
      PROVE  RepFits(r)'
  <2>1. r.ffrom \in (DOMAIN dirs) \X Simple /\ RepFits(r)
    BY DEF CoreInv, CoreTypes, FitInv
  <2>2. There(r.ffrom)' /\ Place(r.ffrom)' = Place(r.ffrom)
    BY <1>1, <2>1 DEF RepFits
  <2>3. r.ffrom[1] # 0
    BY <2>1 DEF CoreInv, CoreTypes
  <2>4. handle'[r.hfrom] = r.ffrom[1]
    BY <2>1, <2>3 DEF RepFits, Grows
  <2>5. ~r.to.path => FdelRight(r.to)'
    BY <2>1 DEF RepFits, FdelRight, fsearch, Grows, W
  <2> QED BY <2>1, <2>2, <2>4, <2>5 DEF RepFits, Grows, W
<1> QED BY <1>1, <1>2 DEF CoreInv, CoreTypes, FitInv

\* Every step opens a directory at most.
LEMMA DecidingGrows ==
    ASSUME CoreInv, Deciding
    PROVE  UNCHANGED dirVars \/ \E s \in Spelling : checkdir(s)
<1>1. from.dir \in Spelling /\ to.dir \in Spelling
  BY DEF CoreInv, CoreTypes, Item
<1>2. CASE CheckTo
  BY <1>1, <1>2 DEF CheckTo
<1>3. CASE CheckInside
  BY <1>3, SpellingAssumption DEF CheckInside, CoreInv, AtWork, Working
<1> QED BY <1>2, <1>3 DEF Deciding, SourceBad, SourceGood, CheckToDirmove,
          TargetBad, KeepRep, dirVars

\* A refusal: the file that is refused is there.
LEMMA RefuseFits ==
    ASSUME CoreInv, FitInv, pc \in Working, RefuseSource, UNCHANGED dirVars
    PROVE  FitInv'
<1>1. /\ mistakes' = mistakes \cup {ffrom} /\ pc' \notin Working
      /\ UNCHANGED <<call, handle, dirs, reps, from, to>>
  BY DEF RefuseSource, Return, Working, callVars, readVars, dirVars
<1>2. /\ from.dir \in Spelling /\ from.name \in W.files[W.at[from.dir]]
      /\ handle[from.dir] > 0
  BY DEF CoreInv, CoreTypes, Item, AtWork, FitInv, AtWorkFits
<1>3. There(ffrom)
  BY <1>2 DEF There, ffrom, FitInv, DirsLed
<1>4. Grows /\ DirsLed'
  BY <1>1, DirsGrow DEF FitInv, dirVars
<1>5. \A r \in Range(reps') : RepFits(r)'
  BY <1>1, <1>4, FitsStill
<1>6. \A f \in mistakes' : There(f)'
  BY <1>1, <1>3 DEF FitInv, There, W
<1>7. AtWorkFits'
  BY <1>1 DEF AtWorkFits, Working
<1> QED BY <1>4, <1>5, <1>6, <1>7 DEF FitInv

\* While the target is looked for, no rep is added and no file refused.
LEMMA LookingFits ==
    ASSUME CoreInv, FitInv, pc \in Working,
           UNCHANGED <<call, from, to, reps, mistakes>>,
           UNCHANGED dirVars \/ \E s \in Spelling : checkdir(s),
           pc' \notin {"source", "inside", "verdict"} \/
             AtWorkFits',
           pc' = "checkto" /\ call.op # "DIRMOVE" => ~IsDir(from.dir, from.name)
    PROVE  FitInv'
<1>1. Grows /\ DirsLed'
  BY DirsGrow DEF FitInv
<1>2. AtWorkFits'
  BY DEF AtWorkFits, FitInv, Working, IsDir, W
<1> QED BY <1>1, <1>2, FitsStill DEF FitInv

\* The target of every operation but -r: where mv puts it, and the snapshot's
\* entry for it.
LEMMA TargetRight ==
    ASSUME CoreInv, NEW s \in Spelling, NEW n, Grows,
           cand' = Target(s, n, handle'[s], FALSE), handle'[s] \in Int
    PROVE  /\ cand'.hto = s /\ cand'.nto = n /\ cand'.path = FALSE
           /\ handle'[s] > 0 => FdelRight(cand)'
<1>1. /\ cand'.hto = s /\ cand'.nto = n /\ cand'.path = FALSE
      /\ cand'.fdel = IF handle'[s] < 0 \/ FALSE THEN Nil
                      ELSE fsearch(n, W.at[s], handle'[s])
  BY Zenon DEF Target
<1>4. ASSUME handle'[s] > 0 PROVE FdelRight(cand)'
  <2>1. ~(handle'[s] < 0)
    BY <1>4
  <2> QED BY <1>1, <1>4, <2>1 DEF FdelRight, fsearch, Grows, W
<1> QED BY <1>1, <1>4

\* checkto looks in the directory of the new name, and finds what mv would.
LEMMA CheckToFits == CoreInv /\ CoreInv' /\ FitInv /\ CheckTo => FitInv'
<1> SUFFICES ASSUME CoreInv, CoreInv', FitInv, CheckTo PROVE FitInv'
  OBVIOUS
<1> DEFINE d == Found(to.dir)
           n == IF to.name = Empty THEN from.name ELSE to.name
<1>1. /\ pc = "checkto" /\ checkdir(to.dir) /\ call.op # "DIRMOVE"
      /\ UNCHANGED <<call, from, to, mistakes, reps>>
  BY DEF CheckTo, callVars, readVars, repVars
<1>2. to.dir \in Spelling /\ from.dir \in Spelling
  BY DEF CoreInv, CoreTypes, Item
<1>3. d # 0 /\ d \in Int /\ handle'[to.dir] = d /\ Grows
  BY <1>1, <1>2, CheckdirOpens, DirsGrow DEF FitInv, H_NOREADDIR
<1>4. \/ d > 0 /\ pc' = "inside"
      \/ /\ cand' = Target(to.dir, n, d, FALSE) /\ pc' \in {"verdict", "quit"}
         /\ d > 0 => to.name = Empty \/ ~IsDir(to.dir, to.name)
  <2>1. \/ d < 0 /\ cand' = Target(to.dir, n, d, FALSE) /\ pc' = "verdict"
        \/ d > 0 /\ pc' = "inside"
        \/ /\ to.name = Empty \/ ~IsDir(to.dir, to.name)
           /\ cand' = Target(to.dir, n, d, FALSE) /\ pc' \in {"verdict", "quit"}
    BY DEF CheckTo, Take
  <2>2. d \in Int
    BY <1>3
  <2> HIDE DEF d, n
  <2>3. d < 0 => ~(d > 0)
    BY <2>2
  <2> QED BY <2>1, <2>3, Zenon
<1>5. AtWorkFits'
  <2>1. /\ from.name \in W.files[W.at[from.dir]]
        /\ ~IsDir(from.dir, from.name)
    BY <1>1 DEF FitInv, AtWorkFits, Working
  <2>2. CASE pc' # "verdict"
    BY <1>1, <1>4, <2>1, <2>2 DEF AtWorkFits, IsDir, W
  <2>3. CASE pc' = "verdict"
    <3>1. /\ cand' = Target(to.dir, n, d, FALSE)
          /\ d > 0 => to.name = Empty \/ ~IsDir(to.dir, to.name)
      BY <1>4, <2>3
    <3>2. /\ cand'.hto = to.dir /\ cand'.nto = n /\ cand'.path = FALSE
          /\ d > 0 => FdelRight(cand)'
      BY <1>2, <1>3, <3>1, TargetRight
    <3>3. d > 0 => <<W.at[to.dir], n>> = MvTarget(from, to)
      BY <1>1, <3>1 DEF MvTarget, IsDir
    <3> QED BY <1>1, <1>3, <2>1, <2>3, <3>2, <3>3
            DEF AtWorkFits, IsDir, W, MvTarget
  <2> QED BY <2>2, <2>3
<1> QED BY <1>1, <1>2, <1>4, <1>5, LookingFits DEF Working

\* The same in a directory that the new name turned out to be.
LEMMA CheckInsideFits == CoreInv /\ FitInv /\ CheckInside => FitInv'
<1> SUFFICES ASSUME CoreInv, FitInv, CheckInside PROVE FitInv'
  OBVIOUS
<1> DEFINE s == Below[<<to.dir, to.name>>]
<1>1. /\ pc = "inside" /\ checkdir(s)
      /\ UNCHANGED <<call, from, to, mistakes, reps>>
  BY DEF CheckInside, callVars, readVars, repVars
<1>2. /\ to.dir \in Spelling /\ from.dir \in Spelling /\ to.name \in Simple
      /\ handle[to.dir] > 0 /\ to.name # Empty /\ IsDir(to.dir, to.name)
      /\ <<to.dir, to.name>> \in DOMAIN Below
  BY <1>1 DEF CoreInv, CoreTypes, Item, AtWork, Working
<1>3. s \in Spelling /\ W.at[to.dir] # NoDir
  BY <1>2, SpellingAssumption DEF CoreInv, HandlesOpen
<1>4. W.at[s] = W.sub[<<W.at[to.dir], to.name>>]
  BY <1>2, <1>3, CallsAssumption DEF CallOK, WorldOK, CoreInv, W
<1>5. handle'[s] = Found(s) /\ Found(s) # 0 /\ Found(s) \in Int /\ Grows
  BY <1>1, <1>3, CheckdirOpens, DirsGrow DEF FitInv, H_NOREADDIR
<1>6. cand' = Target(s, from.name, Found(s), FALSE)
      /\ pc' \in {"verdict", "quit"}
  BY DEF CheckInside, Take
<1>7. /\ cand'.hto = s /\ cand'.nto = from.name /\ cand'.path = FALSE
      /\ Found(s) > 0 => FdelRight(cand)'
  BY <1>3, <1>5, <1>6, TargetRight
<1>8. call.op # "DIRMOVE"
  BY <1>1 DEF FitInv, AtWorkFits
<1>9. <<W.at[s], from.name>> = MvTarget(from, to)
  BY <1>2, <1>4, <1>8 DEF MvTarget, IsDir
<1>10. /\ from.name \in W.files[W.at[from.dir]]
       /\ ~IsDir(from.dir, from.name)
  BY <1>1, <1>8 DEF FitInv, AtWorkFits, Working
<1> HIDE DEF s
<1>11. AtWorkFits'
  BY <1>1, <1>5, <1>6, <1>7, <1>8, <1>9, <1>10
     DEF AtWorkFits, IsDir, W, MvTarget
<1> QED BY <1>1, <1>3, <1>6, <1>11, LookingFits DEF Working

\* Under -r the new name is looked up in the directory of the source.
LEMMA CheckToDirmoveFits == CoreInv /\ FitInv /\ CheckToDirmove => FitInv'
<1> SUFFICES ASSUME CoreInv, FitInv, CheckToDirmove PROVE FitInv'
  OBVIOUS
<1>1. /\ pc = "checkto" /\ call.op = "DIRMOVE" /\ UNCHANGED dirVars
      /\ UNCHANGED <<call, from, to, mistakes, reps, handle, dirs>>
      /\ pc' \in {"verdict", "quit"}
  BY DEF CheckToDirmove, Take, callVars, readVars, repVars, dirVars
<1>2. from.dir \in Spelling /\ handle[from.dir] > 0
      /\ from.name \in W.files[W.at[from.dir]]
  BY <1>1 DEF CoreInv, CoreTypes, Item, AtWork, FitInv, AtWorkFits, Working
<1>3. PICK path \in BOOLEAN :
        /\ cand' = Target(from.dir, to.name, handle[from.dir], path)
        /\ path => to.kind = "home"
  BY DEF CheckToDirmove, Take
<1>4. cand'.hto = from.dir /\ cand'.nto = to.name /\ cand'.path = path
  BY <1>3, Zenon DEF Target
<1>5a. ASSUME ~path PROVE FdelRight(cand)'
  <2>1. cand' = Target(from.dir, to.name, handle'[from.dir], FALSE)
    BY <1>1, <1>3, <1>5a
  <2>2. handle'[from.dir] \in Int /\ handle'[from.dir] > 0 /\ Grows
    BY <1>1, <1>2, DirsGrow DEF CoreInv, CoreTypes, FitInv, H_NOREADDIR
  <2> QED BY <1>2, <2>1, <2>2, TargetRight
<1>5. <<W.at[from.dir], to.name>> = MvTarget(from, to)
  BY <1>1 DEF MvTarget
<1>6. AtWorkFits'
  BY <1>1, <1>2, <1>3, <1>4, <1>5, <1>5a DEF AtWorkFits, IsDir, W, MvTarget
<1> QED BY <1>1, <1>6, LookingFits DEF Working

\* A file that gets its rep has no directory in its way, and one device.
LEMMA KeepRepFits == CoreInv /\ CoreInv' /\ FitInv /\ KeepRep => FitInv'
<1> SUFFICES ASSUME CoreInv, CoreInv', FitInv, KeepRep PROVE FitInv'
  OBVIOUS
<1> DEFINE r == [pair |-> Pair, hfrom |-> from.dir, ffrom |-> ffrom,
                 to |-> cand, isx |-> IsX]
<1>1. /\ pc = "verdict" /\ ~BadTarget /\ reps' = Append(reps, r)
      /\ pc' \notin Working
      /\ UNCHANGED <<call, from, to, handle, dirs, mistakes>>
  BY DEF KeepRep, Return, Working, callVars, readVars, dirVars
<1>2. /\ from.dir \in Spelling /\ from.name \in W.files[W.at[from.dir]]
      /\ handle[from.dir] > 0 /\ cand.hto \in Spelling
      /\ handle \in [Spelling -> Int]
  BY <1>1 DEF CoreInv, CoreTypes, Item, AtWork, FitInv, AtWorkFits, Working,
     CandRec, H_NOREADDIR
<1>3. There(ffrom) /\ Place(ffrom) = <<W.at[from.dir], from.name>>
      /\ ffrom[1] = handle[from.dir]
  BY <1>2 DEF There, Place, ffrom, FitInv, DirsLed
<1>4. /\ handle[cand.hto] > 0
      /\ call.op \in {"NORMMOVE", "HARDLINK"} => ~IsX
  BY <1>1, <1>2 DEF BadTarget, FitInv, AtWorkFits
<1>5. /\ ~cand.path => FdelRight(cand)
      /\ cand.path => call.op = "DIRMOVE"
      /\ call.op = "DIRMOVE" => ~IsX
      /\ call.op # "DIRMOVE" => W.sub[Place(ffrom)] = NoDir
  BY <1>1, <1>3, <1>4 DEF FitInv, AtWorkFits, IsX, IsDir, Working
<1>6. /\ r.ffrom = ffrom /\ r.hfrom = from.dir /\ r.to = cand /\ r.isx = IsX
  BY Zenon
<1> HIDE DEF r
<1>q. PICK q : q = r
  OBVIOUS
<1>7. RepFits(q)
  BY <1>2, <1>3, <1>4, <1>5, <1>6, <1>q DEF RepFits
<1>8. Range(reps') \subseteq Range(reps) \cup {q}
  BY <1>1, <1>q DEF CoreInv, CoreTypes, Range
<1>9. Grows /\ DirsLed'
  BY <1>1, DirsGrow DEF FitInv, dirVars
<1>10. RepFits(q)'
  BY <1>1, <1>7 DEF RepFits, There, Place, FdelRight, fsearch, W
<1>11. AtWorkFits'
  BY <1>1 DEF AtWorkFits, Working
<1> QED BY <1>1, <1>8, <1>9, <1>10, <1>11, FitsStill DEF FitInv

\* A source that badrep accepts is no directory, but under -r.
LEMMA SourceGoodFits == CoreInv /\ FitInv /\ SourceGood => FitInv'
BY LookingFits DEF SourceGood, BadSource, Working, callVars, readVars, dirVars,
   repVars

\* Every step of badrep and checkto leaves a store that fits the directories.
LEMMA DecidingFits == CoreInv /\ CoreInv' /\ FitInv /\ Deciding => FitInv'
<1> SUFFICES ASSUME CoreInv, CoreInv', FitInv, Deciding PROVE FitInv'
  OBVIOUS
<1>1. CASE SourceBad
  BY <1>1, RefuseFits DEF SourceBad, Working
<1>2. CASE SourceGood
  BY <1>2, SourceGoodFits
<1>3. CASE CheckToDirmove
  BY <1>3, CheckToDirmoveFits
<1>4. CASE CheckTo
  BY <1>4, CheckToFits
<1>5. CASE CheckInside
  BY <1>5, CheckInsideFits
<1>6. CASE TargetBad
  BY <1>6, RefuseFits DEF TargetBad, Working
<1>7. CASE KeepRep
  BY <1>7, KeepRepFits
<1> QED BY <1>1, <1>2, <1>3, <1>4, <1>5, <1>6, <1>7 DEF Deciding

\* Any step that begins with a directory, and adds no rep.
LEMMA OpeningFits ==
    ASSUME CoreInv, FitInv, UNCHANGED <<call, reps, mistakes>>,
           UNCHANGED dirVars \/ \E s \in Spelling : checkdir(s),
           pc' \in Working => pc' = "source"
             /\ from'.name \in W.files[W.at[from'.dir]]
    PROVE  FitInv'
<1>1. Grows /\ DirsLed'
  BY DirsGrow DEF FitInv
<1>2. AtWorkFits'
  BY DEF AtWorkFits, Working, W
<1> QED BY <1>1, <1>2, FitsStill DEF FitInv

\* dostage_fnames begins with a source that is there.
LEMMA StageFits == ScanInv /\ FitInv /\ Stage => FitInv'
<1> SUFFICES ASSUME ScanInv, FitInv, Stage PROVE FitInv'
  OBVIOUS
<1>1. /\ checkdir(from.dir) /\ from.dir \in Spelling
      /\ UNCHANGED <<call, reps, mistakes, from>>
  BY DEF Stage, ScanInv, CoreInv, CoreTypes, Item, readVars, repVars
<1>2. pc' \in Working => pc' = "source" /\ Matches
  BY DEF Stage, Return, Working
<1> QED BY <1>1, <1>2, OpeningFits DEF ScanInv, Matches

\* The readers touch neither the store nor the directory cache.
LEMMA ReadingFits == ScanInv /\ FitInv /\ Reading => FitInv'
<1> SUFFICES ASSUME ScanInv, FitInv, Reading PROVE FitInv'
  OBVIOUS
<1>1. UNCHANGED <<call, reps, mistakes, dirVars>> /\ pc' \notin Working
  BY DEF Reading, ReadEof, ReadTooLong, ReadFrom, ReadTo, OddArgs, NextArgs,
     ParseError, ParseOK, ParseXnn, callVars, dirVars, repVars, Working
<1> QED BY <1>1, OpeningFits DEF ScanInv

\* Nothing has been found at first.
LEMMA FitInit == ScanInit => FitInv
<1> SUFFICES ASSUME ScanInit PROVE FitInv
  OBVIOUS
<1>1. Range(reps) = {} /\ DOMAIN dirs = {} /\ mistakes = {}
  BY DEF ScanInit, Range
<1>2. DirsLed /\ AtWorkFits
  BY <1>1 DEF ScanInit, DirsLed, AtWorkFits, Working
<1> QED BY <1>1, <1>2 DEF FitInv

\* Every step of the scan keeps what mmv_execute is handed in order.
LEMMA FitStep == ScanInv /\ FitInv /\ [ScanNext]_scanVars => FitInv'
<1> SUFFICES ASSUME ScanInv, FitInv, [ScanNext]_scanVars PROVE FitInv'
  OBVIOUS
<1>0. ScanInv'
  BY ScanStepKeeps
<1>1. CASE Reading
  BY <1>1, ReadingFits
<1>2. CASE Stage
  BY <1>2, StageFits
<1>3. CASE Deciding
  BY <1>0, <1>3, DecidingFits DEF ScanInv
<1>4. CASE UNCHANGED scanVars
  BY <1>4 DEF scanVars, FitInv, DirsLed, AtWorkFits, There, RepFits, FdelRight,
     fsearch, Place, MvTarget, IsDir, Working, W
<1> QED BY <1>1, <1>2, <1>3, <1>4 DEF ScanNext, Reading, Deciding

\* FitInv holds of every scan, whatever spellings there are.
LEMMA FitKept == ScanSpec => []FitInv
BY FitInit, FitStep, ScanKept, PTL DEF ScanSpec

-----------------------------------------------------------------------------
(***************************************************************************)
(* The job that is handed over.  Two spellings of a directory must be one  *)
(* DIRINFO, which dsearch does not see to, and the new names must be       *)
(* simple, which -r does not see to.                                       *)
(***************************************************************************)
PathFree == \A r \in Range(reps) : ~r.to.path

\* A directory has one DIRINFO, so a FILEINFO is a file.
LEMMA PlacesDiffer ==
    ASSUME CoreInv, DirsLed, SpellingsShare,
           NEW f \in (DOMAIN dirs) \X Simple, NEW g \in (DOMAIN dirs) \X Simple,
           Place(f) = Place(g)
    PROVE  f = g
<1>1. /\ f[1] \in DOMAIN dirs /\ g[1] \in DOMAIN dirs
      /\ dirs[f[1]] = dirs[g[1]] /\ f[2] = g[2]
      /\ f = <<f[1], f[2]>> /\ g = <<g[1], g[2]>>
  BY DEF Place
<1>2. PICK s \in Spelling, t \in Spelling : handle[s] = f[1] /\ handle[t] = g[1]
  BY <1>1 DEF DirsLed
<1>3. f[1] > 0 /\ g[1] > 0
  BY <1>1 DEF CoreInv, CoreTypes
<1>4. W.at[s] = W.at[t]
  BY <1>1, <1>2, <1>3 DEF DirsLed
<1> QED BY <1>1, <1>2, <1>3, <1>4 DEF SpellingsShare

\* A FILEINFO of the snapshot is a file that is there.
LEMMA PlaceThere ==
    ASSUME CoreInv, NEW f \in (DOMAIN dirs) \X Simple, There(f)
    PROVE  Place(f) \in ScanJob.files
<1>1. f[1] \in DOMAIN dirs /\ f[2] \in Simple /\ dirs[f[1]] \in Inode
  BY DEF CoreInv, CoreTypes
<1>2. Place(f) \in File /\ Place(f)[2] \in W.files[Place(f)[1]]
  BY <1>1 DEF Place, File, There
<1>3. ScanJob.files = {q \in File : q[2] \in W.files[q[1]]}
  BY Zenon DEF ScanJob
<1> QED BY <1>2, <1>3

\* The REP of a source is the one that was made for it.
LEMMA RepOfSource ==
    ASSUME CoreInv, DirsLed, SpellingsShare, NEW r \in Range(reps)
    PROVE  HasPlacedRep(SourceOf(r)) /\ RepOf(SourceOf(r)) = r
<1>1. ASSUME NEW q \in Range(reps), SourceOf(q) = SourceOf(r)
      PROVE  q = r
  <2>1. r.ffrom \in (DOMAIN dirs) \X Simple /\ q.ffrom \in (DOMAIN dirs) \X Simple
    BY DEF CoreInv, CoreTypes
  <2>2. q.ffrom = r.ffrom
    BY <1>1, <2>1, PlacesDiffer DEF SourceOf
  <2>3. PICK i \in DOMAIN reps, j \in DOMAIN reps : reps[i] = q /\ reps[j] = r
    BY DEF Range
  <2>4. i = j
    BY <2>2, <2>3 DEF CoreInv, OneRepEach
  <2> QED BY <2>3, <2>4
<1>2. HasPlacedRep(SourceOf(r))
  BY DEF HasPlacedRep
<1>3. RepOf(SourceOf(r)) \in Range(reps)
      /\ SourceOf(RepOf(SourceOf(r))) = SourceOf(r)
  BY DEF RepOf
<1> QED BY <1>1, <1>2, <1>3

\* r_fdel is the file that the target names.
LEMMA FdelIsTarget ==
    ASSUME CoreInv, FitInv, PathFree, NEW r \in Range(reps)
    PROVE  /\ TargetOf(r) \in ScanJob.files <=> r.to.fdel # Nil
           /\ r.to.fdel # Nil => Place(r.to.fdel) = TargetOf(r)
<1> DEFINE s == r.to.hto
           n == r.to.nto
<1>1. /\ ~r.to.path /\ s \in Spelling /\ handle[s] > 0
      /\ r.to.fdel = fsearch(n, W.at[s], handle[s])
  BY DEF FitInv, PathFree, RepFits, FdelRight
<1>2. TargetOf(r) = <<W.at[s], n>> /\ dirs[handle[s]] = W.at[s]
  BY <1>1 DEF TargetOf, FitInv, DirsLed
<1>3. /\ W.at[s] \in Inode /\ handle[s] \in Nat
      /\ W.files[W.at[s]] \subseteq Simple
  BY <1>1, CallFacts DEF CoreInv, CoreTypes, HandlesOpen, H_NOREADDIR
<1>4. ScanJob.files = {f \in File : f[2] \in W.files[f[1]]}
  BY Zenon DEF ScanJob
<1>5. TargetOf(r) \in ScanJob.files <=> n \in W.files[W.at[s]]
  BY <1>2, <1>3, <1>4 DEF File
<1>6. CASE n \in W.files[W.at[s]]
  <2>1. r.to.fdel = <<handle[s], n>> /\ r.to.fdel \in Nat \X Simple
    BY <1>1, <1>3, <1>6 DEF fsearch
  <2>2. r.to.fdel # Nil
    BY <2>1, SpellingAssumption
  <2>3. Place(r.to.fdel) = <<W.at[s], n>>
    BY <1>2, <2>1 DEF Place
  <2> QED BY <1>2, <1>5, <1>6, <2>2, <2>3
<1>7. CASE n \notin W.files[W.at[s]]
  BY <1>1, <1>5, <1>7 DEF fsearch
<1> QED BY <1>6, <1>7

\* Each refusal is one bad source.
LEMMA BadCounted ==
    ASSUME CoreInv, DirsLed, SpellingsShare
    PROVE  badreps = Cardinality(ScanJob.bad)
<1> DEFINE B == {Place(f) : f \in mistakes}
           h == [f \in mistakes |-> Place(f)]
<1>1. mistakes \subseteq (DOMAIN dirs) \X Simple /\ IsFiniteSet(mistakes)
      /\ badreps = Cardinality(mistakes)
  BY DEF CoreInv, CoreTypes, OneRepEach
<1>2. h \in Bijection(mistakes, B)
  <2>1. h \in [mistakes -> B] /\ \A b \in B : \E f \in mistakes : h[f] = b
    OBVIOUS
  <2>2. \A f, g \in mistakes : h[f] = h[g] => f = g
    BY <1>1, PlacesDiffer
  <2> HIDE DEF h, B
  <2> QED BY <2>1, <2>2 DEF Bijection, Injection, Surjection, IsInjective
<1>3. Cardinality(B) = Cardinality(mistakes)
  BY <1>1, <1>2, FS_Bijection DEF ExistsBijection
<1>4. ScanJob.bad = B
  BY Zenon DEF ScanJob
<1> QED BY <1>1, <1>3, <1>4

\* The job is one that mmv_execute takes.
LEMMA JobFits ==
    ASSUME CoreInv, FitInv, SpellingsShare
    PROVE  Rep!JobOK(ScanJob)
<1> DEFINE j == ScanJob
<1>1. /\ j.op = call.op /\ j.bad = {Place(f) : f \in mistakes}
      /\ j.reps = [k \in DOMAIN reps |-> SourceOf(reps[k])]
      /\ j.files = {f \in File : f[2] \in W.files[f[1]]}
      /\ j.dirs = {f \in File : W.sub[f] # NoDir} /\ j.ro = {}
      /\ j.isx = {SourceOf(r) : r \in {q \in Range(reps) : q.isx}}
  BY Zenon DEF ScanJob
<1>2. \A k \in DOMAIN reps :
        /\ reps[k] \in Range(reps) /\ RepFits(reps[k])
        /\ reps[k].ffrom \in (DOMAIN dirs) \X Simple
        /\ SourceOf(reps[k]) = Place(reps[k].ffrom)
  BY DEF CoreInv, CoreTypes, FitInv, Range, SourceOf
<1> HIDE DEF j
<1>3. IsInjective(j.reps)
  <2> SUFFICES ASSUME NEW a \in DOMAIN reps, NEW b \in DOMAIN reps,
                      SourceOf(reps[a]) = SourceOf(reps[b])
               PROVE  a = b
    BY <1>1 DEF IsInjective
  <2>1. reps[a].ffrom = reps[b].ffrom
    BY <1>2, PlacesDiffer DEF FitInv
  <2> QED BY <2>1 DEF CoreInv, OneRepEach
<1>4. Range(j.reps) \subseteq j.files
  <2> SUFFICES ASSUME NEW k \in DOMAIN reps PROVE SourceOf(reps[k]) \in j.files
    BY <1>1 DEF Range
  <2>1. There(reps[k].ffrom)
    BY <1>2 DEF RepFits
  <2> QED BY <1>2, <2>1, PlaceThere DEF j
<1>5. j.dirs \cup j.ro \subseteq j.files
  BY <1>1, CallsAssumption DEF CallOK, WorldOK, CoreInv, W
<1>6. j.bad \subseteq j.files \ Range(j.reps)
  <2> SUFFICES ASSUME NEW f \in mistakes
               PROVE  Place(f) \in j.files \ Range(j.reps)
    BY <1>1
  <2>1. f \in (DOMAIN dirs) \X Simple /\ There(f)
    BY DEF CoreInv, CoreTypes, FitInv
  <2>2. ASSUME NEW k \in DOMAIN reps PROVE SourceOf(reps[k]) # Place(f)
    BY <1>2, <2>1, PlacesDiffer DEF FitInv, CoreInv, OneRepEach
  <2> QED BY <1>1, <2>1, <2>2, PlaceThere DEF j, Range
<1>7. j.op # "DIRMOVE" => Range(j.reps) \cap j.dirs = {}
  <2> SUFFICES ASSUME call.op # "DIRMOVE", NEW k \in DOMAIN reps
               PROVE  SourceOf(reps[k]) \notin j.dirs
    BY <1>1 DEF Range
  <2> QED BY <1>1, <1>2 DEF RepFits
<1>8. j.op \in {"NORMMOVE", "HARDLINK", "DIRMOVE"} => j.isx = {}
  <2> SUFFICES ASSUME call.op \in {"NORMMOVE", "HARDLINK", "DIRMOVE"}
               PROVE  \A q \in Range(reps) : ~q.isx
    BY <1>1
  <2> QED BY DEF FitInv, RepFits
<1> QED BY <1>3, <1>4, <1>5, <1>6, <1>7, <1>8
        DEF j, Rep!JobOK, Rep!IsInjective, Rep!Range, IsInjective, Range

\* The store begins as mmv_execute expects it.
LEMMA StoreFits ==
    ASSUME CoreInv, FitInv, SpellingsShare, PathFree
    PROVE  Rep!RepStart
<1> DEFINE j == ScanJob
<1>1. /\ j.bad = {Place(f) : f \in mistakes}
      /\ j.reps = [k \in DOMAIN reps |-> SourceOf(reps[k])]
      /\ j.to = [f \in File |-> IF HasPlacedRep(f) THEN TargetOf(RepOf(f)) ELSE f]
  BY Zenon DEF ScanJob
<1>2. ASSUME NEW f \in File
      PROVE  /\ f \in Range(j.reps) <=> HasPlacedRep(f)
             /\ HasPlacedRep(f) => RepOf(f) \in Range(reps)
                                     /\ j.to[f] = TargetOf(RepOf(f))
             /\ ~HasPlacedRep(f) => j.to[f] = f
  BY <1>1 DEF Range, HasPlacedRep, RepOf
<1>3. ASSUME NEW f \in File, HasPlacedRep(f)
      PROVE  /\ j.to[f] \in j.files <=> RepOf(f).to.fdel # Nil
             /\ RepOf(f).to.fdel # Nil => Place(RepOf(f).to.fdel) = j.to[f]
  <2>1. RepOf(f) \in Range(reps) /\ j.to[f] = TargetOf(RepOf(f))
    BY <1>2, <1>3
  <2> QED BY <2>1, FdelIsTarget
<1>4. Len(j.reps) = Len(reps)
  BY <1>1 DEF CoreInv, CoreTypes
<1>5. badreps = Cardinality(j.bad)
  BY BadCounted DEF FitInv
<1> HIDE DEF j
<1>6. [f \in File |-> IF HasPlacedRep(f) /\ RepOf(f).to.fdel # Nil
                      THEN Place(RepOf(f).to.fdel) ELSE Nil]
      = [f \in File |-> IF f \in Range(j.reps) /\ j.to[f] \in j.files
                        THEN j.to[f] ELSE Nil]
  BY <1>2, <1>3
<1>7. [f \in File |-> IF HasPlacedRep(f) THEN f
                      ELSE IF f \in j.bad THEN Mistake ELSE Nil]
      = [f \in File |-> IF f \in Range(j.reps) THEN f
                        ELSE IF f \in j.bad THEN Mistake ELSE Nil]
  BY <1>2
<1>8. Rep!Sources = Range(j.reps)
  BY DEF Rep!Sources, Rep!Range, Range, j
<1>9. Rep!Cardinality(j.bad) = Cardinality(j.bad)
  BY DEF Rep!Cardinality, Cardinality
<1>10. [f \in File |-> IF f \in Rep!Sources /\ j.to[f] \in j.files
                      THEN j.to[f] ELSE Nil]
       = [f \in File |-> IF f \in Range(j.reps) /\ j.to[f] \in j.files
                         THEN j.to[f] ELSE Nil]
  BY <1>8
<1> QED BY <1>4, <1>5, <1>6, <1>7, <1>8, <1>9, <1>10 DEF Rep!RepStart, j

\* Under -r the new name is a name.
NewNamesSimple ==
    call.op = "DIRMOVE" => \A t \in Range(call.input) : t.kind # "home"

\* No rep gets a target that is a path while new names are simple.
LEMMA PathFreeStep ==
    ScanInv /\ FitInv /\ NewNamesSimple /\ PathFree /\ [ScanNext]_scanVars
        => NewNamesSimple' /\ PathFree'
<1> SUFFICES ASSUME ScanInv, FitInv, NewNamesSimple, PathFree,
                    [ScanNext]_scanVars
             PROVE  NewNamesSimple' /\ PathFree'
  OBVIOUS
<1>1. CASE KeepRep
  <2> DEFINE r == [pair |-> Pair, hfrom |-> from.dir, ffrom |-> ffrom,
                   to |-> cand, isx |-> IsX]
  <2>1. pc = "verdict" /\ reps' = Append(reps, r) /\ r.to = cand /\ call' = call
    BY <1>1 DEF KeepRep, callVars
  <2>2. ~cand.path
    BY <2>1 DEF FitInv, AtWorkFits, NewNamesSimple, ScanInv, ReadInv, InHand,
                NoWord
  <2> HIDE DEF r
  <2>3. Range(reps') \subseteq Range(reps) \cup {r}
    BY <2>1 DEF Range, ScanInv, CoreInv, CoreTypes
  <2> QED BY <2>1, <2>2, <2>3 DEF PathFree, NewNamesSimple
<1>2. CASE ~KeepRep
  <2>1. reps' = reps /\ call' = call
    BY <1>2, DecidingLeaves
       DEF ScanNext, Deciding, Stage, ReadEof, ReadTooLong, ReadFrom, ReadTo,
           OddArgs, NextArgs, ParseError, ParseOK, ParseXnn, callVars, repVars,
           scanVars
  <2> QED BY <2>1 DEF PathFree, NewNamesSimple
<1> QED BY <1>1, <1>2

\* What mmv_execute relies on when the scan calls it: each file has at most one
\* REP or one counted refusal, no REP is one that badrep refuses, and each r_fdel
\* is the existing file that the target names, or NULL.  It holds as long as the
\* spellings of a directory have one DIRINFO and no name after -r begins with the
\* home directory: the runs spellings and dirmove_home show that the code sees to
\* neither.
THEOREM ScanHandsOver ==
    ScanSpec /\ NewNamesSimple => [](SpellingsShare => HandsOver)
<1>1. ScanInit => PathFree
  BY DEF ScanInit, PathFree, Range
<1>2. ScanInv /\ FitInv /\ PathFree => (SpellingsShare => HandsOver)
  BY JobFits, StoreFits DEF HandsOver, ScanInv
<1> QED BY <1>1, <1>2, PathFreeStep, ScanKept, FitKept, PTL DEF ScanSpec
-----------------------------------------------------------------------------
(***************************************************************************)
(* How far dsearch's fault reaches.  The DIRINFO that was made first is    *)
(* found again under any spelling.                                         *)
(***************************************************************************)
FirstFound ==
    \A s \in Spelling : handle[s] > 0 /\ W.at[s] = dirs[1] => handle[s] = 1

\* No other directory has been looked up under two spellings.
OnlyFirstTwice ==
    \A s, t \in Spelling :
        handle[s] > 0 /\ handle[t] > 0 /\ W.at[s] = W.at[t]
            => s = t \/ W.at[s] = dirs[1]

\* The first directory ever opened is the one that dsearch finds again.
LEMMA FirstFoundStep ==
    ScanInv /\ FitInv /\ FirstFound /\ [ScanNext]_scanVars => FirstFound'
<1> SUFFICES ASSUME ScanInv, FitInv, FirstFound, [ScanNext]_scanVars
             PROVE  FirstFound'
  OBVIOUS
<1> USE DEF H_NODIR, H_NOREADDIR
<1>1. call' = call /\ (UNCHANGED dirVars \/ \E s \in Spelling : checkdir(s))
  <2>1. CASE Deciding
    BY <2>1, DecidingGrows, DecidingLeaves DEF ScanInv
  <2>2. CASE Stage
    BY <2>2 DEF Stage, ScanInv, CoreInv, CoreTypes, Item
  <2> QED BY <2>1, <2>2 DEF ScanNext, Deciding, ReadEof, ReadTooLong, ReadFrom,
          ReadTo, OddArgs, NextArgs, ParseError, ParseOK, ParseXnn, callVars,
          dirVars, scanVars
<1>2. CASE UNCHANGED dirVars
  BY <1>1, <1>2 DEF FirstFound, dirVars, W
<1>3. ASSUME NEW s \in Spelling, checkdir(s) PROVE FirstFound'
  <2>1. /\ dirs \in Seq(Inode) /\ handle \in [Spelling -> -2..Len(dirs)]
        /\ handle' = [handle EXCEPT ![s] = Found(s)]
        /\ dirs' = IF Found(s) > Len(dirs) THEN Append(dirs, W.at[s]) ELSE dirs
    BY <1>3 DEF ScanInv, CoreInv, CoreTypes, checkdir
  <2>2. CASE dirs = << >>
    BY <1>1, <2>1, <2>2 DEF FirstFound, Found, dsearch, W
  <2>3. CASE dirs # << >>
    <3>1. dirs'[1] = dirs[1]
      BY <2>1, <2>3
    <3>2. W.at[s] = dirs[1] /\ Found(s) > 0 => Found(s) = 1
      BY <2>1, <2>3 DEF FirstFound, Found, dsearch
    <3> QED BY <1>1, <2>1, <3>1, <3>2 DEF FirstFound, W
  <2> QED BY <2>2, <2>3
<1> QED BY <1>1, <1>2, <1>3

\* "Search all |DIRINFO| struct for matching the given { devid, dirid }": two
\* spellings of a directory are one DIRINFO if it is the one that was looked up
\* first.  Only where another directory is met under two spellings does dsearch
\* go wrong.
THEOREM FirstSpellingsShare == ScanSpec => [](OnlyFirstTwice => SpellingsShare)
<1>1. ScanInit => FirstFound
  BY DEF ScanInit, FirstFound
<1>2. FirstFound /\ OnlyFirstTwice => SpellingsShare
  BY DEF FirstFound, OnlyFirstTwice, SpellingsShare
<1> QED BY <1>1, <1>2, FirstFoundStep, ScanKept, FitKept, PTL DEF ScanSpec

-----------------------------------------------------------------------------
(***************************************************************************)
(* Which pair is at work.                                                  *)
(***************************************************************************)
\* The words in hand are the pair that was read last; no pair is looked up
\* twice.
PairInHand ==
    /\ pos = 0 => from = NoWord /\ (tried = {} \/ pc = "error")
    /\ pos > 0 => tried \subseteq 1..Pair
    /\ pc = "from" => pos % 2 = 0
    /\ pc = "to" => pos % 2 = 1 /\ from = call.input[pos]
    /\ pc \in {"args", "parse", "stage"} \cup Working =>
         /\ pos % 2 = 0
         /\ pos > 0 => from = call.input[pos - 1] /\ to = call.input[pos]
    /\ pc \in {"args", "parse", "stage"} => tried \subseteq 1..Pair - 1
    /\ pc \in {"parse"} \cup Working => pos > 0
    /\ pc = "stage" /\ pos = 0 => call.reader = "argv"

\* Halves, for pos and Pair.
LEMMA Halves ==
    \A n \in Nat : /\ n \div 2 \in Nat /\ 2 * (n \div 2) <= n
                   /\ n < 2 * (n \div 2) + 2 /\ (n + 2) \div 2 = n \div 2 + 1
                   /\ n % 2 \in {0, 1}
                   /\ n % 2 = 0 => /\ (n + 1) % 2 = 1 /\ (n + 2) % 2 = 0
                                   /\ (n + 1) \div 2 = n \div 2
                                   /\ 2 * (n \div 2) = n
                   /\ n % 2 = 1 => /\ (n + 1) % 2 = 0
                                   /\ (n + 1) \div 2 = n \div 2 + 1
                                   /\ 2 * (n \div 2) + 1 = n
OBVIOUS

\* What a step of reading does, case by case.
LEMMA ReadingSteps ==
    ASSUME ScanInv, Reading
    PROVE  /\ UNCHANGED <<call, tried, unmatched, reps, mistakes, dirVars>>
           /\ pos \in Nat /\ call.input \in Seq(Item)
           /\ \/ pc \in {"from", "to"} /\ AtEof /\ pc' = "execute"
                   /\ UNCHANGED readVars
              \/ pc' = "error" /\ UNCHANGED readVars
              \/ pc' = "crash" /\ UNCHANGED readVars
              \/ /\ pc = "from" /\ pc' = "to" /\ call.reader # "argv"
                 /\ pos' = pos + 1 /\ pos < Len(call.input)
                 /\ from' = call.input[pos + 1] /\ to' = to
              \/ /\ pc = "to" /\ pc' \in {"parse", "error"}
                 /\ call.reader # "argv"
                 /\ pos' = pos + 1 /\ pos < Len(call.input)
                 /\ to' = call.input[pos + 1] /\ from' = from
              \/ /\ pc = "args" /\ pc' = "parse" /\ call.reader = "argv"
                 /\ pos' = pos + 2 /\ pos < Len(call.input)
                 /\ Len(call.input) % 2 = 0
                 /\ from' = call.input[pos + 1] /\ to' = call.input[pos + 2]
              \/ /\ pc = "args" /\ pc' = "stage" /\ ~More
                 /\ call.reader = "argv" /\ UNCHANGED readVars
              \/ /\ pc = "parse" /\ call.reader = "argv" /\ pc' = "args"
                 /\ UNCHANGED readVars
              \/ /\ pc = "parse" /\ call.reader # "argv" /\ pc' = "stage"
                 /\ UNCHANGED readVars
<1>1. pos \in Nat /\ call.input \in Seq(Item)
  BY CallFacts DEF ScanInv, CoreInv, CoreTypes
<1>2. pc = "args" => call.reader = "argv"
  BY DEF ScanInv, ReadInv, InHand
<1>3. call.reader = "argv" => pc \notin {"from", "to"}
  BY DEF ScanInv, ReadInv, InHand
<1> QED BY <1>1, <1>2, <1>3 DEF Reading, ReadEof, ReadTooLong, ReadFrom, ReadTo, OddArgs,
           NextArgs, ParseError, ParseOK, ParseXnn, callVars, readVars, repVars,
           dirVars, AtEof, More, Item1, Item2

\* The pair in hand is a pair of the input, until the next one is read.
LEMMA PairStep == ScanInv /\ PairInHand /\ [ScanNext]_scanVars => PairInHand'
<1> SUFFICES ASSUME ScanInv, PairInHand, [ScanNext]_scanVars PROVE PairInHand'
  OBVIOUS
<1>1. pos \in Nat /\ Pair \in Nat /\ call.input \in Seq(Item)
  BY Halves, CallFacts DEF ScanInv, CoreInv, CoreTypes, Pair
<1>2. CASE Reading
  <2>1. /\ pos \div 2 \in Nat /\ pos % 2 \in {0, 1}
        /\ (pos + 2) \div 2 = pos \div 2 + 1
        /\ pos % 2 = 0 => /\ (pos + 1) % 2 = 1 /\ (pos + 2) % 2 = 0
                          /\ (pos + 1) \div 2 = pos \div 2
        /\ pos % 2 = 1 => /\ (pos + 1) % 2 = 0
                          /\ (pos + 1) \div 2 = pos \div 2 + 1
    BY <1>1, Halves
  <2>2. UNCHANGED <<call, tried>>
    BY <1>2, ReadingSteps
  <2>3. CASE UNCHANGED readVars
    <3>1. UNCHANGED <<pos, from, to>> /\ ~(pos' = pos + 1) /\ ~(pos' = pos + 2)
      BY <1>1, <2>3 DEF readVars
    <3>2. \/ pc' \in {"execute", "error", "crash"}
          \/ pc = "args" /\ pc' = "stage" /\ call.reader = "argv"
          \/ pc = "parse" /\ pc' = "args"
          \/ pc = "parse" /\ pc' = "stage" /\ call.reader # "argv"
      BY <1>2, <3>1, ReadingSteps
    <3>3. pc # "error"
      BY <1>2 DEF Reading, ReadEof, ReadTooLong, ReadFrom, ReadTo, OddArgs,
                  NextArgs, ParseError, ParseOK, ParseXnn
    <3> QED BY <2>2, <3>1, <3>2, <3>3 DEF PairInHand, Pair, Working
  <2>4. CASE /\ pc = "from" /\ pc' = "to" /\ call.reader # "argv"
             /\ pos' = pos + 1 /\ pos < Len(call.input)
             /\ from' = call.input[pos + 1] /\ to' = to
    BY <1>1, <2>1, <2>2, <2>4 DEF PairInHand, Pair, Working
  <2>5. CASE /\ pc = "to" /\ pc' \in {"parse", "error"}
             /\ pos' = pos + 1 /\ pos < Len(call.input)
             /\ to' = call.input[pos + 1] /\ from' = from
    BY <1>1, <2>1, <2>2, <2>5 DEF PairInHand, Pair, Working
  <2>6. CASE /\ pc = "args" /\ pc' = "parse"
             /\ pos' = pos + 2 /\ pos < Len(call.input)
             /\ from' = call.input[pos + 1] /\ to' = call.input[pos + 2]
    BY <1>1, <2>1, <2>2, <2>6 DEF PairInHand, Pair, Working
  <2> QED BY <1>2, <2>3, <2>4, <2>5, <2>6, ReadingSteps, Zenon
<1>3. CASE Stage
  <2>1. /\ pc = "stage" /\ tried' = tried \cup {Pair}
        /\ UNCHANGED <<call, pos, from, to>>
        /\ \/ Matches /\ pc' \in {"quit", "source"}
           \/ pc' = IF call.reader = "argv" THEN "error"
                    ELSE IF call.reader = "pat" THEN "walk" ELSE "from"
    BY <1>3 DEF Stage, Return, readVars
  <2>2. Matches => from # NoWord
    <3>1. from.dir \in Spelling /\ checkdir(from.dir) /\ call' = call
      BY <1>3, <2>1 DEF Stage, ScanInv, CoreInv, CoreTypes, Item
    <3>2. Matches => W.at[from.dir] \in Inode /\ from.name \in W.files[W.at[from.dir]]
      BY <3>1, CheckdirOpens DEF Matches, ScanInv
    <3>3. Matches => from.name \in Simple
      BY <3>2, CallFacts DEF ScanInv, CoreInv
    <3> QED BY <3>3, SpellingAssumption DEF NoWord
  <2>3. pos > 0 => Pair \in 1..Pair
    BY <1>1, <2>1, Halves DEF PairInHand, Pair
  <2>4. pos = 0 => ~Matches /\ call.reader = "argv"
    BY <2>1, <2>2 DEF PairInHand
  <2> QED BY <1>1, <2>1, <2>3, <2>4, Halves DEF PairInHand, Pair, Working
<1>4. CASE Deciding
  BY <1>1, <1>4, DecidingLeaves DEF PairInHand, Pair, Working, Return
<1>5. CASE UNCHANGED scanVars
  BY <1>5 DEF scanVars, PairInHand, Pair
<1> QED BY <1>2, <1>3, <1>4, <1>5 DEF ScanNext, Reading, Deciding

\* The pair in hand is one of the input.
LEMMA PairKept == ScanSpec => []PairInHand
<1>1. ScanInit => PairInHand
  BY DEF ScanInit, PairInHand, Working
<1> QED BY <1>1, PairStep, ScanKept, PTL DEF ScanSpec

-----------------------------------------------------------------------------
(***************************************************************************)
(* Every REP does what its pair says.                                      *)
(***************************************************************************)
SrcItem(q) == call.input[2 * q - 1]
DstItem(q) == call.input[2 * q]

Said(r) ==
    /\ SourceOf(r) = <<W.at[SrcItem(r.pair).dir], SrcItem(r.pair).name>>
    /\ TargetOf(r) = MvTarget(SrcItem(r.pair), DstItem(r.pair))

\* No earlier pair with the same source has found it.
FirstPair(r) ==
    \A q \in tried : q < r.pair =>
        (<<W.at[SrcItem(q).dir], SrcItem(q).name>> = SourceOf(r)
            => q \in unmatched)

\* The source of pair q has its REP, or has been refused.
Served(q) == /\ handle[SrcItem(q).dir] > 0
             /\ HasRep(<<handle[SrcItem(q).dir], SrcItem(q).name>>)

SaidInv ==
    /\ \A r \in Range(reps) : Said(r)
    /\ SpellingsShare => \A r \in Range(reps) : FirstPair(r)
    /\ \A q \in tried \ unmatched :
         Served(q) \/ (q = Pair /\ pc \in Working \cup {"quit"})

\* A pair that has been looked up is a pair of the input.
LEMMA TriedInInput ==
    ASSUME ScanInv, PairInHand, pos > 0, NEW q \in tried
    PROVE  /\ SrcItem(q) \in Item /\ DstItem(q) \in Item
           /\ q \in Nat /\ q <= Pair
<1>1. /\ pos \in Nat /\ pos <= Len(call.input) /\ call.input \in Seq(Item)
      /\ Len(call.input) \in Nat
  BY CallFacts DEF ScanInv, CoreInv, CoreTypes, ReadInv
<1>2. Pair \in Nat /\ 2 * Pair <= pos
  BY <1>1, Halves DEF Pair
<1>3. q \in 1..Pair
  BY DEF PairInHand
<1>4. 2 * q - 1 \in 1..Len(call.input) /\ 2 * q \in 1..Len(call.input)
  BY <1>1, <1>2, <1>3
<1> QED BY <1>1, <1>2, <1>3, <1>4 DEF SrcItem, DstItem

\* The words in hand are those of the pair at work.
LEMMA HandIsPair ==
    ASSUME ScanInv, PairInHand, pc \in {"stage"} \cup Working, pos > 0
    PROVE  from = SrcItem(Pair) /\ to = DstItem(Pair)
<1>1. pos \in Nat /\ pos % 2 = 0
  BY DEF ScanInv, CoreInv, CoreTypes, PairInHand
<1>2. 2 * Pair = pos
  BY <1>1, Halves DEF Pair
<1> QED BY <1>2 DEF PairInHand, SrcItem, DstItem

\* A place that is shared was shared before.
LEMMA SharedBefore ==
    ASSUME CoreInv, Grows, SpellingsShare'
    PROVE  SpellingsShare
<1>1. \A s \in Spelling : handle[s] \in Int
  BY DEF CoreInv, CoreTypes, H_NOREADDIR
<1> QED BY <1>1 DEF SpellingsShare, Grows, W

\* What a REP says does not change, nor that a pair has been served.
LEMMA SaidStays ==
    ASSUME ScanInv, PairInHand, SaidInv, Grows,
           mistakes \subseteq mistakes',
           \A k \in DOMAIN reps : k \in DOMAIN reps' /\ reps'[k] = reps[k]
    PROVE  /\ \A r \in Range(reps) : SourceOf(r)' = SourceOf(r) /\ Said(r)'
           /\ \A q \in tried : pos > 0 /\ Served(q) => Served(q)'
<1>1. ASSUME NEW r \in Range(reps)
      PROVE  SourceOf(r)' = SourceOf(r) /\ Said(r)'
  <2>1. r.ffrom \in (DOMAIN dirs) \X Simple /\ Said(r)
    BY DEF ScanInv, CoreInv, CoreTypes, SaidInv
  <2>2. SourceOf(r)' = SourceOf(r)
    BY <2>1 DEF SourceOf, Place, Grows
  <2> QED BY <2>1, <2>2 DEF Said, SrcItem, DstItem, TargetOf, MvTarget, Grows, W
<1>2. ASSUME NEW q \in tried, pos > 0, Served(q)
      PROVE  Served(q)'
  <2>1. SrcItem(q).dir \in Spelling
    BY <1>2, TriedInInput DEF Item
  <2>2. SrcItem(q)' = SrcItem(q) /\ handle'[SrcItem(q).dir] = handle[SrcItem(q).dir]
    BY <1>2, <2>1 DEF SrcItem, Grows, Served
  <2> QED BY <1>2, <2>2 DEF Served, HasRep
<1> QED BY <1>1, <1>2

\* No step of the scan takes back a handle or a DIRINFO.
LEMMA ScanGrows ==
    ScanInv /\ FitInv /\ [ScanNext]_scanVars => Grows
<1> SUFFICES ASSUME ScanInv, FitInv, [ScanNext]_scanVars PROVE Grows
  OBVIOUS
<1>1. call' = call /\ (UNCHANGED dirVars \/ \E s \in Spelling : checkdir(s))
  <2>1. CASE Deciding
    BY <2>1, DecidingGrows, DecidingLeaves DEF ScanInv
  <2>2. CASE Stage
    BY <2>2 DEF Stage, ScanInv, CoreInv, CoreTypes, Item
  <2> QED BY <2>1, <2>2 DEF ScanNext, Deciding, ReadEof, ReadTooLong, ReadFrom,
          ReadTo, OddArgs, NextArgs, ParseError, ParseOK, ParseXnn, callVars,
          dirVars, scanVars
<1> QED BY <1>1, DirsGrow DEF ScanInv, FitInv

\* Any step that adds no REP.
LEMMA NoRepSaid ==
    ASSUME ScanInv, PairInHand, FitInv, SaidInv, [ScanNext]_scanVars,
           reps' = reps, mistakes \subseteq mistakes',
           unmatched \subseteq unmatched',
           \A q \in tried' \ tried : \A r \in Range(reps) : ~(q < r.pair),
           \A q \in tried' \ unmatched' :
             \/ q \in tried /\ Served(q) /\ pos > 0
             \/ Served(q)'
             \/ q = Pair' /\ pc' \in Working \cup {"quit"}
    PROVE  SaidInv'
<1>1. Grows
  BY ScanGrows
<1>2. /\ \A r \in Range(reps) : SourceOf(r)' = SourceOf(r) /\ Said(r)'
      /\ \A q \in tried : pos > 0 /\ Served(q) => Served(q)'
  BY <1>1, SaidStays
<1>3. ASSUME SpellingsShare', NEW r \in Range(reps)
      PROVE  FirstPair(r)'
  <2>1. FirstPair(r)
    BY <1>1, <1>3, SharedBefore DEF SaidInv, ScanInv
  <2> QED BY <1>1, <1>2, <2>1 DEF FirstPair, SrcItem, Grows, W
<1> QED BY <1>2, <1>3 DEF SaidInv

\* Reading a pair changes nothing of what the reps say.
LEMMA ReadingSaid ==
    ScanInv /\ PairInHand /\ FitInv /\ SaidInv /\ Reading => SaidInv'
<1> SUFFICES ASSUME ScanInv, PairInHand, FitInv, SaidInv, Reading PROVE SaidInv'
  OBVIOUS
<1>1. UNCHANGED <<call, tried, unmatched, reps, mistakes, dirVars>>
  BY ReadingSteps
<1>2. pc \notin Working \cup {"quit", "error"}
  BY DEF Reading, ReadEof, ReadTooLong, ReadFrom, ReadTo, OddArgs, NextArgs,
     ParseError, ParseOK, ParseXnn, Working
<1>3. \A q \in tried' \ unmatched' : q \in tried /\ Served(q) /\ pos > 0
  BY <1>1, <1>2 DEF SaidInv, PairInHand, ScanInv, CoreInv, CoreTypes
<1> QED BY <1>1, <1>3, NoRepSaid DEF ScanNext, Reading

\* A pair is looked up: it is now at work, or else its source is served or missing.
LEMMA StageSaid ==
    ScanInv /\ PairInHand /\ FitInv /\ SaidInv /\ Stage => SaidInv'
<1> SUFFICES ASSUME ScanInv, PairInHand, FitInv, SaidInv, Stage PROVE SaidInv'
  OBVIOUS
<1>1. /\ pc = "stage" /\ tried' = tried \cup {Pair}
      /\ UNCHANGED <<call, pos, reps, mistakes>>
      /\ \/ pc' \in {"quit", "source"} /\ unmatched' = unmatched
         \/ unmatched' = unmatched \cup {Pair}
  BY DEF Stage, Return, readVars, repVars
<1>2. \A q \in tried : Pair \in Nat /\ q \in 1..Pair - 1 /\ pos > 0
  BY <1>1, Halves DEF PairInHand, Pair, ScanInv, CoreInv, CoreTypes
<1>3. \A q \in tried' \ tried : \A r \in Range(reps) : ~(q < r.pair)
  <2> SUFFICES ASSUME NEW r \in Range(reps) PROVE ~(Pair < r.pair)
    BY <1>1
  <2>1. r.pair \in tried
    BY DEF ScanInv, ReadInv
  <2> QED BY <1>2, <2>1
<1>4. \A q \in tried' \ unmatched' :
        (q \in tried /\ Served(q) /\ pos > 0)
          \/ (q = Pair' /\ pc' \in Working \cup {"quit"})
  BY <1>1, <1>2 DEF SaidInv, Working, Pair
<1> QED BY <1>1, <1>3, <1>4, NoRepSaid DEF ScanNext

\* A refusal serves the pair at work.
LEMMA RefuseSaid ==
    ASSUME ScanInv, PairInHand, FitInv, SaidInv, pc \in Working, RefuseSource,
           UNCHANGED dirVars, [ScanNext]_scanVars
    PROVE  SaidInv'
<1>1. /\ mistakes' = mistakes \cup {ffrom}
      /\ UNCHANGED <<call, pos, reps, tried, unmatched, handle>>
  BY DEF RefuseSource, callVars, readVars, dirVars
<1>2. pos > 0 /\ from = SrcItem(Pair) /\ handle[from.dir] > 0
  BY HandIsPair DEF PairInHand, ScanInv, CoreInv, AtWork
<1>q. PICK n : n = Pair
  OBVIOUS
<1>3. Served(n)'
  BY <1>1, <1>2, <1>q DEF Served, SrcItem, HasRep, ffrom
<1>4. \A q \in tried' \ unmatched' :
        (q \in tried /\ Served(q) /\ pos > 0) \/ Served(q)'
  BY <1>1, <1>2, <1>q, <1>3 DEF SaidInv
<1> QED BY <1>1, <1>4, NoRepSaid

\* A new rep does what its own pair says, and no earlier pair has found its source.
LEMMA KeepRepSaid ==
    ASSUME ScanInv, PairInHand, FitInv, SaidInv, KeepRep, NewNamesSimple
    PROVE  SaidInv'
<1> DEFINE k == [pair |-> Pair, hfrom |-> from.dir, ffrom |-> ffrom,
                 to |-> cand, isx |-> IsX]
<1>1. /\ pc = "verdict" /\ reps' = Append(reps, k) /\ ~BadTarget
      /\ UNCHANGED <<call, pos, tried, unmatched, handle, dirs, mistakes>>
  BY DEF KeepRep, callVars, readVars, dirVars
<1>2. k.pair = Pair /\ k.ffrom = ffrom /\ k.to = cand /\ k.hfrom = from.dir
  BY Zenon
<1> HIDE DEF k
<1>p. PICK r : r = k
  OBVIOUS
<1>3. /\ pos > 0 /\ from = SrcItem(Pair) /\ to = DstItem(Pair)
      /\ handle[from.dir] > 0 /\ from.dir \in Spelling /\ ~HasRep(ffrom)
  BY <1>1, HandIsPair DEF PairInHand, ScanInv, CoreInv, AtWork, CoreTypes, Item,
     Working
<1>4. ~cand.path
  BY <1>1 DEF FitInv, AtWorkFits, NewNamesSimple, ScanInv, ReadInv, InHand,
              NoWord
<1>5. handle[cand.hto] > 0
  <2>1. cand.hto \in Spelling /\ handle \in [Spelling -> Int]
    BY DEF ScanInv, CoreInv, CoreTypes, CandRec, H_NOREADDIR
  <2> QED BY <1>1, <2>1 DEF BadTarget, FitInv, AtWorkFits
<1>6. TargetOf(r) = MvTarget(from, to)
  BY <1>1, <1>2, <1>p, <1>4, <1>5 DEF TargetOf, FitInv, AtWorkFits
<1>7. SourceOf(r) = <<W.at[from.dir], from.name>>
  BY <1>2, <1>p, <1>3 DEF SourceOf, Place, ffrom, FitInv, DirsLed
<1>8. Said(r)
  BY <1>2, <1>p, <1>3, <1>6, <1>7 DEF Said
<1>9. ASSUME SpellingsShare
      PROVE  FirstPair(r)
  <2> SUFFICES ASSUME NEW q \in tried, q < r.pair, q \notin unmatched,
                      <<W.at[SrcItem(q).dir], SrcItem(q).name>> = SourceOf(r)
               PROVE  FALSE
    BY DEF FirstPair
  <2>1. q # Pair /\ SrcItem(q) \in Item
    BY <1>2, <1>p, <1>3, TriedInInput DEF Pair, ScanInv, CoreInv, CoreTypes
  <2>2. Served(q)
    BY <2>1 DEF SaidInv
  <2>3. SrcItem(q).dir \in Spelling /\ W.at[SrcItem(q).dir] = W.at[from.dir]
        /\ SrcItem(q).name = from.name
    BY <1>7, <2>1 DEF Item
  <2>4. handle[SrcItem(q).dir] = handle[from.dir]
    BY <1>3, <1>9, <2>2, <2>3 DEF Served, SpellingsShare
  <2> QED BY <1>3, <2>2, <2>3, <2>4 DEF Served, ffrom
<1>10. Grows /\ reps \in Seq(RepRec)
  BY ScanGrows DEF ScanNext, ScanInv, CoreInv, CoreTypes
<1>11. /\ Range(reps') = Range(reps) \cup {r}
       /\ \A n \in DOMAIN reps : n \in DOMAIN reps' /\ reps'[n] = reps[n]
       /\ Len(reps) + 1 \in DOMAIN reps' /\ reps'[Len(reps) + 1] = r
  BY <1>1, <1>p, <1>10 DEF Range
<1>12. /\ \A q \in Range(reps) : SourceOf(q)' = SourceOf(q) /\ Said(q)'
       /\ \A q \in tried : pos > 0 /\ Served(q) => Served(q)'
  BY <1>1, <1>10, <1>11, SaidStays
<1>13. SourceOf(r)' = SourceOf(r) /\ Said(r)'
  BY <1>1, <1>8 DEF Said, SourceOf, Place, TargetOf, SrcItem, DstItem, MvTarget, W
<1>14. ASSUME SpellingsShare', NEW q \in Range(reps')
       PROVE  FirstPair(q)'
  <2>1. FirstPair(q) /\ SourceOf(q)' = SourceOf(q)
    BY <1>9, <1>10, <1>11, <1>12, <1>13, <1>14, SharedBefore DEF SaidInv, ScanInv
  <2> QED BY <1>1, <2>1 DEF FirstPair, SrcItem, W
<1>q. PICK n : n = Pair
  OBVIOUS
<1>15. Served(n)'
  BY <1>1, <1>2, <1>p, <1>q, <1>3, <1>11 DEF Served, SrcItem, HasRep, ffrom
<1>16. \A q \in tried' \ unmatched' : Served(q)'
  BY <1>1, <1>3, <1>q, <1>12, <1>15 DEF SaidInv
<1> QED BY <1>11, <1>12, <1>13, <1>14, <1>16 DEF SaidInv

\* Every step of the scan keeps what the reps say of their pairs.
LEMMA SaidStep ==
    ScanInv /\ PairInHand /\ FitInv /\ SaidInv /\ NewNamesSimple
        /\ [ScanNext]_scanVars => SaidInv'
<1> SUFFICES ASSUME ScanInv, PairInHand, FitInv, SaidInv, NewNamesSimple,
                    [ScanNext]_scanVars
             PROVE  SaidInv'
  OBVIOUS
<1>1. CASE Reading
  BY <1>1, ReadingSaid
<1>2. CASE Stage
  BY <1>2, StageSaid
<1>3. CASE SourceBad \/ TargetBad
  BY <1>3, RefuseSaid DEF SourceBad, TargetBad, Working
<1>4. CASE KeepRep
  BY <1>4, KeepRepSaid
<1>5. CASE SourceGood \/ CheckToDirmove \/ CheckTo \/ CheckInside
  <2>1. /\ pc \in Working /\ pc' \in Working \cup {"quit"}
        /\ UNCHANGED <<pos, reps, mistakes, tried, unmatched>>
    BY <1>5 DEF SourceGood, CheckToDirmove, CheckTo, CheckInside, Take, Working,
                callVars, readVars, repVars
  <2>2. \A q \in tried' \ unmatched' :
          (q \in tried /\ Served(q) /\ pos > 0) \/
          (q = Pair' /\ pc' \in Working \cup {"quit"})
    BY <2>1 DEF SaidInv, Pair, PairInHand
  <2> QED BY <2>1, <2>2, NoRepSaid
<1>6. CASE UNCHANGED scanVars
  BY <1>6 DEF scanVars, SaidInv, Said, FirstPair, Served, SourceOf, TargetOf,
     Place, SrcItem, DstItem, MvTarget, HasRep, SpellingsShare, Pair, W
<1> QED BY <1>1, <1>2, <1>3, <1>4, <1>5, <1>6 DEF ScanNext, Reading

\* Whatever is read, and whatever checkdir has cached for earlier pairs: a REP
\* has the source its pair names and the target that mv would choose, and of
\* several pairs with one source the first that finds it wins.  As for
\* ScanHandsOver, spellings must share their DIRINFO and names after -r be simple.
THEOREM ScanTargetsAsMv ==
    ScanSpec /\ NewNamesSimple => [](SpellingsShare => TargetsAsMv)
<1>1. ScanInit => SaidInv /\ PathFree
  BY DEF ScanInit, SaidInv, PathFree, Range
<1>2. ScanInv /\ SaidInv => (SpellingsShare => TargetsAsMv)
  <2> SUFFICES ASSUME ScanInv, SaidInv, SpellingsShare, NEW i \in DOMAIN reps
               PROVE  Said(reps[i]) /\ FirstPair(reps[i])
    BY DEF TargetsAsMv, Said, FirstPair, SrcItem, DstItem
  <2>1. reps[i] \in Range(reps)
    BY DEF Range
  <2> QED BY <2>1 DEF SaidInv
<1> QED BY <1>1, <1>2, SaidStep, PathFreeStep, PairKept, ScanKept, FitKept, PTL
        DEF ScanSpec

-----------------------------------------------------------------------------
(***************************************************************************)
(* Every pair is looked up, if the decoders reject none of its words and   *)
(* the command line has one pair.                                          *)
(***************************************************************************)
PairsReadable ==
    /\ call.reader = "argv" => Len(call.input) <= 2
    /\ call.reader \notin {"nul", "argv"} =>
         \A k \in 1..2 * (Len(call.input) \div 2) :
             call.input[k].kind \notin {"bad", "longbad"}

AllTried ==
    /\ pc \in {"from", "to"} \cup Working => 1..Pair \subseteq tried
    /\ pc \in {"args", "parse", "stage"} => 1..Pair - 1 \subseteq tried
    /\ pc \in {"stage"} \cup Working /\ call.reader = "argv" =>
         pos = Len(call.input)
    /\ EveryPairTried

\* No complete pair that can be read is passed over.
LEMMA TriedStep ==
    ScanInv /\ PairInHand /\ PairsReadable /\ AllTried /\ [ScanNext]_scanVars
        => PairsReadable' /\ AllTried'
<1> SUFFICES ASSUME ScanInv, PairInHand, PairsReadable, AllTried,
                    [ScanNext]_scanVars
             PROVE  PairsReadable' /\ AllTried'
  OBVIOUS
<1> DEFINE L == Len(call.input)
           H == L \div 2
<1>0. pos \in Nat /\ L \in Nat /\ pos <= L
  BY CallFacts DEF ScanInv, CoreInv, CoreTypes, ReadInv
<1>1. /\ pos \in Nat /\ L \in Nat /\ pos <= L /\ Pair \in Nat /\ H \in Nat
      /\ pos % 2 = 0 => 2 * Pair = pos
      /\ pos % 2 = 1 => 2 * Pair + 1 = pos
      /\ pos % 2 \in {0, 1} /\ 2 * H <= L
  <2>1. Pair = pos \div 2 /\ H = L \div 2
    BY DEF Pair
  <2> HIDE DEF L, H
  <2> QED BY <1>0, <2>1, Halves
<1>2. /\ pos' = pos + 2 => Pair' = Pair + 1
      /\ pos' = pos + 1 /\ pos % 2 = 0 => Pair' = Pair
      /\ pos' = pos + 1 /\ pos % 2 = 1 => Pair' = Pair + 1
      /\ pos' = pos => Pair' = Pair
  BY <1>1, Halves DEF Pair
<1>c. call' = call
  BY DecidingLeaves
     DEF ScanNext, Deciding, Stage, ReadEof, ReadTooLong, ReadFrom, ReadTo,
         OddArgs, NextArgs, ParseError, ParseOK, ParseXnn, callVars, scanVars
<1>d. PairsReadable' /\ L' = L
  BY <1>c DEF PairsReadable
<1>e. /\ pc' # "execute" => EveryPairTried'
      /\ 1..H \subseteq tried' => EveryPairTried'
  BY <1>c DEF EveryPairTried
<1>r. call.reader \notin {"nul", "argv"} =>
        \A k \in 1..2 * H : call.input[k].kind \notin {"bad", "longbad"}
  BY DEF PairsReadable
<1>v. call.reader = "argv" => L <= 2
  BY DEF PairsReadable
<1>w. More <=> pos < L
  BY DEF More
<1>a. AllTried' <=>
        /\ pc' \in {"from", "to"} \cup Working => 1..Pair' \subseteq tried'
        /\ pc' \in {"args", "parse", "stage"} => 1..Pair' - 1 \subseteq tried'
        /\ pc' \in {"stage"} \cup Working /\ call.reader = "argv" => pos' = L
        /\ EveryPairTried'
  BY <1>c, <1>d DEF AllTried
<1>b. /\ pc \in {"from", "to"} \cup Working => 1..Pair \subseteq tried
      /\ pc \in {"args", "parse", "stage"} => 1..Pair - 1 \subseteq tried
      /\ pc \in {"stage"} \cup Working /\ call.reader = "argv" => pos = L
      /\ EveryPairTried
  BY DEF AllTried
<1>p. /\ pc \in {"from", "args", "parse", "stage"} => pos % 2 = 0
      /\ pc = "to" => pos % 2 = 1
  BY DEF PairInHand
<1> HIDE DEF L, H
<1>3. CASE Reading
  <2>1. tried' = tried
    BY <1>3, ReadingSteps
  <2>2. CASE pc \in {"from", "to"} /\ AtEof /\ pc' = "execute"
    <3>1. call.reader # "argv"
      BY <2>2 DEF ScanInv, ReadInv, InHand
    <3>2. pos >= 2 * H
      <4>1. CASE ~More
        BY <1>1, <1>w, <4>1
      <4>2. CASE More
        <5>1. /\ call.reader \notin {"nul", "argv"}
              /\ call.input[pos + 1].kind \in {"bad", "longbad"}
          BY <2>2, <3>1, <4>2 DEF AtEof, Item1
        <5>2. pos + 1 \notin 1..2 * H
          BY <1>r, <5>1
        <5> QED BY <1>1, <5>2
      <4> QED BY <4>1, <4>2
    <3>3. Pair >= H
      BY <1>1, <3>2
    <3>4. 1..H \subseteq tried'
      BY <1>1, <1>b, <2>1, <2>2, <3>3
    <3> QED BY <1>a, <1>d, <1>e, <2>2, <3>4 DEF Working
  <2>3. CASE pc' \in {"error", "crash"}
    BY <1>a, <1>d, <1>e, <2>3 DEF Working
  <2>4. CASE pc = "from" /\ pc' = "to" /\ pos' = pos + 1
    BY <1>2, <1>p, <1>a, <1>b, <1>d, <1>e, <2>1, <2>4 DEF Working
  <2>5. CASE pc = "to" /\ pc' = "parse" /\ pos' = pos + 1
    BY <1>1, <1>2, <1>p, <1>a, <1>b, <1>d, <1>e, <2>1, <2>5 DEF Working
  <2>6. CASE pc = "args" /\ pc' = "parse" /\ pos' = pos + 2
             /\ call.reader = "argv" /\ pos < Len(call.input)
    <3>1. pos = 0
      BY <1>1, <1>p, <1>v, <2>6 DEF L
    <3>2. Pair' = 1
      BY <1>1, <1>2, <2>6, <3>1
    <3> QED BY <1>a, <1>d, <1>e, <2>1, <2>6, <3>2 DEF Working
  <2>7. CASE pc = "args" /\ pc' = "stage" /\ ~More /\ UNCHANGED readVars
    BY <1>1, <1>2, <1>w, <1>a, <1>b, <1>d, <1>e, <2>1, <2>7 DEF Working, readVars
  <2>8. CASE pc = "parse" /\ UNCHANGED readVars /\ pc' = "args"
    BY <1>2, <1>a, <1>b, <1>d, <1>e, <2>1, <2>8 DEF Working, readVars
  <2>9. CASE /\ pc = "parse" /\ UNCHANGED readVars /\ pc' = "stage"
             /\ call.reader # "argv"
    BY <1>2, <1>a, <1>b, <1>d, <1>e, <2>1, <2>9 DEF Working, readVars
  <2> QED BY <1>3, <2>2, <2>3, <2>4, <2>5, <2>6, <2>7, <2>8, <2>9, ReadingSteps,
             Zenon
<1>4. CASE Stage
  <2>1. /\ pc = "stage" /\ tried' = tried \cup {Pair} /\ pos' = pos
        /\ pc' \in {"quit", "source", "error", "walk", "from"}
    BY <1>4 DEF Stage, Return, readVars
  <2>2. 1..Pair \subseteq tried'
    BY <1>1, <1>b, <2>1
  <2>3. call.reader = "argv" => pos' = L
    BY <1>b, <2>1
  <2> QED BY <1>2, <1>a, <1>d, <1>e, <2>1, <2>2, <2>3 DEF Working
<1>5. CASE Deciding
  <2>1. /\ pc \in Working /\ pos' = pos /\ tried' = tried
        /\ pc' \in Working \cup {"quit", "error", "execute", "walk", "from"}
        /\ pc' = "execute" => call.reader = "argv"
    BY <1>5, DecidingLeaves DEF Return, Working
  <2>2. ASSUME pc' = "execute" PROVE 1..H \subseteq tried'
    <3>1. pos = L /\ 1..Pair \subseteq tried /\ pos % 2 = 0
      BY <1>b, <2>1, <2>2 DEF PairInHand
    <3>2. H <= Pair
      BY <1>1, <3>1
    <3> QED BY <1>1, <2>1, <3>1, <3>2
  <2> QED BY <1>2, <1>a, <1>b, <1>d, <1>e, <2>1, <2>2 DEF Working
<1>6. CASE UNCHANGED scanVars
  <2>1. UNCHANGED <<call, pos, pc, tried>>
    BY <1>6 DEF scanVars
  <2> QED BY <1>2, <1>a, <1>b, <1>d, <2>1 DEF EveryPairTried
<1> QED BY <1>3, <1>4, <1>5, <1>6 DEF ScanNext, Reading, Deciding

\* mmv_execute is not called before every complete pair has been looked up: for
\* every list of pairs that the decoders accept, of any length but for mmv_compile,
\* which is given one pair here.  The run argv_pairs and MCScan's OddCalls are
\* about the rest: mmv_compile looks up the last pair only, and a line that is
\* rejected ends the input.
THEOREM ScanEveryPairTried ==
    ScanSpec /\ PairsReadable => []EveryPairTried
<1>1. ScanInit => AllTried
  <2> SUFFICES ASSUME ScanInit PROVE AllTried
    OBVIOUS
  <2>1. Pair = 0
    BY DEF ScanInit, Pair
  <2> QED BY <2>1 DEF ScanInit, AllTried, EveryPairTried, Working
<1>2. AllTried => EveryPairTried
  BY DEF AllTried
<1> QED BY <1>1, <1>2, TriedStep, PairKept, ScanKept, PTL DEF ScanSpec
=============================================================================
