----------------------------- MODULE MmvPattern -----------------------------
(***************************************************************************)
(* From patterns to REPs: getpat, parse_src_pattern, parse_dst_pattern and *)
(* dostage_patterns with match and makerep.  What is done with one file    *)
(* and its new name is that of MmvScan, whose actions are used as they     *)
(* are; here a name is a sequence of chars, and a spelling one whose last  *)
(* is the slash.                                                           *)
(*                                                                         *)
(* A pattern is a sequence of tokens: a char, perhaps with an ESC in front *)
(* of it, a slash, a wildcard, or a back-reference.  "!" is none of them:  *)
(* it is counted like a wildcard, but matched like a char.  "~/" and the   *)
(* limits of a path's length are left to MmvScan.                          *)
(***************************************************************************)
EXTENDS MmvScan, SequencesExt

CONSTANTS
    Slash, Esc,     \* chars
    Rank,           \* the order of chars, for strcmp
    Upper, Lower,   \* what #u and #l do to a char
    Mark,           \* a word that getpat passes over: -> -^ => =^
    Delok           \* the word (*)

Char == DOMAIN Rank

Token == [t : {"char"}, c : Char, esc : BOOLEAN] \cup
         [t : {"slash", "star", "any", "semi", "error"}] \cup
         [t : {"class"}, in : SUBSET Char] \cup
         [t : {"ref"}, n : Nat, conv : {"=", "u", "l"}]

\* strcmp(s, t) < 0
Less(s, t) ==
    \E k \in 1..Len(t) : /\ \A j \in 1..k - 1 : j <= Len(s) /\ s[j] = t[j]
                         /\ k > Len(s) \/ Rank[s[k]] < Rank[t[k]]

\* A line of words, perhaps with a blank in front of them, and whether a line
\* feed ends it.  On the command line there are two words and no line.
Line == [words : Seq(Seq(Token) \cup {Mark, Delok}), blank : BOOLEAN,
         nl : BOOLEAN]

\* What follows the "from" pattern of a line and its marks.
Behind(l) ==
    LET k == CHOOSE i \in 2..Len(l.words) + 1 :
               /\ i > Len(l.words) \/ l.words[i] # Mark
               /\ \A j \in 2..i - 1 : l.words[j] = Mark
    IN  SubSeq(l.words, k, Len(l.words))

\* A line that begins with a blank has an empty first word; one without a
\* second word has no replacement.
Complete(l) == ~l.blank /\ l.words # << >> /\ Behind(l) # << >>

\* Only patterns have wildcards, and only replacements have back-references.
\* Under -r their texts have no slash.
PairOK(op, p, q) ==
    /\ p \in Seq(Token) /\ \A k \in DOMAIN p : p[k].t # "ref"
    /\ q \in Seq(Token) /\ \A k \in DOMAIN q : q[k].t \in {"char", "slash", "ref", "error"}
    /\ op = "DIRMOVE" =>
         /\ \A k \in DOMAIN p : p[k].t # "semi"
         /\ \A k \in DOMAIN q : q[k].t = "ref" /\ q[k].n = 0 =>
              \A j \in DOMAIN p : p[j].t # "slash"

\* An invocation has its lines, -h, and, for each directory, its names in the
\* order in which takedir leaves them.
PatCallOK(c) ==
    /\ c.reader = "pat" /\ c.input = << >>
    /\ c.lines \in Seq(Line) /\ c.matchall \in BOOLEAN /\ c.argv \in BOOLEAN
    /\ \A l \in Range(c.lines) :
         Complete(l) => PairOK(c.op, l.words[1], Head(Behind(l)))
    /\ c.argv => Len(c.lines) = 1 /\ Complete(c.lines[1])
    /\ c.fils \in [Inode -> Seq(Simple)]
    /\ \A i \in Inode :
         /\ Range(c.fils[i]) = c.world.files[i]
         /\ \A j, k \in DOMAIN c.fils[i] : j < k => Less(c.fils[i][j], c.fils[i][k])

ASSUME PatternAssumption ==
    /\ Rank \in [Char -> Nat] /\ IsInjective(Rank)
    /\ \A s \in Simple \cup Spelling : s \in Seq(Char)
    /\ << >> \notin Simple
    /\ Upper \in [Char -> Char] /\ Lower \in [Char -> Char]
    /\ {Mark, Delok} \cap Seq(Token) = {}
    /\ \A c \in Calls : PatCallOK(c)

VARIABLES
    patflags,   \* whether R_DELOK is in mmv->patflags
    delok,      \* the REPs that have R_DELOK
    stages,     \* pat->stage_vec
    stack       \* the calls of dostage_patterns that have not returned

patVars == <<patflags, delok, stages, stack>>
allVars == <<scanVars, patVars>>

PatInit == ScanInit /\ patflags = FALSE /\ delok = {} /\ stages = << >>
           /\ stack = << >>
-----------------------------------------------------------------------------
(***************************************************************************)
(* getpat.                                                                 *)
(***************************************************************************)
NextLine == call.lines[Pair + 1]
MoreLines == Pair < Len(call.lines)

Finish == pc' = IF paterr THEN "error" ELSE "execute"

\* One round of the loop.  patflags is cleared when getpat is called, not with
\* every line.  A last line without a line feed is read, and dropped.
GetLine ==
    LET extra == SubSeq(Behind(NextLine), 2, Len(Behind(NextLine)))
        ok    == Complete(NextLine) /\ extra # << >> /\ Head(extra) = Delok
        gotit == Complete(NextLine) /\ (ok => Len(extra) = 1) /\ (~ok => extra = << >>)
    IN
    /\ pc = "getpat" /\ MoreLines /\ ~call.argv
    /\ pos' = pos + 2
    /\ patflags' = (patflags \/ ok)
    /\ IF ~NextLine.nl THEN Finish
       ELSE pc' = IF gotit THEN "pattern" ELSE "getpat"
    /\ UNCHANGED <<callVars, from, to, paterr, dirVars, repVars, cand, delok,
                   stages, stack>>

\* The one pair of the command line.
GetArgs ==
    /\ pc = "getpat" /\ MoreLines /\ call.argv
    /\ pos' = pos + 2 /\ pc' = "pattern"
    /\ UNCHANGED <<callVars, from, to, paterr, dirVars, repVars, cand, patVars>>

GetEof ==
    /\ pc = "getpat" /\ ~MoreLines
    /\ Finish
    /\ UNCHANGED <<callVars, readVars, paterr, dirVars, repVars, cand, patVars>>

\* Back in matchpats_from_file, whose next step is a call of getpat.
GetAgain == pc' = "getpat" /\ patflags' = FALSE
-----------------------------------------------------------------------------
(***************************************************************************)
(* parse_src_pattern and parse_dst_pattern.                                *)
(***************************************************************************)
SrcOf(k) == call.lines[k].words[1]
DstOf(k) == Head(Behind(call.lines[k]))
Src == SrcOf(Pair)
Dst == DstOf(Pair)

Wild(x) == x.t \in {"star", "any", "class", "semi"}
NWilds(p, a, b) == Cardinality({k \in a..b : Wild(p[k])})

\* Where the components of a pattern begin, and where one of them ends.
Starts(p) == {1} \cup {k + 1 : k \in {j \in DOMAIN p : p[j].t = "slash"}}
EndOf(p, a) == CHOOSE e \in a..Len(p) + 1 :
                 /\ e \in DOMAIN p => p[e].t = "slash"
                 /\ \A k \in a..e - 1 : p[k].t # "slash"

\* A stage is a component with wildcards, or the last component.
StageStarts(p) ==
    {a \in Starts(p) : EndOf(p, a) > Len(p) \/ NWilds(p, a, EndOf(p, a) - 1) > 0}

IsSemi(p, a) == a \in DOMAIN p /\ p[a].t = "semi"

\* Its literal prefix, behind a ";", ends with the first ESC or wildcard.
LitEnd(p, a, r) == CHOOSE e \in a..r : /\ e < r => Wild(p[e]) \/ p[e].esc
                                       /\ \A k \in a..e - 1 : ~Wild(p[k]) /\ ~p[k].esc

\* The stage whose component begins at a: what is between the stage before and
\* this one, the literal prefix, the tokens for match, all the pattern from the
\* prefix on, and how many wildcards there are in front of it.
Stage1(p, a) ==
    LET r == EndOf(p, a)
        b == IF IsSemi(p, a) THEN a + 1 ELSE a
        e == LitEnd(p, b, r)
        before == {k \in StageStarts(p) : k < a}
        z == IF before = {} THEN 1 ELSE EndOf(p, Max(before))
    IN  [between |-> SubSeq(p, z, a - 1), semi |-> IsSemi(p, a),
         literal |-> [k \in 1..e - b |-> p[b + k - 1].c],
         glob |-> SubSeq(p, e, r - 1), rest |-> SubSeq(p, b, Len(p)),
         wilds |-> NWilds(p, 1, a - 1)]

\* pat->stage_vec. The first stage has number 0.
StageVec(p) ==
    [n \in 0..Cardinality(StageStarts(p)) - 1 |->
       Stage1(p, CHOOSE a \in StageStarts(p) :
                   Cardinality({b \in StageStarts(p) : b < a}) = n)]
LastStage(n) == n + 1 \notin DOMAIN stages

BadSrc(p) == \E k \in DOMAIN p : \/ p[k].t = "error"
                                 \/ p[k].t = "semi" /\ k \notin Starts(p)
BadDst(p, src) ==
    \E k \in DOMAIN p : \/ p[k].t = "error"
                        \/ p[k].t = "slash" /\ call.op = "DIRMOVE"
                        \/ p[k].t = "ref" /\ p[k].n > NWilds(src, 1, Len(src))
BadPair(k) == BadSrc(SrcOf(k)) \/ BadDst(DstOf(k), SrcOf(k))

PatternError ==
    /\ pc = "pattern" /\ BadPair(Pair)
    /\ paterr' = TRUE
    /\ GetAgain
    /\ UNCHANGED <<callVars, readVars, dirVars, repVars, cand, delok,
                   stages, stack>>
-----------------------------------------------------------------------------
(***************************************************************************)
(* The searches in a directory's sorted names.                             *)
(***************************************************************************)
Fils(s) == call.fils[W.at[s]]

\* Places count from 0, as in the code.
NoneLeftOff(a, b) == b <= a
NoneLeft(a, b) == b < a

\* The loop of fsearch: the place of s in f, or -1.
BinarySearch(s, f) ==
    LET search[r \in (0..Len(f)) \X (-1..Len(f) - 1)] ==
          LET a == r[1]
              b == r[2]
              k == (a + b) \div 2
          IN  IF NoneLeft(a, b) THEN -1
              ELSE IF s = f[k + 1] THEN k
              ELSE IF Less(s, f[k + 1]) THEN search[<<a, k - 1>>]
              ELSE search[<<k + 1, b>>]
    IN  search[<<0, Len(f) - 1>>]

\* The part of a name that strncmp looks at.
Cut(s, n) == SubSeq(s, 1, IF n < Len(s) THEN n ELSE Len(s))

\* The first place of a name that begins with s, or behind the last place.
ffirst(s, f) ==
    LET search[r \in {q \in (0..Len(f) - 1) \X (0..Len(f) - 1) : q[1] <= q[2]}] ==
          LET a == r[1]
              b == r[2]
              k == (a + b) \div 2
              t == Cut(f[k + 1], Len(s))
          IN  IF a = b THEN IF s = t THEN k ELSE Len(f)
              ELSE IF Less(t, s) THEN search[<<k + 1, b>>]
              ELSE search[<<a, k>>]
    IN  IF f = << >> \/ s = << >> THEN 0 ELSE search[<<0, Len(f) - 1>>]
-----------------------------------------------------------------------------
(***************************************************************************)
(* Matching one component of a pattern with one name.                      *)
(***************************************************************************)
Char1(c) == [t |-> "char", c |-> c, esc |-> FALSE]

\* x stands for the char c, and catches it if it is a wildcard.
Fits(x, c) == \/ x.t = "any"
              \/ x.t = "class" /\ c \in x.in
              \/ x.t = "char" /\ x.c = c
Caught(x, c) == IF x.t = "char" THEN << >> ELSE <<<<c>>>>

\* A star takes as little as it can.
StarEndLong(ends) == Max(ends)
StarEnd(ends) == Min(ends)

\* match: the texts of the wildcards, as the only member of a set that is empty
\* if there is no match.
match(p, s) ==
    LET m[at \in (1..Len(p) + 1) \X (1..Len(s) + 1)] ==
          LET i == at[1]
              j == at[2]
              ends == {k \in j..Len(s) + 1 : m[<<i + 1, k>>] # {}}
          IN  IF i > Len(p) THEN {<< >> : k \in {Len(s)} \cap {j - 1}}
              ELSE IF p[i].t = "star" THEN
                {<<SubSeq(s, j, StarEnd(ends) - 1)>> \o t :
                   t \in IF ends = {} THEN {} ELSE m[<<i + 1, StarEnd(ends)>>]}
              ELSE IF j > Len(s) \/ ~Fits(p[i], s[j]) THEN {}
              ELSE {Caught(p[i], s[j]) \o t : t \in m[<<i + 1, j + 1>>]}
    IN  m[<<1, 1>>]

\* trymatch, and match behind the prefix: "." and ".." only if nothing else is
\* left of the pattern, and names with a dot only if it has one, or with -h.
Matched(f, s) ==
    LET g    == stages[f.stage]
        rest == g.rest
    IN  IF HasRep(<<handle[f.path], s>>) THEN {}
        ELSE IF s \in Dots
          THEN {<< >> : x \in {rest} \cap {[k \in DOMAIN s |-> Char1(s[k])]}}
        ELSE IF s[1] = "." /\ ~call.matchall
                /\ (rest = << >> \/ Head(rest) # Char1(".")) THEN {}
        ELSE match(g.glob, SubSeq(s, Len(g.literal) + 1, Len(s)))
-----------------------------------------------------------------------------
(***************************************************************************)
(* makerep.                                                                *)
(***************************************************************************)
\* What a pattern's part is as text; a wildcard is its own mark.
Raw(x) == CASE x.t = "char"  -> IF x.esc THEN <<Esc, x.c>> ELSE <<x.c>>
            [] x.t = "slash" -> <<Slash>>
            [] OTHER         -> <<x.t>>
RawText(p) == FlattenSeq([k \in DOMAIN p |-> Raw(p[k])])

\* What a back-reference puts there: #0 is mmv->from, which holds the pattern.
Reference(x, texts) ==
    LET t == IF x.n = 0 THEN RawText(Src) ELSE texts[x.n] IN
    [k \in DOMAIN t |-> CASE x.conv = "u" -> Upper[t[k]]
                          [] x.conv = "l" -> Lower[t[k]] [] OTHER -> t[k]]

\* The slash number k of the pattern would follow an empty component, s being
\* what stands in front of it.
EmptyBefore(s, k) ==
    IF s = << >> THEN k # 1 ELSE Last(s) = Slash /\ Dst[k - 1].t # "slash"

\* The directory and the simple name of a path, as getpath finds them.
SplitPath(s) ==
    LET k == Max({0} \cup {j \in DOMAIN s : s[j] = Slash}) IN
    [kind |-> "path", dir |-> SubSeq(s, 1, k),
     name |-> IF k = Len(s) THEN Empty ELSE SubSeq(s, k + 1, Len(s))]

makerep(texts) ==
    LET made[k \in 0..Len(Dst)] ==
          IF k = 0 THEN [s |-> << >>, bad |-> FALSE]
          ELSE LET m == made[k - 1] IN
               CASE Dst[k].t = "ref" -> [m EXCEPT !.s = @ \o Reference(Dst[k], texts)]
                 [] Dst[k].t = "char" -> [m EXCEPT !.s = Append(@, Dst[k].c)]
                 [] OTHER -> [s |-> Append(m.s, Slash),
                              bad |-> m.bad \/ EmptyBefore(m.s, k)]
        r == made[Len(Dst)]
    IN  IF r.bad \/ r.s = << >> THEN [NoWord EXCEPT !.kind = "repbad"]
        ELSE SplitPath(r.s)
-----------------------------------------------------------------------------
(***************************************************************************)
(* dostage_patterns.  A call has its arguments (pathbuf up to pathend, the *)
(* stage, whether a ";" is being expanded, the texts caught in earlier     *)
(* stages and by the ";") and its variables: which of its two loops it is  *)
(* in, the place in the directory, and ret.                                *)
(***************************************************************************)
Top == Last(stack)
SetTop(f) == stack' = Append(Front(stack), f)

\* A call with anylev = 0: what the pattern has in front of the stage is copied
\* to pathbuf.
Call(path, vec, n, texts) ==
    [path |-> path \o RawText(vec[n].between), stage |-> n,
     any |-> FALSE, base |-> texts, semi |-> << >>,
     phase |-> "files", at |-> 0, ret |-> 1]

\* The recursion of a ";" into directory s.
CallBelow(f, s) ==
    [f EXCEPT !.path = @ \o s \o <<Slash>>, !.semi = @ \o s \o <<Slash>>,
              !.phase = "files", !.at = 0, !.ret = 1]

\* ret &= r
AndLast(ret, r) == r % 2
And(ret, r) == ret * (r % 2)

\* Return r to the caller, which takes the bitwise and with its own ret; or to
\* matchpat, which says "no match" for anything but 0.
Leave(r, err) ==
    IF Len(stack) > 1
      THEN /\ stack' = [Front(stack) EXCEPT
                          ![Len(stack) - 1].ret = And(@, r)]
           /\ paterr' = (paterr \/ err) /\ pc' = "walk"
           /\ UNCHANGED <<patflags, unmatched>>
      ELSE /\ stack' = << >>
           /\ paterr' = (paterr \/ err \/ r # 0)
           /\ unmatched' = IF r # 0 THEN unmatched \cup {Pair} ELSE unmatched
           /\ GetAgain

ParsePattern ==
    /\ pc = "pattern" /\ ~BadPair(Pair)
    /\ stages' = StageVec(Src)
    /\ stack' = <<Call(<< >>, stages', 0, << >>)>>
    /\ pc' = "enter"
    /\ UNCHANGED <<callVars, readVars, paterr, dirVars, repVars, cand, patflags,
                   delok>>

\* checkdir fails.  What it returns is the number of the stage.
EnterNowhere ==
    LET d == Found(Top.path) IN
    /\ pc = "enter" /\ d < 0
    /\ checkdir(Top.path)
    /\ Leave(Top.stage, Top.stage = 0 \/ d = H_NOREADDIR)
    /\ UNCHANGED <<call, tried, readVars, repVars, cand, delok, stages>>

\* A directory that cannot be written is none whose files can be moved; a ";"
\* is expanded through it all the same.
Enter ==
    LET f     == [Top EXCEPT !.any = @ \/ stages[Top.stage].semi]
        refuse == call.op \in MoveOps /\ ~dwritable(f.path)
    IN
    /\ pc = "enter" /\ Found(Top.path) > 0
    /\ checkdir(f.path)
    /\ SetTop([f EXCEPT !.phase = IF refuse THEN "dirs" ELSE "files",
                 !.at = IF refuse THEN 0
                        ELSE ffirst(stages[f.stage].literal, Fils(f.path))])
    /\ paterr' = (paterr \/ refuse)
    /\ pc' = "walk"
    /\ UNCHANGED <<callVars, readVars, repVars, cand, patflags, delok,
                   stages>>

Names == Fils(Top.path)
File1 == Names[Top.at + 1]
Next1Same == Top
\* The next name.
Next1 == [Top EXCEPT !.at = @ + 1]

InFiles == /\ pc = "walk" /\ Top.phase = "files" /\ Top.at < Len(Names)
           /\ IsPrefix(stages[Top.stage].literal, File1)
InDirs  == /\ pc = "walk" /\ Top.phase = "dirs" /\ Top.any
           /\ Top.at < Len(Names)

\* keepmatch: files only in the last stage, directories there only under -r.
Kept == IF IsDir(Top.path, File1)
          THEN ~LastStage(Top.stage) \/ call.op = "DIRMOVE"
          ELSE LastStage(Top.stage)
TextsAlways(t) == Top.base \o <<Top.semi>> \o t
\* What the wildcards up to this stage have caught; ";" comes first in its stage.
Texts(t) == Top.base \o (IF stages[Top.stage].semi THEN <<Top.semi>> ELSE << >>) \o t

Hidden(s) == s[1] = "."

\* getstat of a dangling symbolic link, which keepmatch calls for every file
\* that matches, and for every file at all when a ";" is expanded.
StatFails ==
    /\ (InFiles /\ Matched(Top, File1) # {}) \/ (InDirs /\ ~Hidden(File1))
    /\ Dangles(Top.path, File1)
    /\ pc' = "quit"
    /\ UNCHANGED <<callVars, readVars, paterr, dirVars, repVars, cand, patVars>>

PassFile ==
    /\ InFiles
    /\ Matched(Top, File1) = {} \/ ~(Dangles(Top.path, File1) \/ Kept)
    /\ SetTop(Next1)
    /\ UNCHANGED <<callVars, pc, readVars, paterr, dirVars, repVars, cand,
                   patflags, delok,
                   stages>>

\* A directory that matches a stage which is not the last.
NextStage ==
    /\ InFiles /\ ~Dangles(Top.path, File1) /\ Kept /\ ~LastStage(Top.stage)
    /\ \E t \in Matched(Top, File1) :
         stack' = Front(stack) \o
                  <<Next1, Call(Top.path \o File1, stages, Top.stage + 1, Texts(t))>>
    /\ pc' = "enter"
    /\ UNCHANGED <<callVars, readVars, paterr, dirVars, repVars, cand, patflags,
                   delok, stages>>

\* A file that matches the whole pattern goes to badrep.
TakeFile ==
    /\ InFiles /\ ~Dangles(Top.path, File1) /\ Kept /\ LastStage(Top.stage)
    /\ from' = [kind |-> "path", dir |-> Top.path, name |-> File1]
    /\ \E t \in Matched(Top, File1) : to' = makerep(Texts(t))
    /\ SetTop([Next1 EXCEPT !.ret = 0])
    /\ pc' = "source"
    /\ UNCHANGED <<callVars, pos, paterr, dirVars, repVars, cand, patflags, delok,
                   stages>>

FilesDone ==
    /\ pc = "walk" /\ Top.phase = "files" /\ ~InFiles
    /\ IF Top.any
         THEN SetTop([Top EXCEPT !.phase = "dirs", !.at = 0])
              /\ UNCHANGED <<pc, paterr, unmatched, patflags>>
         ELSE Leave(Top.ret, FALSE)
    /\ UNCHANGED <<call, tried, readVars, dirVars, repVars, cand, delok, stages>>

PassDir ==
    /\ InDirs
    /\ Hidden(File1) \/ ~(Dangles(Top.path, File1) \/ IsDir(Top.path, File1))
    /\ SetTop(Next1)
    /\ UNCHANGED <<callVars, pc, readVars, paterr, dirVars, repVars, cand,
                   patflags, delok,
                   stages>>

GoBelow ==
    /\ InDirs /\ ~Hidden(File1) /\ IsDir(Top.path, File1)
    /\ stack' = Front(stack) \o <<Next1, CallBelow(Top, File1)>>
    /\ pc' = "enter"
    /\ UNCHANGED <<callVars, readVars, paterr, dirVars, repVars, cand, patflags,
                   delok, stages>>

DirsDone ==
    /\ pc = "walk" /\ Top.phase = "dirs" /\ ~InDirs
    /\ Leave(Top.ret, FALSE)
    /\ UNCHANGED <<call, tried, readVars, dirVars, repVars, cand, delok, stages>>

\* The rest is what dostage_fnames does, too.
Verdict ==
    \/ SourceBad \/ SourceGood \/ CheckToDirmove \/ CheckTo \/ CheckInside
    \/ TargetBad

PatKeepRep ==
    /\ KeepRep
    /\ delok' = IF patflags THEN delok \cup {Len(reps')} ELSE delok
    /\ UNCHANGED <<patflags, stages, stack>>

PatNext ==
    \/ GetLine \/ GetArgs \/ GetEof \/ PatternError \/ ParsePattern
    \/ EnterNowhere \/ Enter \/ StatFails
    \/ PassFile \/ NextStage \/ TakeFile \/ FilesDone
    \/ PassDir \/ GoBelow \/ DirsDone
    \/ Verdict /\ UNCHANGED patVars
    \/ PatKeepRep

PatSpec == PatInit /\ [][PatNext]_allVars /\ WF_allVars(PatNext)
-----------------------------------------------------------------------------
(***************************************************************************)
(* Properties.                                                             *)
(***************************************************************************)

\* The types of the variables of pattern matching; every wildcard in front of a
\* stage has its text, and every open call but the newest its directory.
PatTypeOK ==
    /\ pc \in ScanPhases /\ patflags \in BOOLEAN /\ delok \subseteq DOMAIN reps
    /\ pc \in {"enter", "walk"} => stack # << >>
    /\ \A i \in DOMAIN stack : LET f == stack[i] IN
         /\ f.path \in Spelling /\ f.stage \in DOMAIN stages
         /\ f.ret \in {0, 1} /\ f.phase \in {"files", "dirs"}
         /\ Len(f.base) = stages[f.stage].wilds
         /\ i < Len(stack) \/ pc # "enter" =>
              handle[f.path] > 0 /\ f.at \in 0..Cardinality(W.files[W.at[f.path]])

\* fsearch finds a name exactly if the directory has it, as MmvScan takes for
\* granted, and ffirst finds the first name that begins with a prefix, be it
\* empty: in every directory, an empty one, too, whatever order of names strcmp
\* gives it.
SearchesRight ==
    pc = "getpat" => \A i \in Inode, s \in Simple \cup {<< >>} :
        LET f == call.fils[i]
            k == BinarySearch(s, f)
            begun == {j \in DOMAIN f : IsPrefix(s, f[j])}
        IN  /\ IF s \in Range(f) THEN k + 1 \in DOMAIN f /\ f[k + 1] = s ELSE k = -1
            /\ IF begun # {} THEN ffirst(s, f) + 1 = Min(begun)
               ELSE ffirst(s, f) = Len(f)

\* What a token may stand for in a path.
StandsFor(x, s) ==
    CASE x.t = "char"  -> s = <<x.c>>
      [] x.t = "slash" -> s = <<Slash>>
      [] x.t = "any"   -> Len(s) = 1 /\ s # <<Slash>>
      [] x.t = "class" -> Len(s) = 1 /\ s[1] \in x.in
      [] x.t = "star"  -> Slash \notin Range(s)
      [] x.t = "semi"  -> s # << >> =>
                            /\ Last(s) = Slash /\ ~Hidden(s)
                            /\ \A k \in 1..Len(s) - 1 : s[k] = Slash =>
                                 s[k + 1] \notin {Slash, "."}

\* A reading of a path says where the text of each token ends.  w is how long
\* the texts of the wildcards are.
Ends(p, w) ==
    LET e[k \in 0..Len(p)] ==
          IF k = 0 THEN 0 ELSE e[k - 1] + IF k \in DOMAIN w THEN w[k] ELSE 1
    IN  e
Piece(e, path, k) == SubSeq(path, e[k - 1] + 1, e[k])

\* The name in a path that begins at a.
NameAt(path, a) ==
    SubSeq(path, a, Min({k \in a..Len(path) + 1 :
                           k = Len(path) + 1 \/ path[k] = Slash}) - 1)

\* The directories of a path in which names are looked up, by their length:
\* those of the stages, and all that the text of a ";" leads through.
Within(p, e, i) == \E k \in DOMAIN p : p[k].t = "semi" /\ i \in e[k - 1]..e[k] - 1
Sought(p, e, path) ==
    {e[a - 1] : a \in StageStarts(p)} \cup
    {i \in DOMAIN path : path[i] = Slash /\ Within(p, e, i - 1)}

\* Names with a dot in front need one in the pattern, or -h; "." and ".." are
\* only for patterns that end so.
DotsAsked(p, e, path) ==
    \A a \in {i + 1 : i \in Sought(p, e, path)} :
        a \in DOMAIN path /\ path[a] = "." =>
        LET k == CHOOSE j \in DOMAIN p : e[j - 1] < a /\ e[j] >= a
        IN  \/ p[k] = Char1(".") /\
                 (NameAt(path, a) \in Dots => \A j \in k..Len(p) : p[j] = Char1("."))
            \/ call.matchall /\ NameAt(path, a) \notin Dots

\* These can be read, and written by a move unless a ";" goes on below; what a
\* stage finds is a directory if something follows.
Exists(d) == d \in Spelling /\ W.at[d] # NoDir
DirsAllow(p, e, path) ==
    /\ \A i \in Sought(p, e, path) : i < Len(path) =>
         LET d == SubSeq(path, 1, i) IN
         /\ Exists(d) /\ W.at[d] \notin W.unreadable
         /\ call.op \in MoveOps /\ ~Within(p, e, i) => dwritable(d)
    /\ \A a \in StageStarts(p) :
         EndOf(p, a) \in DOMAIN p => Exists(SubSeq(path, 1, e[EndOf(p, a)]))

Readings(p, path) ==
    {e \in {Ends(p, w) : w \in [{k \in DOMAIN p : Wild(p[k])} -> 0..Len(path)]} :
        /\ e[Len(p)] = Len(path)
        /\ \A k \in DOMAIN p : StandsFor(p[k], Piece(e, path, k))
        /\ DotsAsked(p, e, path) /\ DirsAllow(p, e, path)}

\* Stars take as little as they can, the ones in front first.
Shortest(R) ==
    CHOOSE e \in R : \A d \in R :
        e = d \/ \E k \in DOMAIN e : /\ e[k] < d[k]
                                     /\ \A j \in DOMAIN e : j < k => e[j] = d[j]

\* The pairs that reach matchpat, and of these the ones it can parse.
Given(k) ==
    \/ call.argv
    \/ /\ \A j \in 1..k : call.lines[j].nl
       /\ Complete(call.lines[k])
       /\ Tail(Behind(call.lines[k])) \in {<< >>, <<Delok>>}
Parsed == {k \in DOMAIN call.lines : Given(k) /\ ~BadPair(k)}

\* The files pattern k matches, each by the path under which it is found.
Matches1(k) ==
    {f \in UNION {{s} \X W.files[W.at[s]] : s \in {d \in Spelling : W.at[d] # NoDir}} :
        /\ IsDir(f[1], f[2]) => call.op = "DIRMOVE"
        /\ Readings(SrcOf(k), f[1] \o f[2]) # {}}
PlacesOf(k) == {<<W.at[f[1]], f[2]>> : f \in Matches1(k)}

\* The new name the second pattern makes of a path the first one matches; #0 is
\* "the whole of 'from' filename".
NewName(k, path) ==
    LET p == SrcOf(k)
        q == DstOf(k)
        e == Shortest(Readings(p, path))
        place(n) == CHOOSE j \in DOMAIN p : Wild(p[j]) /\ NWilds(p, 1, j) = n
        text(x) == IF x.n = 0 THEN path ELSE Piece(e, path, place(x.n))
    IN  FlattenSeq([i \in DOMAIN q |->
          IF q[i].t # "ref" THEN (IF q[i].t = "char" THEN <<q[i].c>> ELSE <<Slash>>)
          ELSE [c \in DOMAIN text(q[i]) |->
                  CASE q[i].conv = "u" -> Upper[text(q[i])[c]]
                    [] q[i].conv = "l" -> Lower[text(q[i])[c]]
                    [] OTHER -> text(q[i])[c]]])

\* When everything has been read, exactly the files that a pattern matches have
\* a REP or have been refused; each REP is the first matching line's, goes where
\* mv would put the new name that line makes, and is approved exactly if its own
\* line says so.
ReplacementsAsPatterns ==
    pc \in {"execute", "error"} =>
        LET placesOf == [k \in Parsed |-> PlacesOf(k)]
            taken    == {Place(f) : f \in mistakes}
        IN
        /\ {SourceOf(r) : r \in Range(reps)} \cup taken = UNION Range(placesOf)
        /\ \A i \in DOMAIN reps :
             LET r == reps[i]
                 k == Min({j \in Parsed : SourceOf(r) \in placesOf[j]})
                 n == r.ffrom[2]
             IN  /\ SourceOf(r) \notin taken /\ r.pair = k
                 /\ TargetOf(r) = MvTarget([dir |-> r.hfrom, name |-> n],
                                           SplitPath(NewName(k, r.hfrom \o n)))
                 /\ i \in delok <=> Delok \in Range(call.lines[k].words)

\* The directories that stage n of pattern p is called for: those that what is
\* in front of it leads to, there or not, and below them, with a ";" of its own,
\* those that are there.
Asked(p, n) ==
    LET a == CHOOSE b \in StageStarts(p) :
               Cardinality({c \in StageStarts(p) : c < b}) = n
        readAs(d, k) == Readings(SubSeq(p, 1, k), d) # {}
    IN  {d \in Spelling :
           \/ readAs(d, a - 1)
           \/ IsSemi(p, a) /\ Exists(d) /\ readAs(d, a)}

\* The stages whose calls return an even number when checkdir fails.
EvenStages(p) == {n \in 0..Cardinality(StageStarts(p)) - 1 : n % 2 = 0}

\* "No match" is said exactly of the lines that find no file which no line
\* before them has found, unless one of these stages is called for a directory
\* that is not there or cannot be read.  Nothing is executed unless every line
\* has its files, with one exception: the directory that is not there is asked
\* for by the third stage, or the fifth, and so on.
NoMatchTold ==
    pc \in {"execute", "error"} =>
        LET placesOf == [k \in Parsed |-> PlacesOf(k)]
            new(k) == placesOf[k] \ UNION {placesOf[j] : j \in {i \in Parsed : i < k}}
            missing(k, n) == \E d \in Asked(SrcOf(k), n) : W.at[d] = NoDir
            closed(k, n)  == \E d \in Asked(SrcOf(k), n) : W.at[d] \in W.unreadable
            even(k) == EvenStages(SrcOf(k))
        IN  /\ unmatched = {k \in Parsed : /\ new(k) = {}
                               /\ \A n \in even(k) : ~missing(k, n) /\ ~closed(k, n)}
            /\ pc = "execute" => \A k \in DOMAIN call.lines : Given(k) =>
                 /\ k \in Parsed
                 /\ new(k) # {} \/ \E n \in even(k) \ {0} : missing(k, n)

\* Pattern matching comes to an end, with a ";", too.
PatEnds == <>(pc \in {"execute", "error", "quit"})
=============================================================================
