# libmmv: a verification project

TLA+ models of **libmmv**, the library behind `mmv` ("move many": rename, copy,
append or link many files by a pattern, or by a list of pairs, as if everything
happened at once). The models are translated from the C source under `src/`;
TLC checks them on small instances, TLAPS proves theorems about them for every
number of names and every invocation.

The promise of the program is strong: a set of renames such as
`{a -> b, b -> c, c -> a}` has to come out as one parallel assignment although the
file system only offers one rename at a time, any of which may fail; nothing may
be overwritten without having been approved; and if something goes wrong in the
middle, the user must learn precisely what was left undone. All of that is in
`mmv-pairs.c`, and that is what the core of this project models.

## Inventory

| Part | Source | State | Operations | Correct when |
|---|---|---|---|---|
| Replacement store | `inc/mmv-impl-rep.h`, `inc/mmv-impl.h`, `inc/mmv-state.h` | `REP` (`r_hfrom/r_ffrom`, `r_hto/r_nto`, `r_fdel`, `r_first`, `r_thendo`, `r_next`, `r_flags`), `FILEINFO.fi_rep`, `nreps`, `badreps`, policies | built by the stages, edited by planning | one REP per source; links form chains, never loops |
| Stages (`dostage_fnames`, `dostage_patterns`, `trymatch`, `keepmatch`, `checkto`, `badrep`) | `libmmv/mmv-dostage-*.c` | a REP list, `badreps`, `paterr` | match a source, compute a target, refuse or keep | every match becomes one REP or one counted refusal |
| Directory cache (`hsearch`, `dsearch`, `checkdir`, `takedir`, `fsearch`) | `libmmv/mmv-dostage-common.c` | `HANDLE`, `DIRINFO`, `FILEINFO` snapshot | look up a path, read a directory once, binary search | two spellings of a directory share a `DIRINFO` |
| Planning (`check_collisions`, `findorder`, `nochains`, `scandeletes`, `baddel`, `skipdel`, `goonordie`) | `libmmv/mmv-pairs.c` | cursors over `hrep` and its chains | refuse collisions, order into chains and cycles, refuse or ask about deletions | the chains are a safe order of exactly the live REPs |
| Execution (`doreps`, `movealias`, `appendalias`, `do_move_pair`, `copymove`, `mmv_copy`, `snap`, `show_done_all`) | `libmmv/mmv-pairs.c`, `mmv-copy.c`, `mmv-unlink.c` | the directories, `noex`, `failed`, `gotsig`, alias, cursors | unlink, rename, link, copy, append, alias, report | parallel semantics, nothing lost, a true report |
| Signals | `libmmv/mmv-util.c`, `mmv-sys.c` | the installed handler, `gotsig` | `breakout`, `breakrep`, `breakstat` | a break never corrupts the work |
| Pattern matching | `mmv-patgen.c`, `mmv-dostage-patterns.c`, `mmv-getpat.c` | the stages of a pattern, back-references, `patflags`, the recursion of `dostage_patterns` | read a line, parse two patterns, walk the directories, match a name, build a target | the REPs are the files the pattern describes, and their targets what the wildcards say |
| Pair API and readers | `mmv-pairs.c` (`mmv_add_1_fname_pair`, `mmv_compile`), `mmv-read-{nul,qp,vis,xnn}.c` | the current pair, `paterr` | read, decode and add one pair | every pair becomes a REP or an error |
| Decoders | `libcscript/qp-decode-str.c`, `xnn-decode-str.c`, called by `mmv-read-{qp,xnn}.c` | a line, decoded in the buffer it is read into | read a line, decode it | a line is accepted exactly if it writes a string, and the name is that string up to its first NUL |
| Options | `mmv-setopt.c`, `mmv-init.c`, `mmv-main.c` | policies in `mmv_t` | set, default | only meaningful combinations |
| Allocator | `mmv-alloc.c` | two slicers, the list of free chunks; the tables of the directory cache | `challoc`, `chgive`, growing a table | blocks do not overlap each other, a table or free memory |
| Terminal questions | `libcscript/ask-*.c` | `/dev/tty` stream | ask for yes, no, a string | end of input means quit |
| Debug, explanations, utilities | `mmv-debug.c`, `mmv-explain.c`, `libcscript/*` | none | formatting | - |
| Programs | `cmd/*` | none | call the library | - |

**Interaction.** The program fills an `mmv_t` through the option and pair (or
pattern) functions. The stages consult the directory cache, which reads each
directory once, and append REPs to `hrep`. `mmv_execute` then plans on the REPs
and on the *snapshot* in the cache, and finally runs `doreps`, which changes the
real directories but not the snapshot. `badrep` (in the stages), `mark_collision`,
`printchain` and `baddel` share the counters `nreps` and `badreps` with
`goonordie`, which decides whether to go on. A refusal is visible to other REPs
through `fi_rep`, which points to the sentinel `mistake` from then on. SIGINT is
the only concurrency inside the process: `breakout` ends the program while it is
planning; `doreps` installs `breakrep`, which only sets a flag that is read
between two REPs; `snap` installs `breakstat`, so a second SIGINT ends the program.

**What is hard.** The edits of a linked list while it is walked; cycles, and
chains that grow at their ends; refusals that change what other REPs replace;
five places that decrement one counter; a plan made on a snapshot that execution
makes stale; failures and breaks between any two system calls; and the report of
what was left undone. `PROJECT.json` lists each of these with its line and the
properties aimed at it.

## Modules

* **`MmvRep`** - the replacement store. The job (a record: operation, policies,
  pairs, snapshot) and the mutable fields of the REPs. A REP is named by its source
  file, since `trymatch` gives a file at most one; a name stands for a directory
  *and* a simple name. `JobOK` says what the stages have already refused. `Chain(h)`
  is what the walk along `r_thendo` from `h` meets: the smallest set that holds `h` and,
  with a REP, the one behind it.
* **`MmvPlan`** - `mmv_execute` up to the call of `doreps`. `pc` is the function
  (and loop) the program is in: one action per loop iteration, so every state
  between two pointer assignments that the code can be broken at is a state.
  `list` is `hrep.r_next` as a sequence, `i` the cursor `p` in it; unlinking `p`
  while keeping `q` is removing element `i` without moving `i`. `walk` and `head`
  are `findorder`'s `pred`/`t` and `first`, `stack` the activations of the
  recursive `printchain`, `again` the inner loop of `scandeletes`. `qsort` is any
  order that keeps equal targets together and in input order (that is `rdcmp`).
  Answers to questions are a free choice of yes, no and quit.
* **`MmvDoreps`** - `doreps` and everything below it. `fs` maps a name to a sequence
  of pieces (a file starts with one piece, its own, so that appends and partial
  copies can be told apart). One action per system call that changes a directory;
  every one may fail at any time. A copy is an open (which may truncate) and a
  transfer; a cross-device move is a copy and an unlink. `Sigint` may come at any
  point. `lines` and `shown` are what the program says about each REP.
* **`MmvExecute`** - both halves on one state, and the properties of the whole:
  `Planning`, `Interrupt`, `Doing` and `Signal` are the four kinds of step.
* **`MmvBulk`** - the abstract specification of `mmv_execute`, as an observer of the
  directories sees it, without REPs, chains or phases: pairs are refused while every
  file is in its place, then the files go to their new names one by one, each into a
  place that is vacant; only what the plan replaces is deleted, and only a file of a
  cycle may be set aside under a temporary name. `MmvExecute` implements it:
  `Bulk` instantiates it with `Whereabouts(f)`, where the content of file `f` is
  found, and `BulkMove` is `Bulk!Spec`.
* **`MmvScan`** - from pairs to REPs: the readers and `mmv_add_fname_pairs`, parsing,
  `dostage_fnames` and all it calls. One action per early return or call that
  changes state; `call` holds the operation, the reader, the input and the
  directories. A path is a *spelling* of its directory and a simple name; `Below`
  says how a directory inside another is spelled. `handle` is the array of HANDLEs,
  `dirs` that of DIRINFOs, and a FILEINFO is the number of a DIRINFO and a name, so a
  directory that is read twice has two FILEINFOs per file, as in the code. An item
  of the input is a path or one of the ways in which it can be unusable. `Rep`
  instantiates `MmvRep` with what the scan has built: `HandsOver` says that this is
  a state the planner starts from (`JobOK`, `RepStart`).
* **`MmvPattern`** - from patterns to REPs, an extension of `MmvScan`: what happens to
  one file and its new name (`badrep`, `checkto`, the new REP) *is* `MmvScan`'s, whose
  actions it uses (`Verdict`, `PatKeepRep`). A name is a sequence of chars, a pattern
  one of tokens. `GetLine` is a round of `getpat`; `StageVec` is what
  `parse_src_pattern` leaves; `match`, `makerep`, `BinarySearch` (`fsearch`) and
  `ffirst` are recursive functions, each following its loop. `dostage_patterns` is
  recursive: `stack` holds its activations, each with its arguments, the loop it is
  in, its place in the directory and `ret`, and every action is one turn of one loop,
  one call or one return.
* **`MmvDecode`** - `get_filename_qp` and `get_filename_xnn` with the decoders they call:
  one action per char read and per turn of the decoder's loop, in one buffer that
  still holds what an earlier line has left there. `len` is the decoder's own length,
  of which the readers look at the sign only; `rlen` is the length they return, the
  `strlen` of the buffer.
* **`MmvAlloc`** - `challoc` with its two slicers, `chgive`, and the tables (handles,
  DIRINFOs, the FILEINFOs of a directory, `rd`) whose old memory it recycles. Addresses
  are a chunk and an offset; `Header` is the size of a pointer. `sl_len` is a `size_t`:
  `Less` wraps around at `Wrap`.
* **`MmvLists`** - lemmas about sequences (removing an element, adding one in front).
* **`MmvPlanProofs`** (types, collisions, `r_fdel`, then chains, cycles, counters,
  deletions: everything planning hands over), **`MmvExecuteProofs`** (`doreps`
  and the refinement; it extends `MmvPlanProofs`), **`MmvBulkProofs`**,
  **`MmvScanProofs`**, **`MmvPatternProofs`** (which extends it), **`MmvDecodeProofs`**,
  **`MmvAllocProofs`** - theorems.
* **`MCPlan`**, **`MCExecute`**, **`MCScan`**, **`MCPattern`**, **`MCDecode`**, **`MCAlloc`** -
  instances for TLC.

`MmvPattern` extends `MmvScan`, which instantiates `MmvRep`; `MmvExecute` extends
`MmvPlan` and `MmvDoreps`, which extend `MmvRep`, and instantiates `MmvBulk`. `MmvDecode`
and `MmvAlloc` stand alone: `MmvScan` takes the decoders' verdict as the kind of an item
(`bad`, `long`, `longbad`), and all other modules take memory for granted.

A definition standing directly before another one with nearly the same body
(`PairCollidesOff` before `PairCollides`) is a plausible slip of the code; no
specification uses it. They record how sensitive the properties are.

## Properties

Planning: `CollisionsExact` (a neighbour scan refuses whole collisions and nothing
else), `AccountsBalance` (the two counters, through all the places that change
them), `EachOnce` (the lists handed on contain each live REP once, and no refused
one), `MoveOrderRight` and `AppendOrderRight` (the order is safe, including after
refusals have cut chains), `NoChainCopies`, `DeletionsApproved`,
`NoHopelessReplacement`, `AbortAllOrNothing`, `NoNullDelete`, and `PlanningEnds`.

Scan: `HandsOver` (every file has at most one REP or one counted refusal, no REP is one
`badrep` must refuse, each `r_fdel` is exactly the existing file at the target),
`TargetsAsMv` (each REP is what `mv` would do with its own pair, however directories are
spelled and whatever is cached), `EveryPairTried`, `ScanEnds`; and, violated by the
code, `SpellingsShare` and `DirMoveStays`.

Execution: `NothingLost` (in every state, hence after a crash at any point, every
file is somewhere unless its deletion was approved), `NothingMisplaced`,
`Accomplished` (success means the parallel assignment), `NoexWritesNothing`,
`NothingStrange` (the program's own "Strange, did %d reps" check never fires),
`UndoneRerunnable`, `UndoneComplete`, `DoneTrue`, `BulkMove` (the refinement), and
`Terminates`.

Patterns: `ReplacementsAsPatterns` is the definition of what a pattern means, written
without stages, recursion or back-reference vectors: a *reading* of a path says where
the text of each token ends; the files a pattern matches are those with a reading, and
the new name is made from the reading in which stars are shortest. The invariant says
that the REPs and refusals are exactly these, first line first, with the target `mv`
would choose and the approval `(*)` of the line's own. `SearchesRight` is about `fsearch` and
`ffirst` in every directory, an empty one included, and for every name and prefix, the
empty one included. `NoMatchTold` defines when "no match" is said without the `ret &=` of
the recursion: of a line that finds no file which no line before it has found, unless
one of its stages 0, 2, ... (`EvenStages`) is called for a directory that is missing or
unreadable. It says too that nothing is executed unless every line has its files, but for
the exception of disagreement 10. Then `HandsOver` again, and `PatEnds`.

Decoding: `UnreadIntact` (in place: what is still to be read is as it was, and the
decoder stops within the line) and `NameMeant` (a name is accepted if the line, all of
it, is a way to write a string, and the name is that string up to its first NUL,
disagreement 11; a line that is refused is no string's).

Allocation: `BlocksApart` (no two blocks overlap, none is in memory that is a table or
free, and a block leaves its chunk only where a request too large for a new chunk has
been cut, disagreement 12) and `OneUse` (no chunk has two uses).

## Runs

| Run | Instance | What it shows |
|---|---|---|
| `plan` | 3 moves onto 4 names in 4 worlds and all deletion policies; 4 moves onto 5 existing names; 2 and 3 copies, overwrites, links with all `-k`/`-t`/ask policies and bad patterns; 3 and 4 appends | collisions, order, cycles, chains with several REPs per target, deletions, counters; no chained copy survives; `-t` is all or nothing; no NULL `r_fdel`; planning ends |
| `execution` | every map of 3 files to 4 names, two directories, one or two devices, temporary names free or taken, with every question asked or none, `-n`, one SIGINT, every failure; the same for copies, overwrites, links and appends | nothing lost, parallel semantics, true reports; refusals and failures only cost what was approved; `-n` writes nothing; what an observer sees is a run of `MmvBulk` |
| `scan_pairs` | one pair of each kind (8 sources, 11 targets) with six operations in nine worlds, by stream and by argv; two pairs; malformed input for every reader | the scan establishes what the planner relies on; no pair is skipped |
| `patterns` | one pair on the command line, of up to three stages, in six worlds, by move, `-r` and copy; lines that are blank, incomplete, marked, approved or unterminated; two pairs after one another | the REPs are what the patterns say; "no match" is said of the lines that find nothing new, but where an even stage suppresses it |
| `decode` | every line of up to three of eight kinds of chars in both encodings, longer ones (up to eight) of the chars escapes are made of, ended or not, in a buffer of seven | in-place decoding is safe, and exact up to the first NUL a line writes, on short lines and on those that the buffer cuts |
| `alloc` | up to four chunks and four blocks, four sizes of requests (the third fills a chunk, the largest does not fit one), tables that begin smaller than a chunk and outgrow it; a `size_t` of four bits | no memory has two uses; what a request larger than a chunk breaks, and what not |
| `shown_done`, `undone_names`, `temp_name` | a swap and a third move | disagreements 1-3, below |
| `spellings`, `argv_pairs`, `dirmove_home` | one and two pairs | disagreements 4-6, below |

**Why the bounds are enough to be interesting.** Three REPs over four names contain
every shape the code distinguishes: a free target, a chain of two or three, a
2-cycle with a chain behind it or beside it, a 3-cycle, a self-rename, two- and
three-way collisions. Four REPs add two independent 2-cycles, two chains, and
two adjacent collisions. Two temporary names per directory are one more than
needed with one of them taken (`MaxTemp` bounds `make_alias_fname`'s sequence
number); one SIGINT (`MaxSig`) reaches `breakrep`, and `breakstat` when it comes
after a failure. Of the scan, two pairs are enough for each to meet what the other
left: a cached directory, a REP or a refusal of the same source, an error that is
reset. The worlds of `MCScan` have a directory inside another, on the same device or
not, unreadable, unwritable, an unreadable and a dangling file, and a directory that
does not exist. The passing runs use a second spelling only of the directory that is
looked up first, and no `~/` target under `-r`; disagreements 4 and 6 are what happens
otherwise. Nor do they give several pairs on the command line, or a complete pair with
a line that the decoder rejects (disagreements 5 and 9). `CHECK_DEADLOCK FALSE` everywhere because the program exits.

A pattern pair is read in three nested directories (`R`, `S` in it, `T` in that), in
six worlds: a directory unreadable or unwritable at each place where that matters, a
dangling link; a fourth directory, which only the searches look at, is empty. 26
patterns meet 12 targets: none, one and two wildcards in a component,
`;` at every place in a path, a class, escapes, a wildcard behind a wildcard (so that
`match` goes back), an error, a component with wildcards between two without. Five more, of three stages or with a
literal directory between two stages, there or not, meet two targets: the even stage
behind the first is where `ret &=` differs (disagreement 10). That is three levels of the
recursion, and directories with no name, two, four and six of them, where a binary search
halves what is left to an odd and an even number and to nothing. Two lines let the second find
the REPs, the refusals and the cached directories of the first, which is all that one
line leaves to the next. The decoder's buffer of seven chars is cut inside an escape
at each of its places; two digits are enough for four values, among them NUL and the
char that starts an escape. The allocator has a chunk per table growth and per
request in every order, and free chunks of up to four different lengths, which is
what `chgive` and the first-fit search distinguish. A request of 7 units with chunks of 6
meets a table's memory that can take it and a new chunk that cannot; `Wrap` (16) is
larger than all that is allocated in one chunk, as 2^64 is.

**Fairness.** `Planning` and `Doing` are weakly fair: the process is scheduled, the
user answers or closes the terminal, system calls return. `Interrupt` and `Signal`
are not fair: nobody has to press the key. `ScanNext` and
`PatNext` are weakly fair: input and directories are read without waiting for anyone.
`MmvDecode` and `MmvAlloc` state no fairness and no liveness.

## Disagreements found

1. `show_done_all` (mmv-pairs.c:570-588) is to show what has been done up to the
   REP `fin`. Its inner loop stops at `fin`; the outer one goes on, so every later
   chain is reported as done. (`shown_done`)
2. If the head of a cycle fails *after* `movealias` has set its target aside,
   `snap` returns `first != p`, that is 0, and the undone list names the file that is
   now under a temporary name by its old name; the line cannot be fed to another
   `mmv` as mmv-getpat.c:109 says. (`undone_names`)
3. `make_alias_fname` looks for a free temporary name in the snapshot, which does not
   know the names earlier REPs of the same invocation have created; `movealias`
   may rename over one. (`temp_name`) It takes a target spelled like a temporary
   name. `NothingLost` is checked with targets that are not.
4. `dsearch` (mmv-dostage-common.c:527) steps through one DIRINFO instead of the array
   of pointers: only the first directory is ever found again, so another one, named
   in two ways, becomes two. What `JobOK` promises the planner is then broken: one
   file can have two REPs, and collisions are missed. (`spellings`)
5. `mmv_add_fname_pairs` overwrites each pair with the next; only the last is
   compiled. (`argv_pairs`)
6. Under `-r`, a `~/` target passes the test that forbids a path, because the test begins
   behind the home directory. `parse_dst_pattern` has the same lines, so `mmv -r` is
   concerned as well. (`dirmove_home`)

Six more are in the models as the code has them, without a run of their own. In
`MmvScan`:

7. The nul, qp and vis readers reset `paterr` before every pair and before the end
   (`Forgotten`), so `goonordie` never hears of a pair that matched nothing.
8. The xnn reader calls the pattern parser, whose state `mmv-pairs` has not created
   (`ParseXnn`): a NULL pointer.
9. The qp, vis and xnn readers take a line that cannot be decoded for the end of the
   input (`AtEof`): the pairs before it are executed, those after it are not.

In `MmvPattern`, `MmvDecode` and `MmvAlloc`; `NoMatchTold`, `NameMeant` and `BlocksApart` say what
is true in spite of them:

10. `checkdir` failing on the directory a stage is called for makes `dostage_patterns` return
    the number of the stage (mmv-dostage-patterns.c:503, `EnterNowhere`), whose last bit
    `ret &= ...` (:533, `And`) takes for "no file has matched". A pattern whose third stage
    asks for a directory that is missing (`*/*/x/a`, with no `x` anywhere) gets neither
    "no match" nor an error, and `mmv_execute` runs. A directory that cannot be read
    suppresses "no match" in the same way, but is an error of its own.
11. The qp and xnn readers return `strlen(buf)` and not the length the decoder has found
    (mmv-read-qp.c:94, mmv-read-xnn.c:94, `Return`): a line that writes a NUL, `a=00b` or
    `a\x00b`, is accepted as the name in front of it, `a`.
12. `challoc` does not look at the size again when it has got a new chunk: a request of
    more than 2040 bytes, as `hadd` makes for the path of a directory
    (mmv-dostage-common.c:440), is cut from a chunk of 2048 (`Fresh`), and `sl_len` wraps
    around (`Less`), so that all further requests of that slicer are cut behind it. The blocks are
    outside the chunk; they still do not overlap.

Observations that no run contradicts a document with: `dostage_fnames` takes one character less than the name
for the prefix it searches, which costs time and not correctness; a dangling link as
source or target ends the program (`quit`, before anything is done); a `DIRMOVE` REP that
inherits the name of a directory the user has refused to move is not tested
against "is a directory" again (the unlink in `doreps` then fails); the target of
an append that waits for another append is not tested with `access`; a SIGINT
during an operation that fails leaves `gotsig` set, so the next REP calls `snap`
again, which exits with status 1 and cuts the undone list short. `aliaslen` is
declared inside the loop that needs its value from an earlier iteration;
formally it is indeterminate there. The model keeps the value, as the build's
stack slot does.

Of the patterns, likewise as the code has it: `#0`, which RELEASE.md:24 calls "the whole
of 'from' filename", copies the text of the source *pattern* (the same when it has no
wildcard, and only such lines are checked); the approval `(*)` is taken back once per call of
`getpat` and not once per line, so a line that has something behind its `(*)` is
skipped and its approval goes to the next one; a last line that no newline ends is
not read; `!` counts as a wildcard and matches as an ordinary char; a negated class matches the NUL behind a name; a
component without wildcards is copied into `pathbuf` with the ESCs in it; `;` follows
links to directories until the path is too long; under a move every directory searched must be
writable, not only those that hold a match; a dangling link quits under `;` even if its
name matches nothing; more than ten stages or wildcards are written beyond the
tables, whose size is compared in the wrong unit (mmv-dostage-patterns.c:107); a word
that is too long is cut and used.

## Proofs

Checked by TLAPS, for every value of the constants that the assumptions allow. The
planner and `doreps`: every finite set of names and every job satisfying `JobOK`
(`NameAssumption`, `JobsAssumption`, `NilAssumption`, `TempAssumption`). The scan:
every set of spellings, names and inodes and every input (`SpellingAssumption`,
`CallsAssumption`). The pattern programs: any chars in any order, any lines of
patterns (`PatternAssumption`). The decoder: any buffer of at least one char, any lines, any
printable set that does not contain CR (`DecodeAssumption`). The allocator: requests of
any size up to the largest `size_t`, chunks and tables with room for two headers
(`AllocAssumption`). TLC evaluates each on the runs of its module.

* `PlanTypeCorrect`: `PlanSpec => []PlanTypeOK`. The type invariant is not inductive:
  `UpdateFirst` stores `head` in `r_first`, `UnlinkHead` removes element `i`,
  `PrintChainCall` looks at the top of `stack`. `CursorOK` says what each phase
  knows of its cursor (in the middle of an element, `i` is in the list; while
  walking, `walk` and `head` are names; `stack` is not empty while descending).
  `PlanInv == PlanTypeOK /\ CursorOK` is inductive, action by action. The lemmas
  `RemoveAtProperties`, `ReplaceAtProperties`, `FrontProperties` say what the list
  operations return.
* `CollisionsAreExact`: `PlanSpec => []CollisionsExact`. `ScanInv` describes the scan:
  `rd` is a permutation of the sources with equal targets contiguous, `skip` holds
  the scanned elements that have a fellow anywhere, and `mult` says whether the
  previous element is a fellow of the current one. `NeighboursSuffice` is the
  heart: in such an array an element has a fellow exactly when a neighbour is one.
  `SortedScans`, `ScanPairKeeps` and `ScanDoneExact` are the start, the turn and the end
  of the loop; nothing later touches `skip`.
* `NeverNullDelete`: `PlanSpec => []NoNullDelete`. `ChainedReplace`: when the operation is
  no move, a REP that hangs behind another one replaces something; `WalkChain`
  hangs only REPs for which `Waits` held, and only moves clear `r_fdel`. For moves the
  rep that takes a refused one's place gets its `r_fdel` set first.
* `NoexNeverWrites`: `Spec => NoexWritesNothing`. `NoexInv`: while `noex` is set, doreps is
  in no phase that precedes a system call; every such phase is entered with
  `noex` clear, and `snap`, which sets it, leaves for `print`.

* `AccountsAlwaysBalance`, `EveryRepOnce`, `MovesInOrder`, `AppendsInOrder`, `CopiesUnchained`,
  `DeletesAgreed`, `ReplacesHopeful`, `AbortsWhole`: `PlanSpec` implies `[]` of each property
  of planning. The inductive invariant (`PlannedInv`) is built up in layers, each proved with the
  ones before it, one lemma per action:
  * `StoreInv`: where a refused REP may still be linked, and that `r_fdel` is what the snapshot
    says until findorder looks at it. `Todo` holds the heads a loop has still to come to.
  * `ChainInv`, of `LinkInv` (`r_thendo` is injective, joins live REPs only, and has no loop) and
    `FirstInv` (`r_first` leads from a REP to the head of its chain). "No loop" is `Acyclic`:
    every set of REPs has one that no REP *of the set* leads to. In this form it survives
    every insertion and cut by a set argument, and no step counts the links. `Placed`
    says that a live REP is the head of a chain or behind another one.
  * `OrderInv`: while findorder works, what a REP it has hung waits for (`Threaded`), what
    the walk up a chain has passed (`Walking`), how a cycle was broken (`Cycles`, `AppendCycles`),
    and that everything else is recorded in `r_fdel` (`Recorded`). `OrderRefuses` is the
    hardest step: a REP that takes over the place of a refused one in a chain, while
    `printchain` returns.
  * `NoChainInv`, `DelInv`, `CycleInv`: what `nochains`, `baddel` and `skipdel` have looked at,
    and which cycles survive them.
  `Chain` is a smallest closed set, so that a chain is reasoned about by naming
  a closed set (`ChainLeast`, `ChainWithin`, `ChainPred`) and no induction along `r_thendo`
  is needed. `PlanHands` sums up what `doreps` is handed: `Handed`, `HandedMoves`,
  `HandedCopies`, `HandedAppends`.
* `NeverStrange`, `ExecTypeCorrect`: `RunInv` (doreps is at a place of the plan),
  `ProgressInv` (`Left`, the REPs to come; what `noex`, `failed` and the handler say about each
  other; `k` counts those that are not left) and `ExecInv` (a copy is only under way between
  two files that are open) hold together.
* `RunsAccomplish`, `FilesSurvive`, `FilesInPlace`, `DoneLinesTrue`, `UndoneAllListed`,
  `UndoneCanRerun`: `Spec => [](H => P)` for `Accomplished`, `NothingLost`, `NothingMisplaced`,
  `DoneTrue`, `UndoneComplete` and `UndoneRerunnable`. `PlaceInv` is the heart: while all goes
  well the directories are determined (`Standing`) by what is `Done`, what is put `Aside`, and
  the target that is `Busy`; every other name holds what it did (`Was`). `Ready` and `Vacant`
  derive from the order of the plan that the next call finds its source and an empty target;
  `Writes`, `Lands` and `PutsAside` are the three things a call can do. `AppendInv` is the
  same for appends: a name holds its own piece and those of `Comes(n)`, in some order, and
  in a cycle `aliaslen` is 1. When a call fails, `FailKeeps`: the directories stay, or lose a
  copy that is empty; from there on nothing is written. `LinesInv`, `Truthful` and `Rerun` carry
  the report. That `AliasSeq` is a number whose name is free needs a least element
  of a set of numbers (`WFMin` of `WellFoundedInduction`).
  `H` is `IsMove => PlainTargets`: no move has a temporary name for its target. Without it the
  move that `temp_name` shows renames over a file (disagreement 3); copies, links and
  appends need no hypothesis.
* `KeepsPromise`: `Spec /\ [](IsMove => PlainTargets) => BulkMove`, the refinement. A step of
  planning is a `Refuse`, a `Finish` or a stutter (`PlanningStep`; `PlanningKeepsPromise`
  states this half without the hypothesis). For `doreps`, `At(f)` says where `f` is by what is
  done, set aside and at hand, and `WhereIs` that this is where an observer finds it;
  then `movealias` is a `SetAside` (`TurnsInPlace`: the REPs of its chain take each other's
  places, as an injection of a finite set into itself is onto), an unlink or an opening that
  truncates is a `Delete`, a rename, or the transfer or the unlink of a cross-device move, is
  a `Put` (`ToVacant`: nobody is at its target), and the rest is not seen.
* `NothingOnTop`: what the refinement is good for. `MmvBulk`'s own theorem,
  `NothingOverwritten`, holds of `mmv_execute`.
* `NothingOverwritten`: `MmvBulk`'s `Spec` implies that no
  two files come to one name and that nothing but what the plan replaces is deleted,
  if the pseudo-place `Gone` is no name (`NamesApart`).
* `ScanCorrect`: `ScanSpec => [](ScanTypeOK /\ OneRepEach)`. No file gets two REPs, or
  a REP and a refusal, and each refusal is counted once, however many pairs there are
  and whatever the directories. It is the part of `JobOK` that `dsearch` does not break
  (a file here is an entry of a DIRINFO). `CoreInv` is what holds however the sources are
  found, and says what `dostage_fnames` relies on
  between two of its steps: a handle once open stays open and its directory is read
  (`HandlesOpen`), and the source being
  worked on is in an open directory and has no REP yet (`AtWork`); `ReadInv` adds that
  the words in hand come from the input (`InHand`). `ScanInv` is both.
* `ScanHandsOver`: `ScanSpec /\ NewNamesSimple => [](SpellingsShare => HandsOver)`, the
  precondition of the planner. `FitInv` says that the store fits the directories: a
  DIRINFO is that of the directory its spellings lead to (`DirsLed`), a REP's file
  is there and may be one (`RepFits`), and `r_fdel` is what `fsearch` finds at the target
  (`FdelRight`); `AtWorkFits` says the same of the REP that is being made. From there `JobFits`
  and `StoreFits` take files from DIRINFOs to directories, where two FILEINFOs
  are two files exactly if `SpellingsShare`. Both hypotheses are needed, and the code
  sees to neither: they are what the runs `spellings` and `dirmove_home` violate.
* `FirstSpellingsShare`: `ScanSpec => [](OnlyFirstTwice => SpellingsShare)`, how far that
  fault of `dsearch` reaches: it finds the first DIRINFO again under every
  spelling (`FirstFound`), so the hypothesis of `ScanHandsOver` holds unless another directory
  is looked up under two spellings.
* `ScanTargetsAsMv`: `ScanSpec /\ NewNamesSimple => [](SpellingsShare => TargetsAsMv)`. `PairInHand`
  says which pair the words in hand are. `SaidInv` says of every REP that its source and
  target are what `mv` would make of its own pair (`Said`), that no earlier pair
  with its source has found it (`FirstPair`), and, for that, that every pair which
  has been looked up is unmatched, at work, or served: its file has a REP or is refused.
* `ScanEveryPairTried`: `ScanSpec /\ PairsReadable => []EveryPairTried`. `PairsReadable` excludes
  a pair the decoder rejects and a second pair on the command line: the disagreements
  9 and 5 (run `argv_pairs`) are that the code passes over pairs there. `AllTried` counts
  with `Pair`, which is half of `pos`, through the readers' loop.
* `SearchesAreRight`: `PatSpec => []SearchesRight`, for empty directories and the empty prefix
  as well. `strcmp` is a total order because no two
  chars have one rank (`PatternAssumption`). That the two recursive search functions satisfy
  their equations is proved first (`BoundedRecursion`: a recursion whose measure is bounded
  has a solution). That they are right is then an induction on the length of
  the range that is left, written as the least length at which a search could fail
  (`LeastOf`, which is `WFMin` for numbers).
* `PatTypeCorrect`: `NamesClosed` implies `PatSpec => []PatTypeOK`. `WalkInv` says how the activations of
  `dostage_patterns` fit together: each has one text for each wildcard in front of its
  stage (`Staged`), and each one but the newest has its directory open and a place in it
  (`Open`). It rests on what the helpers return: `StagesHold`, that the stages of a
  pattern follow one another and number its wildcards without a gap; `MatchTyped`,
  that a match gives one text per wildcard of its stage; `FirstTyped`, that `ffirst` gives
  a place in the directory; `MakerepTyped`, that `makerep` gives a usable name or none.
  `NamesClosed` says that the sets of names are all strings there are: the run takes the
  finite sets of those that occur, a theorem about every pattern cannot.
* `PatHandsOver`: `NamesClosed` implies `PatSpec => [](SpellingsShare => HandsOver)`, the same
  promise to the planner as `ScanHandsOver`. `PatInv` is the scan's `CoreInv` and `FitInv` with
  `WalkInv`: a source is chosen by the walk, and what becomes of it is decided by the
  steps of the scan, whose lemmas are cited. `NewNamesSimple` is not needed, because no
  new name of a pattern program begins with the home; `SpellingsShare` is
  (disagreement 4).
* `DecodeTypeCorrect`, `DecodingInPlace`: `DecodeSpec` implies `[]DecTypeOK` and
  `[]UnreadIntact`. `DecodeInv`
  adds that the line ends in a NUL at `last`: that is where the decoder sees an escape
  that the line cuts off, and stops. `DecodeStarts` is the end of the reader's loop,
  whichever of its three exits is taken.
* `NamesMeant`: `DecodeSpec => []NameMeant`, and, stronger, `OnlyNameDecoded`: a line that is read
  to its end is accepted exactly if it is a way to write some string, and then the reader returns
  that string up to its first NUL (`CString`): a file name, which has no NUL, comes out as it
  was written. What a line says is `Written`, a recursive function
  that knows nothing of decoding: a relation of the bytes of a name to the chars of a
  line. The library's theorems on recursion are out of reach (see below), so that
  `Written` satisfies its equation is proved from below: `TableExists` fills its table row by
  row from the line's end, by taking the least row that could not be filled
  (`WFMin`), and `WrittenRound` concludes. `WrittenQp` and `WrittenXnn` rewrite the round char by
  char, and `WrittenStep` says what each turn of the decoder has to do with it. `MeantInv` then goes
  through the reader and the decoder: what has been read is in the buffer (`ReadSoFar`), it is
  the whole line exactly if nothing went wrong (`WholeLine`), and the line is a way to write
  `t` exactly if `t` begins with what has been decoded and the rest of the line is a
  way to write the rest of `t` (`RestWritten`). `OnlyDecoded` keeps what that says once the line
  is done, and `WholeString` joins it with the `strlen` the readers return (`StrLenFacts`,
  `NameFacts`).
* `BlocksStayApart`, `ChunksUsedOnce`, `AllocTypeCorrect`: `AllocSpec` implies
  `[]BlocksApart`, `[]OneUse` and `[]AllocTypeOK`. `AllocInv` adds `Filled`, that a slicer's place lies
  behind every block cut from its chunk and what it has left inside that chunk, the latter
  only while no request larger than a chunk has been cut from it (`Roomy`), since `Less` wraps
  around then; and `TablesRoomy`, that a table given back has room for the header of a free chunk.

`MmvLists` holds the lemmas about sequences that more than one of these need.

Only model-checked: liveness (`PlanningEnds`, `ScanEnds`, `PatEnds`, `Terminates`), which is
out of the prover's reach; and `ReplacementsAsPatterns` and `NoMatchTold`, which compare what
`match` and the stages compute with readings, for every pattern at once. The theorems
of the library on induction and on recursive definitions take an operator as a
parameter, which the provers cannot instantiate; least counterexamples and tables stand in for
them in the searches and the decoder, where one number (a length, a row) is
decreasing. For `match`, whose recursion over stars, stages and `;` is to agree with a
choice among readings, no such argument has been carried out. Hypotheses of theorems
that the code does not see to (`SpellingsShare`, `NewNamesSimple`, `PairsReadable`,
`PlainTargets`) exclude what the runs that expect a violation show.

## Not modelled

Other processes changing the directories (the code has no defence, so nothing
would hold), command line arguments that do not fit the buffer (`strcpy` copies them
before the length test takes effect), an empty argument list (undefined), the words
in memory `dsearch` compares by mistake (they are no DIRINFO of a directory), read/write
sizes and time stamps of copies, the wording of messages, `snap`'s retry until a file
name can be opened, and `SYMLINK` and `DFLT`, which no option sets.

Of the patterns: negated classes and `!` (see the observations), `#0` of a pattern with
wildcards, `#0` of a pattern with a slash under `-r`, `#n` of a `;` under `-r` (its text holds a slash), a line with something behind
its `(*)` when another follows it, a directory that one pattern names in two spellings
(disagreement 4), an ESC in a component without wildcards, links that lead back into a directory
above, the limits of path lengths and of the tables of stages and wildcards. Of the
allocator: what the blocks of disagreement 12 overwrite outside their chunk. Of the
decoders: vis, which is `strunvis` of the C library.

The options (`mmv_setopt`, `mmv_init`, `procargs`) are in `JobOK` and the jobs of `MCPlan`
as the combinations a program can set: they run once, without a loop or a failure
that leaves anything behind. The debug dumps, explanations and the small utilities of
`libcscript` format text and keep no state; the encoders are used by them and by `snap`
alone. Build files and regression tests are no part of the program. Each part is listed
in `PROJECT.json` with its status and the reason.

## Plan

1. (done) `MmvRep`, `MmvPlan`, `MmvDoreps`, `MmvExecute` and the first theorems.
2. (done) `MmvBulk` and the refinement from `MmvExecute`: model-checked, and
   proved.
3. (done) `MmvScan`, with the precondition of the planner as its promise.
4. (done) `MmvPattern` (with `fsearch`, `ffirst`, `match`, `makerep` checked against
   definitions), `MmvDecode`.
5. (done) `MmvAlloc`. To come: `mmv_setopt` and `procargs`, as the order of the library's
   calls that a program may make.
6. (done) Proofs: chains as disjoint paths, and from them every safety property of
   planning; `doreps` on the plan it is handed, every safety property of execution, and
   the refinement; every safety property of the scan, of the decoder and of the
   allocator; of the pattern programs the searches, the types and what they hand over.
   Left: `ReplacementsAsPatterns` and `NoMatchTold`.
