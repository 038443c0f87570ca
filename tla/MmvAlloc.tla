------------------------------ MODULE MmvAlloc ------------------------------
(***************************************************************************)
(* The allocator of mmv-alloc.c, and the tables whose memory it recycles.  *)
(* challoc cuts blocks for names (slicer 0) and structures (slicer 1) from *)
(* a chunk, each slicer from its own; chgive hands it the memory of a      *)
(* table that has been replaced by a larger one, or is done with.  Blocks  *)
(* are never given back.                                                   *)
(*                                                                         *)
(* A chunk is a piece of malloc'ed memory, named by its place in size, the *)
(* sequence of what malloc was asked for; a block is a range of its bytes. *)
(***************************************************************************)
EXTENDS Integers, Sequences, FiniteSets, SequencesExt

CONSTANTS
    Header,      \* sizeof (memchunk_t *), in front of the usable part
    ChunkSize,   \* CHUNKSIZE
    Wrap,        \* 2^64, behind the largest size_t
    Request,     \* the sizes challoc is asked for
    TableSize,   \* the sizes tables begin with
    MaxChunks,   \* bound on the number of malloc calls
    MaxBlocks    \* bound on the number of blocks

\* A chunk has room for its own memchunk_t.  A request may be larger than one:
\* the path of a directory (hadd) has up to PATH_MAX bytes.
ASSUME AllocAssumption ==
    /\ Header \in Nat \ {0} /\ ChunkSize \in Nat /\ ChunkSize >= 2 * Header
    /\ Wrap \in Nat /\ Request \subseteq 1..(Wrap - 1)
    /\ TableSize \subseteq {n \in Nat : n >= 2 * Header}
    /\ MaxChunks \in Nat /\ MaxBlocks \in Nat

Which == {0, 1}

VARIABLES
    size,     \* what malloc was asked for, call by call
    tables,   \* the chunks that are tables: handles, dirs, di_fils, rd
    free,     \* freechunks: a list of chunks and their ch_len
    slicer,   \* sl_first (its number, 0 for NULL), sl_unused and sl_len
    blocks    \* the blocks challoc has returned

allocVars == <<size, tables, free, slicer, blocks>>

NewChunk == Len(size) + 1

AllocInit ==
    /\ size = << >> /\ tables = {} /\ free = << >> /\ blocks = {}
    /\ slicer = [w \in Which |-> [chunk |-> 0, unused |-> 0, len |-> 0]]
-----------------------------------------------------------------------------
(***************************************************************************)
(* Tables: an array of pointers is allocated, is replaced by one of twice  *)
(* the size (hadd, dadd, takedir), or is given back (check_collisions).    *)
(***************************************************************************)
NewTable ==
    /\ Len(size) < MaxChunks
    /\ \E n \in TableSize : size' = Append(size, n)
    /\ tables' = tables \cup {NewChunk}
    /\ UNCHANGED <<free, slicer, blocks>>

\* chgive(table, size): the new head of the list of free chunks.
chgive(t) == <<[chunk |-> t, len |-> size[t] - Header]>> \o free

GrowTable ==
    /\ Len(size) < MaxChunks
    /\ \E t \in tables :
         /\ size' = Append(size, 2 * size[t])
         /\ tables' = (tables \ {t}) \cup {NewChunk}
         /\ free' = chgive(t)
    /\ UNCHANGED <<slicer, blocks>>

GiveTable ==
    /\ \E t \in tables : tables' = tables \ {t} /\ free' = chgive(t)
    /\ UNCHANGED <<size, slicer, blocks>>
-----------------------------------------------------------------------------
(***************************************************************************)
(* challoc(sz, w).                                                         *)
(***************************************************************************)
Block(c, off, sz) == [chunk |-> c, off |-> off, sz |-> sz]

CutAgain(w, c, off, len, sz) ==
    /\ blocks' = blocks \cup {Block(c, off, sz)}
    /\ slicer' = [slicer EXCEPT ![w] =
                    [chunk |-> c, unused |-> off + sz, len |-> len]]

\* sl_len -= sz, in a size_t.
Less(len, sz) == IF sz <= len THEN len - sz ELSE Wrap + len - sz

\* The block that begins at offset off of chunk c, where len bytes are left.
Cut(w, c, off, len, sz) ==
    /\ blocks' = blocks \cup {Block(c, off, sz)}
    /\ slicer' = [slicer EXCEPT ![w] =
                    [chunk |-> c, unused |-> off + sz, len |-> Less(len, sz)]]

SliceWithHeader(w, sz) ==
    /\ sz <= slicer[w].len + Header
    /\ Cut(w, slicer[w].chunk, slicer[w].unused, slicer[w].len, sz)
    /\ UNCHANGED <<size, tables, free>>
Slice(w, sz) ==
    /\ sz <= slicer[w].len
    /\ Cut(w, slicer[w].chunk, slicer[w].unused, slicer[w].len, sz)
    /\ UNCHANGED <<size, tables, free>>

FirstFit(i, sz) ==
    /\ i \in DOMAIN free /\ free[i].len >= sz
    /\ \A j \in 1..(i - 1) : free[j].len < sz

UnlinkNothing(i) == IF i = 1 THEN RemoveAt(free, i) ELSE free
Unlink(i) == RemoveAt(free, i)

\* The first free chunk that is large enough; the rest of the slicer's old
\* chunk is wasted.
Recycle(w, sz) ==
    /\ sz > slicer[w].len
    /\ \E i \in DOMAIN free :
         /\ FirstFit(i, sz)
         /\ Cut(w, free[i].chunk, Header, free[i].len, sz)
         /\ free' = Unlink(i)
    /\ UNCHANGED <<size, tables>>

\* A chunk of its usual size, also for a request that is larger.
Fresh(w, sz) ==
    /\ sz > slicer[w].len /\ Len(size) < MaxChunks
    /\ \A i \in DOMAIN free : free[i].len < sz
    /\ size' = Append(size, ChunkSize)
    /\ Cut(w, NewChunk, Header, ChunkSize - Header, sz)
    /\ UNCHANGED <<tables, free>>

challoc(w, sz) == Slice(w, sz) \/ Recycle(w, sz) \/ Fresh(w, sz)
Challoc ==
    /\ Cardinality(blocks) < MaxBlocks
    /\ \E w \in Which, sz \in Request : challoc(w, sz)

AllocNext == NewTable \/ GrowTable \/ GiveTable \/ Challoc

AllocSpec == AllocInit /\ [][AllocNext]_allocVars
-----------------------------------------------------------------------------
(***************************************************************************)
(* Properties.                                                             *)
(***************************************************************************)
Chunk == 1..Len(size)

\* The types of the allocator's state.
AllocTypeOK ==
    /\ size \in Seq(Nat)
    /\ tables \subseteq Chunk
    /\ free \in Seq([chunk : Chunk, len : Nat])
    /\ slicer \in [Which -> [chunk : Chunk \cup {0}, unused : Nat, len : Nat]]
    /\ blocks \subseteq [chunk : Chunk, off : Nat, sz : Nat]

Disjoint(b, c) == b.off + b.sz <= c.off \/ c.off + c.sz <= b.off

\* No request larger than a chunk has been cut from c, unless c has been a table.
Roomy(c) ==
    size[c] = ChunkSize =>
        \A b \in blocks : b.chunk = c => b.sz <= ChunkSize - Header

\* Whatever tables have been grown or given back between the requests, a block
\* challoc has returned overlaps no other block of its chunk, and is not in
\* memory that is a table, or free to be cut again.  It lies within its chunk,
\* unless a request that was too large for a new chunk has been cut from that
\* very chunk: challoc does not look at sz again when it has got a new one.
BlocksApart ==
    \A b \in blocks :
        /\ Header <= b.off
        /\ Roomy(b.chunk) => b.off + b.sz <= size[b.chunk]
        /\ b.chunk \notin tables
        /\ \A i \in DOMAIN free : free[i].chunk # b.chunk
        /\ \A c \in blocks : b # c /\ b.chunk = c.chunk => Disjoint(b, c)

\* A chunk has one use: it is a table, or once in the list of free chunks, or
\* the one a slicer cuts from, and a free chunk has no more room than it has.
OneUse ==
    /\ \A i \in DOMAIN free :
         /\ free[i].chunk \notin tables
         /\ free[i].len + Header <= size[free[i].chunk]
         /\ \A j \in DOMAIN free : free[i].chunk = free[j].chunk => i = j
         /\ \A w \in Which : slicer[w].chunk # free[i].chunk
    /\ \A w \in Which : slicer[w].chunk \notin tables
    /\ slicer[0].chunk = slicer[1].chunk => slicer[0].chunk = 0
=============================================================================
