--------------------------- MODULE MmvAllocProofs ---------------------------
(***************************************************************************)
(* Theorems about the allocator, for every size of chunks, requests and    *)
(* tables.                                                                 *)
(***************************************************************************)
EXTENDS MmvAlloc, MmvLists

\* What a slicer knows of its chunk: that all that has been cut from it lies
\* before the rest, and how much that is, unless sl_len has wrapped.
Filled ==
    \A w \in Which :
        IF slicer[w].chunk = 0 THEN slicer[w].len = 0
        ELSE /\ Header <= slicer[w].unused
             /\ Roomy(slicer[w].chunk) =>
                   slicer[w].unused + slicer[w].len <= size[slicer[w].chunk]
             /\ \A b \in blocks : b.chunk = slicer[w].chunk =>
                   b.off + b.sz <= slicer[w].unused

\* A table is at least as large as the header of a free chunk.
TablesRoomy == \A t \in tables : size[t] >= Header

AllocInv == AllocTypeOK /\ OneUse /\ Filled /\ TablesRoomy /\ BlocksApart

-----------------------------------------------------------------------------
(***************************************************************************)
(* Each kind of step keeps AllocInv.                                       *)
(***************************************************************************)
\* One more chunk: the others keep their sizes.
LEMMA MallocKeeps ==
  ASSUME AllocTypeOK, NEW n \in Nat, size' = Append(size, n)
  PROVE  /\ size' \in Seq(Nat) /\ Len(size) \in Nat
         /\ Len(size') = Len(size) + 1
         /\ NewChunk \in Chunk' /\ NewChunk \notin Chunk /\ 0 \notin Chunk'
         /\ Chunk \subseteq Chunk' /\ size'[NewChunk] = n
         /\ \A c \in Chunk : size'[c] = size[c]
BY AppendProperties, LenProperties DEF AllocTypeOK, Chunk, NewChunk

\* Types that hold for the chunks so far hold for more of them.
LEMMA ChunksGrow ==
  ASSUME AllocTypeOK, size' \in Seq(Nat), Chunk \subseteq Chunk',
         tables' \subseteq Chunk', UNCHANGED <<free, slicer, blocks>>
  PROVE  AllocTypeOK'
<1>1. free' \in Seq([chunk : Chunk', len : Nat])
  <2>1. /\ free \in Seq([chunk : Chunk, len : Nat])
        /\ [chunk : Chunk, len : Nat] \subseteq [chunk : Chunk', len : Nat]
    BY DEF AllocTypeOK
  <2>2. Seq([chunk : Chunk, len : Nat]) \subseteq Seq([chunk : Chunk', len : Nat])
    BY <2>1, SeqMonotonic
  <2>3. QED BY <2>1, <2>2
<1>2. slicer' \in [Which -> [chunk : Chunk' \cup {0}, unused : Nat, len : Nat]]
  <2>1. ASSUME NEW w \in Which
        PROVE  slicer[w] \in [chunk : Chunk' \cup {0}, unused : Nat, len : Nat]
    BY DEF AllocTypeOK
  <2>2. QED BY <2>1 DEF AllocTypeOK
<1>3. blocks' \subseteq [chunk : Chunk', off : Nat, sz : Nat]
  BY DEF AllocTypeOK
<1>4. QED BY <1>1, <1>2, <1>3 DEF AllocTypeOK

\* An element of the list of free chunks.
LEMMA FreeElement ==
  ASSUME AllocTypeOK, NEW i \in DOMAIN free
  PROVE  free[i].chunk \in Chunk /\ free[i].len \in Nat
<1>1. free \in Seq([chunk : Chunk, len : Nat]) /\ i \in 1..Len(free)
  BY LenProperties DEF AllocTypeOK
<1>2. free[i] \in [chunk : Chunk, len : Nat]
  BY <1>1, ElementOfSeq
<1>3. QED BY <1>2

\* A table that is given back becomes the first of the free chunks.
LEMMA GiveKeeps ==
  ASSUME AllocTypeOK,
         NEW t \in tables, size[t] \in Nat, size[t] >= Header,
         free' = chgive(t)
  PROVE  /\ free' \in Seq([chunk : Chunk, len : Nat])
         /\ Len(free) \in Nat /\ Len(free') = Len(free) + 1
         /\ free'[1].chunk = t /\ free'[1].len + Header = size[t]
         /\ \A m \in 2..(Len(free) + 1) : free'[m] = free[m - 1]
<1> DEFINE x == [chunk |-> t, len |-> size[t] - Header]
<1>1. x \in [chunk : Chunk, len : Nat]
  BY AllocAssumption DEF AllocTypeOK
<1>2. free \in Seq([chunk : Chunk, len : Nat]) /\ Len(free) \in Nat
  BY LenProperties DEF AllocTypeOK
<1>3. free' = <<x>> \o free
  BY DEF chgive
<1>4. x.chunk = t /\ x.len + Header = size[t]
  BY AllocAssumption
<1> HIDE DEF x
<1>5. QED BY <1>1, <1>2, <1>3, <1>4, ConsFacts

\* A request that was too large for a new chunk is in its chunk for good.
LEMMA RoomyBefore ==
  ASSUME NEW c, size'[c] = size[c], blocks \subseteq blocks', Roomy(c)'
  PROVE  Roomy(c)
BY DEF Roomy

\* A new table: nothing is in its chunk yet.
LEMMA NewTableKeeps ==
  ASSUME AllocInv, NewTable
  PROVE  AllocInv'
<1>i. AllocTypeOK /\ OneUse /\ Filled /\ TablesRoomy /\ BlocksApart
  BY DEF AllocInv
<1>1. PICK n \in TableSize : size' = Append(size, n)
  BY DEF NewTable
<1>2. n \in Nat /\ n >= Header /\ Header \in Nat
  BY AllocAssumption
<1>3. /\ size' \in Seq(Nat) /\ NewChunk \in Chunk' /\ NewChunk \notin Chunk
      /\ 0 \notin Chunk' /\ Chunk \subseteq Chunk' /\ size'[NewChunk] = n
      /\ \A c \in Chunk : size'[c] = size[c]
  BY <1>i, <1>1, <1>2, MallocKeeps
<1>4. tables' = tables \cup {NewChunk} /\ UNCHANGED <<free, slicer, blocks>>
  BY DEF NewTable
<1>5. AllocTypeOK'
  BY <1>i, <1>3, <1>4, ChunksGrow DEF AllocTypeOK
<1>f. \A i \in DOMAIN free : free[i].chunk \in Chunk
  BY <1>i, FreeElement
<1>s. \A w \in Which : slicer[w].chunk \in Chunk \cup {0}
  BY <1>i DEF AllocTypeOK
<1>6. OneUse'
  BY <1>i, <1>3, <1>4, <1>f, <1>s DEF OneUse, Which
<1>r. \A c \in Chunk : Roomy(c)' => Roomy(c)
  BY <1>3, <1>4, RoomyBefore
<1>7. Filled'
  BY <1>i, <1>3, <1>4, <1>s, <1>r DEF Filled
<1>8. TablesRoomy'
  BY <1>i, <1>2, <1>3, <1>4 DEF AllocTypeOK, TablesRoomy
<1>9. BlocksApart'
  BY <1>i, <1>3, <1>4, <1>f, <1>r DEF AllocTypeOK, BlocksApart, Disjoint
<1>10. QED BY <1>5, <1>6, <1>7, <1>8, <1>9 DEF AllocInv

\* A table's memory becomes the first of the free chunks, and a new table may
\* have taken its place.
LEMMA GivingKeeps ==
  ASSUME AllocInv, NEW t \in tables, free' = chgive(t),
         size' \in Seq(Nat), Chunk \subseteq Chunk', 0 \notin Chunk',
         \A c \in Chunk : size'[c] = size[c],
         tables' \subseteq Chunk', t \notin tables',
         \A c \in tables' : c \in tables \/ c \notin Chunk,
         \A c \in tables' : size'[c] >= Header,
         UNCHANGED <<slicer, blocks>>
  PROVE  AllocInv'
<1>i. AllocTypeOK /\ OneUse /\ Filled /\ TablesRoomy /\ BlocksApart
  BY DEF AllocInv
<1>1. t \in Chunk /\ size[t] \in Nat /\ size[t] >= Header
  BY <1>i, ElementOfSeq DEF AllocTypeOK, Chunk, TablesRoomy
<1>2. /\ free' \in Seq([chunk : Chunk, len : Nat])
      /\ Len(free) \in Nat /\ Len(free') = Len(free) + 1
      /\ free'[1].chunk = t /\ free'[1].len + Header = size[t]
      /\ \A m \in 2..(Len(free) + 1) : free'[m] = free[m - 1]
  BY <1>i, <1>1, GiveKeeps
<1>3. DOMAIN free = 1..Len(free) /\ DOMAIN free' = 1..(Len(free) + 1)
  BY <1>i, <1>2, LenProperties DEF AllocTypeOK
<1>f. \A i \in DOMAIN free : free[i].chunk \in Chunk /\ free[i].chunk # t
  BY <1>i, FreeElement DEF OneUse
<1>g. \A i \in DOMAIN free' :
         \/ i = 1
         \/ i - 1 \in DOMAIN free /\ free'[i] = free[i - 1]
  BY <1>2, <1>3
<1>s. \A w \in Which : slicer[w].chunk \in Chunk \cup {0} /\ slicer[w].chunk # t
  BY <1>i DEF AllocTypeOK, OneUse
<1>b. \A b \in blocks : b.chunk \in Chunk /\ b.chunk # t
  BY <1>i DEF AllocTypeOK, BlocksApart
<1>4. AllocTypeOK'
  <2>1. free' \in Seq([chunk : Chunk', len : Nat])
    <3>1. [chunk : Chunk, len : Nat] \subseteq [chunk : Chunk', len : Nat]
      OBVIOUS
    <3>2. Seq([chunk : Chunk, len : Nat]) \subseteq Seq([chunk : Chunk', len : Nat])
      BY <3>1, SeqMonotonic
    <3>3. QED BY <1>2, <3>2
  <2>2. slicer' \in [Which -> [chunk : Chunk' \cup {0}, unused : Nat, len : Nat]]
    <3>1. ASSUME NEW w \in Which
          PROVE  slicer[w] \in [chunk : Chunk' \cup {0}, unused : Nat, len : Nat]
      BY <1>i DEF AllocTypeOK
    <3>2. QED BY <1>i, <3>1 DEF AllocTypeOK
  <2>3. blocks' \subseteq [chunk : Chunk', off : Nat, sz : Nat]
    BY <1>i DEF AllocTypeOK
  <2>4. QED BY <2>1, <2>2, <2>3 DEF AllocTypeOK
<1>5. OneUse'
  <2>1. ASSUME NEW i \in DOMAIN free'
        PROVE  /\ free'[i].chunk \notin tables'
               /\ free'[i].len + Header <= size'[free'[i].chunk]
               /\ \A w \in Which : slicer[w].chunk # free'[i].chunk
    <3>1. CASE i = 1
      BY <1>1, <1>2, <1>s, <3>1, AllocAssumption
    <3>2. CASE i # 1
      BY <1>i, <1>f, <1>g, <3>2 DEF OneUse
    <3>3. QED BY <3>1, <3>2
  <2>2. ASSUME NEW i \in DOMAIN free', NEW j \in DOMAIN free',
               free'[i].chunk = free'[j].chunk
        PROVE  i = j
    <3>1. CASE i = 1
      BY <1>2, <1>f, <1>g, <2>2, <3>1
    <3>2. CASE j = 1
      BY <1>2, <1>f, <1>g, <2>2, <3>2
    <3>3. CASE i # 1 /\ j # 1
      <4>1. i - 1 = j - 1
        BY <1>i, <1>g, <2>2, <3>3 DEF OneUse
      <4>2. QED BY <1>3, <4>1
    <3>4. QED BY <3>1, <3>2, <3>3
  <2>3. /\ \A w \in Which : slicer'[w].chunk \notin tables'
        /\ slicer'[0].chunk = slicer'[1].chunk => slicer'[0].chunk = 0
    BY <1>i, <1>s DEF OneUse
  <2>4. QED BY <2>1, <2>2, <2>3 DEF OneUse
<1>r. \A c \in Chunk : Roomy(c)' => Roomy(c)
  BY RoomyBefore
<1>6. Filled' /\ TablesRoomy'
  BY <1>i, <1>s, <1>r DEF Filled, TablesRoomy
<1>7. BlocksApart'
  <2>1. ASSUME NEW b \in blocks
        PROVE  \A i \in DOMAIN free' : free'[i].chunk # b.chunk
    <3>1. \A i \in DOMAIN free : free[i].chunk # b.chunk
      BY <1>i DEF BlocksApart
    <3>2. QED BY <1>2, <1>b, <1>g, <3>1
  <2>2. ASSUME NEW b \in blocks
        PROVE  /\ Header <= b.off /\ b.chunk \notin tables'
               /\ Roomy(b.chunk)' => b.off + b.sz <= size'[b.chunk]
    BY <1>i, <1>b, <1>r, <2>2 DEF BlocksApart
  <2>3. ASSUME NEW b \in blocks, NEW c \in blocks, b # c, b.chunk = c.chunk
        PROVE  Disjoint(b, c)
    BY <1>i, <2>3 DEF BlocksApart
  <2>4. QED BY <2>1, <2>2, <2>3 DEF BlocksApart, Disjoint
<1>8. QED BY <1>4, <1>5, <1>6, <1>7 DEF AllocInv

\* challoc cuts a block from the unused part of a chunk that no table, no free
\* chunk and not the other slicer uses.
LEMMA CutKeeps ==
  ASSUME AllocInv, NEW w \in Which, NEW sz \in Request,
         NEW c \in Nat \ {0}, NEW off \in Nat, NEW len \in Nat,
         Cut(w, c, off, len, sz), tables' = tables,
         size' \in Seq(Nat), Chunk \subseteq Chunk', 0 \notin Chunk',
         \A d \in Chunk : size'[d] = size[d],
         c \in Chunk', c \notin tables,
         Header <= off,
         Roomy(c)' => sz <= len /\ off + len <= size'[c],
         \A b \in blocks : b.chunk = c => b.off + b.sz <= off,
         \A v \in Which : v # w => slicer[v].chunk # c,
         free' \in Seq([chunk : Chunk, len : Nat]),
         \A i \in DOMAIN free' : /\ \E k \in DOMAIN free : free'[i] = free[k]
                                 /\ free'[i].chunk # c,
         \A i, j \in DOMAIN free' : free'[i].chunk = free'[j].chunk => i = j
  PROVE  AllocInv'
<1>i. AllocTypeOK /\ OneUse /\ Filled /\ TablesRoomy /\ BlocksApart
  BY DEF AllocInv
<1> DEFINE new == Block(c, off, sz)
<1>n. sz \in Nat /\ sz > 0 /\ Header \in Nat
  BY AllocAssumption
<1>l. Less(len, sz) \in Nat /\ (sz <= len => Less(len, sz) = len - sz)
  BY AllocAssumption DEF Less
<1>1. /\ blocks' = blocks \cup {new}
      /\ new.chunk = c /\ new.off = off /\ new.sz = sz
      /\ new \in [chunk : Chunk', off : Nat, sz : Nat]
  BY <1>n DEF Cut, Block
<1>2. /\ slicer' \in [Which -> [chunk : Chunk' \cup {0}, unused : Nat, len : Nat]]
      /\ slicer'[w].chunk = c /\ slicer'[w].unused = off + sz
      /\ slicer'[w].len = Less(len, sz)
      /\ \A v \in Which : v # w => slicer'[v] = slicer[v]
  <2> DEFINE rest == [chunk |-> c, unused |-> off + sz, len |-> Less(len, sz)]
  <2>1. rest \in [chunk : Chunk' \cup {0}, unused : Nat, len : Nat]
    BY <1>n, <1>l
  <2>2. \A v \in Which :
          slicer[v] \in [chunk : Chunk' \cup {0}, unused : Nat, len : Nat]
    BY <1>i DEF AllocTypeOK
  <2>3. /\ rest.chunk = c /\ rest.unused = off + sz /\ rest.len = Less(len, sz)
        /\ slicer' = [slicer EXCEPT ![w] = rest]
    BY DEF Cut
  <2>4. DOMAIN slicer = Which /\ slicer = [v \in Which |-> slicer[v]]
    BY <1>i DEF AllocTypeOK
  <2> HIDE DEF rest
  <2>5. QED BY <2>1, <2>2, <2>3, <2>4
<1> HIDE DEF new
<1>f. \A i \in DOMAIN free : free[i].chunk \in Chunk
  BY <1>i, FreeElement
<1>s. \A v \in Which : slicer[v].chunk \in Chunk \cup {0}
  BY <1>i DEF AllocTypeOK
<1>b. \A b \in blocks : b.chunk \in Chunk /\ b.off \in Nat /\ b.sz \in Nat
  BY <1>i DEF AllocTypeOK
<1>r. \A d \in Chunk : Roomy(d)' => Roomy(d)
  BY <1>1, RoomyBefore
<1>3. AllocTypeOK'
  <2>1. [chunk : Chunk, len : Nat] \subseteq [chunk : Chunk', len : Nat]
    OBVIOUS
  <2>2. Seq([chunk : Chunk, len : Nat]) \subseteq Seq([chunk : Chunk', len : Nat])
    BY <2>1, SeqMonotonic
  <2>3. blocks' \subseteq [chunk : Chunk', off : Nat, sz : Nat]
    BY <1>i, <1>1 DEF AllocTypeOK
  <2>4. tables' \subseteq Chunk'
    BY <1>i DEF AllocTypeOK
  <2>5. QED BY <1>2, <2>2, <2>3, <2>4 DEF AllocTypeOK
<1>4. OneUse'
  <2>1. ASSUME NEW i \in DOMAIN free'
        PROVE  /\ free'[i].chunk \notin tables'
               /\ free'[i].len + Header <= size'[free'[i].chunk]
               /\ \A v \in Which : slicer'[v].chunk # free'[i].chunk
    <3>1. PICK k \in DOMAIN free : free'[i] = free[k]
      OBVIOUS
    <3>2. /\ free[k].chunk \notin tables
          /\ free[k].len + Header <= size[free[k].chunk]
          /\ \A v \in Which : slicer[v].chunk # free[k].chunk
      BY <1>i DEF OneUse
    <3>3. QED BY <1>2, <1>f, <3>1, <3>2
  <2>2. \A v \in Which : slicer'[v].chunk \notin tables'
    BY <1>i, <1>2 DEF OneUse
  <2>3. slicer'[0].chunk = slicer'[1].chunk => slicer'[0].chunk = 0
    BY <1>2 DEF Which
  <2>4. QED BY <2>1, <2>2, <2>3 DEF OneUse
<1>5. Filled'
  <2>1. ASSUME NEW v \in Which, v # w
        PROVE  IF slicer'[v].chunk = 0 THEN slicer'[v].len = 0
               ELSE /\ Header <= slicer'[v].unused
                    /\ Roomy(slicer[v].chunk)' =>
                         slicer'[v].unused + slicer'[v].len
                           <= size'[slicer'[v].chunk]
                    /\ \A b \in blocks' : b.chunk = slicer'[v].chunk =>
                          b.off + b.sz <= slicer'[v].unused
    <3>1. CASE slicer[v].chunk = 0
      BY <1>i, <1>2, <2>1, <3>1 DEF Filled
    <3>2. CASE slicer[v].chunk # 0
      <4>1. slicer[v].chunk \in Chunk /\ slicer[v].chunk # c
        BY <1>s, <2>1, <3>2
      <4>2. /\ Header <= slicer[v].unused
            /\ Roomy(slicer[v].chunk) =>
                 slicer[v].unused + slicer[v].len <= size[slicer[v].chunk]
            /\ \A b \in blocks : b.chunk = slicer[v].chunk =>
                  b.off + b.sz <= slicer[v].unused
        BY <1>i, <3>2 DEF Filled
      <4>3. slicer'[v] = slicer[v]
        BY <1>2, <2>1
      <4>4. \A b \in blocks' : b.chunk = slicer[v].chunk => b \in blocks
        BY <1>1, <4>1
      <4>5. Roomy(slicer[v].chunk)' => Roomy(slicer[v].chunk)
        <5>1. PICK d \in Chunk : d = slicer[v].chunk /\ d = slicer'[v].chunk
          BY <4>1, <4>3
        <5>2. Roomy(d)' => Roomy(d)
          BY <1>r
        <5>3. (Roomy(slicer[v].chunk)' <=> Roomy(d)')
              /\ (Roomy(slicer[v].chunk) <=> Roomy(d))
          BY <5>1 DEF Roomy
        <5>4. QED BY <5>2, <5>3
      <4>6. QED BY <3>2, <4>1, <4>2, <4>3, <4>4, <4>5
    <3>3. QED BY <3>1, <3>2
  <2>2. /\ Header <= slicer'[w].unused
        /\ Roomy(slicer[w].chunk)' =>
             slicer'[w].unused + slicer'[w].len <= size'[slicer'[w].chunk]
    <3>1. size'[c] \in Nat
      BY ElementOfSeq DEF Chunk
    <3>2. Roomy(slicer[w].chunk)' <=> Roomy(c)'
      BY <1>2 DEF Roomy
    <3>3. QED BY <1>n, <1>l, <1>2, <3>1, <3>2
  <2>3. \A b \in blocks' : b.chunk = slicer'[w].chunk =>
          b.off + b.sz <= slicer'[w].unused
    <3>1. ASSUME NEW b \in blocks, b.chunk = c
          PROVE  b.off + b.sz <= off + sz
      BY <1>n, <1>b, <3>1
    <3>2. QED BY <1>n, <1>1, <1>2, <3>1
  <2>4. QED BY <1>2, <2>1, <2>2, <2>3 DEF Filled
<1>6. TablesRoomy'
  BY <1>i DEF AllocTypeOK, TablesRoomy
<1>7. BlocksApart'
  <2>1. ASSUME NEW b \in blocks'
        PROVE  /\ Header <= b.off /\ b.chunk \notin tables'
               /\ Roomy(b.chunk)' => b.off + b.sz <= size'[b.chunk]
    <3>1. CASE b \in blocks
      BY <1>i, <1>b, <1>r, <3>1 DEF BlocksApart
    <3>2. CASE b = new
      <4>1. size'[c] \in Nat
        BY ElementOfSeq DEF Chunk
      <4>2. QED BY <1>n, <1>1, <3>2, <4>1
    <3>3. QED BY <1>1, <3>1, <3>2
  <2>2. ASSUME NEW b \in blocks', NEW i \in DOMAIN free'
        PROVE  free'[i].chunk # b.chunk
    <3>1. PICK k \in DOMAIN free : free'[i] = free[k]
      OBVIOUS
    <3>2. QED BY <1>i, <1>1, <3>1 DEF BlocksApart
  <2>3. ASSUME NEW b \in blocks', NEW d \in blocks', b # d, b.chunk = d.chunk
        PROVE  Disjoint(b, d)
    <3>1. CASE b \in blocks /\ d \in blocks
      BY <1>i, <2>3, <3>1 DEF BlocksApart
    <3>2. CASE b = new /\ d \in blocks
      BY <1>1, <2>3, <3>2 DEF Disjoint
    <3>3. CASE b \in blocks /\ d = new
      BY <1>1, <2>3, <3>3 DEF Disjoint
    <3>4. QED BY <1>1, <2>3, <3>1, <3>2, <3>3
  <2>4. QED BY <2>1, <2>2, <2>3 DEF BlocksApart, Disjoint
<1>8. QED BY <1>3, <1>4, <1>5, <1>6, <1>7 DEF AllocInv

\* The three ways of challoc.
LEMMA ChallocKeeps ==
  ASSUME AllocInv, Challoc
  PROVE  AllocInv'
<1>i. AllocTypeOK /\ OneUse /\ Filled /\ TablesRoomy /\ BlocksApart
  BY DEF AllocInv
<1>0. PICK w \in Which, sz \in Request : challoc(w, sz)
  BY DEF Challoc
<1>n. /\ sz \in Nat /\ sz > 0
      /\ Header \in Nat \ {0} /\ ChunkSize \in Nat
  BY AllocAssumption
<1>t. /\ slicer[w].chunk \in Chunk \cup {0}
      /\ slicer[w].unused \in Nat /\ slicer[w].len \in Nat
  BY <1>i DEF AllocTypeOK
<1>c. Chunk \subseteq Nat \ {0} /\ 0 \notin Chunk
  BY DEF Chunk
<1>f. DOMAIN free = 1..Len(free) /\ Len(free) \in Nat
  BY <1>i, LenProperties DEF AllocTypeOK
<1>1. CASE Slice(w, sz)
  <2>a. PICK c \in Nat, off \in Nat, len \in Nat :
          c = slicer[w].chunk /\ off = slicer[w].unused /\ len = slicer[w].len
    BY <1>t, <1>c
  <2>1. /\ sz <= len /\ Cut(w, c, off, len, sz)
        /\ UNCHANGED <<size, tables, free>> /\ Chunk' = Chunk
    BY <1>1, <2>a DEF Slice, Chunk
  <2>2. c # 0
    BY <1>i, <1>n, <2>1, <2>a DEF Filled
  <2>3. c \in Chunk /\ c \in Nat \ {0}
    BY <1>t, <1>c, <2>2, <2>a
  <2>4. /\ Header <= off /\ (Roomy(c) => off + len <= size[c])
        /\ \A b \in blocks : b.chunk = c => b.off + b.sz <= off
    BY <1>i, <2>2, <2>a DEF Filled
  <2>5. /\ c \notin tables
        /\ \A v \in Which : v # w => slicer[v].chunk # c
    BY <1>i, <2>2, <2>a DEF OneUse, Which
  <2>6. /\ \A i \in DOMAIN free : free[i].chunk # c
        /\ \A i, j \in DOMAIN free : free[i].chunk = free[j].chunk => i = j
    BY <1>i, <2>a DEF OneUse
  <2>7. size \in Seq(Nat) /\ free \in Seq([chunk : Chunk, len : Nat])
    BY <1>i DEF AllocTypeOK
  <2>8. Roomy(c)' => sz <= len /\ off + len <= size'[c]
    <3>1. Roomy(c)' => Roomy(c)
      BY <2>1, RoomyBefore DEF Cut
    <3>2. QED BY <2>1, <2>4, <3>1
  <2>9. QED BY <1>c, <2>1, <2>3, <2>4, <2>5, <2>6, <2>7, <2>8, CutKeeps
<1>2. CASE Recycle(w, sz)
  <2>1. PICK n \in DOMAIN free :
          /\ FirstFit(n, sz) /\ Cut(w, free[n].chunk, Header, free[n].len, sz)
          /\ free' = Unlink(n)
    BY <1>2 DEF Recycle
  <2>a. PICK c \in Chunk, len \in Nat : c = free[n].chunk /\ len = free[n].len
    BY <1>i, FreeElement
  <2>2. c \in Chunk /\ len \in Nat /\ sz <= len
    BY <2>1, <2>a DEF FirstFit
  <2>3. /\ Cut(w, c, Header, len, sz)
        /\ UNCHANGED <<size, tables>> /\ Chunk' = Chunk
    BY <1>2, <2>1, <2>a DEF Recycle, Chunk
  <2>4. /\ c \notin tables /\ len + Header <= size[c]
        /\ \A v \in Which : slicer[v].chunk # c
        /\ \A b \in blocks : b.chunk # c
    BY <1>i, <2>a DEF OneUse, BlocksApart
  <2>5. Header + len <= size[c]
    BY <1>n, <2>2, <2>4
  <2>6. /\ free' \in Seq([chunk : Chunk, len : Nat])
        /\ Len(free') = Len(free) - 1
        /\ \A m \in 1..(Len(free) - 1) :
             free'[m] = IF m < n THEN free[m] ELSE free[m + 1]
    <3> DEFINE S == [chunk : Chunk, len : Nat]
    <3>1. free \in Seq(S) /\ n \in 1..Len(free)
      BY <1>i, <1>f DEF AllocTypeOK
    <3> HIDE DEF S
    <3>2. /\ RemoveAt(free, n) \in Seq(S)
          /\ Len(RemoveAt(free, n)) = Len(free) - 1
          /\ \A m \in 1..(Len(free) - 1) :
               RemoveAt(free, n)[m] = IF m < n THEN free[m] ELSE free[m + 1]
      BY <3>1, RemoveAtProperties
    <3>3. QED BY <2>1, <3>2 DEF S, Unlink
  <2>7. DOMAIN free' = 1..(Len(free) - 1)
    BY <2>6, LenProperties
  <2>8. \A i \in DOMAIN free' :
          \E k \in DOMAIN free : free'[i] = free[k] /\ k # n
    <3>1. ASSUME NEW i \in DOMAIN free', i < n
          PROVE  i \in DOMAIN free /\ free'[i] = free[i] /\ i # n
      BY <1>f, <2>6, <2>7, <3>1
    <3>2. ASSUME NEW i \in DOMAIN free', ~(i < n)
          PROVE  i + 1 \in DOMAIN free /\ free'[i] = free[i + 1] /\ i + 1 # n
      BY <1>f, <2>6, <2>7, <3>2
    <3>3. QED BY <3>1, <3>2
  <2>9. \A i, j \in DOMAIN free : free[i].chunk = free[j].chunk => i = j
    BY <1>i DEF OneUse
  <2>10. \A i \in DOMAIN free' : /\ \E k \in DOMAIN free : free'[i] = free[k]
                                 /\ free'[i].chunk # c
    BY <2>8, <2>9, <2>a
  <2>11. ASSUME NEW i \in DOMAIN free', NEW j \in DOMAIN free',
                free'[i].chunk = free'[j].chunk
         PROVE  i = j
    <3>1. ASSUME NEW m \in DOMAIN free'
          PROVE  \/ m < n /\ m \in DOMAIN free /\ free'[m] = free[m]
                 \/ ~(m < n) /\ m + 1 \in DOMAIN free /\ free'[m] = free[m + 1]
      <4>1. m \in 1..(Len(free) - 1) /\ m \in DOMAIN free /\ m + 1 \in DOMAIN free
        BY <1>f, <2>7
      <4>2. free'[m] = IF m < n THEN free[m] ELSE free[m + 1]
        BY <2>6, <4>1
      <4>3. QED BY <4>1, <4>2
    <3>2. i \in Nat /\ j \in Nat /\ n \in Nat
      BY <1>f, <2>7
    <3>3. CASE i < n /\ j < n
      BY <2>9, <2>11, <3>1, <3>3
    <3>4. CASE i < n /\ ~(j < n)
      <4>1. i = j + 1
        BY <2>9, <2>11, <3>1, <3>4
      <4>2. QED BY <3>2, <3>4, <4>1
    <3>5. CASE ~(i < n) /\ j < n
      <4>1. j = i + 1
        BY <2>9, <2>11, <3>1, <3>5
      <4>2. QED BY <3>2, <3>5, <4>1
    <3>6. CASE ~(i < n) /\ ~(j < n)
      <4>1. i + 1 = j + 1
        BY <2>9, <2>11, <3>1, <3>6
      <4>2. QED BY <3>2, <4>1
    <3>7. QED BY <3>3, <3>4, <3>5, <3>6
  <2>12. size \in Seq(Nat) /\ c \in Nat \ {0} /\ Header \in Nat
    BY <1>i, <1>n, <1>c, <2>2 DEF AllocTypeOK
  <2>13. /\ c \in Chunk' /\ 0 \notin Chunk' /\ size' \in Seq(Nat)
         /\ Chunk \subseteq Chunk' /\ tables' = tables
         /\ Header <= Header
         /\ Roomy(c)' => sz <= len /\ Header + len <= size'[c]
         /\ \A d \in Chunk : size'[d] = size[d]
         /\ \A b \in blocks : b.chunk = c => b.off + b.sz <= Header
         /\ \A v \in Which : v # w => slicer[v].chunk # c
         /\ \A i, j \in DOMAIN free' : free'[i].chunk = free'[j].chunk => i = j
    BY <1>c, <1>n, <2>2, <2>3, <2>4, <2>5, <2>11, <2>12
  <2>14. QED BY <2>2, <2>3, <2>4, <2>6, <2>10, <2>12, <2>13, CutKeeps
<1>3. CASE Fresh(w, sz)
  <2>a. PICK c, len \in Nat : c = NewChunk /\ len = ChunkSize - Header
    <3>1. NewChunk \in Nat /\ ChunkSize - Header \in Nat
      BY <1>i, <1>n, AllocAssumption, LenProperties DEF NewChunk, AllocTypeOK
    <3>2. QED BY <3>1
  <2>1. /\ size' = Append(size, ChunkSize) /\ Cut(w, c, Header, len, sz)
        /\ UNCHANGED <<tables, free>>
    BY <1>3, <2>a DEF Fresh
  <2>2. /\ size' \in Seq(Nat) /\ c \in Chunk' /\ c \notin Chunk /\ 0 \notin Chunk'
        /\ Chunk \subseteq Chunk' /\ size'[c] = ChunkSize
        /\ \A d \in Chunk : size'[d] = size[d]
    BY <1>i, <1>n, <2>1, <2>a, MallocKeeps
  <2>3. c \in Nat \ {0} /\ len \in Nat /\ Header + len <= size'[c]
    BY <1>n, <2>2, <2>a DEF Chunk
  <2>b. Roomy(c)' => sz <= len
    <3>1. Block(c, Header, sz) \in blocks'
      BY <2>1 DEF Cut
    <3>2. Block(c, Header, sz).chunk = c /\ Block(c, Header, sz).sz = sz
      BY DEF Block
    <3>3. QED BY <2>2, <2>a, <3>1, <3>2 DEF Roomy
  <2>4. /\ c \notin tables
        /\ \A b \in blocks : b.chunk # c
        /\ \A v \in Which : slicer[v].chunk # c
    BY <1>i, <2>2, <2>3 DEF AllocTypeOK
  <2>5. \A i \in DOMAIN free : free[i].chunk \in Chunk
    BY <1>i, FreeElement
  <2>6. /\ \A i \in DOMAIN free : free[i].chunk # c
        /\ \A i, j \in DOMAIN free : free[i].chunk = free[j].chunk => i = j
        /\ free \in Seq([chunk : Chunk, len : Nat])
    BY <1>i, <2>2, <2>5 DEF OneUse, AllocTypeOK
  <2>7. /\ tables' = tables /\ Header <= Header /\ Header \in Nat
        /\ \A b \in blocks : b.chunk = c => b.off + b.sz <= Header
        /\ \A v \in Which : v # w => slicer[v].chunk # c
        /\ free' \in Seq([chunk : Chunk, len : Nat])
        /\ \A i \in DOMAIN free' : /\ \E k \in DOMAIN free : free'[i] = free[k]
                                   /\ free'[i].chunk # c
        /\ \A i, j \in DOMAIN free' : free'[i].chunk = free'[j].chunk => i = j
    BY <1>n, <2>1, <2>4, <2>6
  <2>8. QED BY <2>1, <2>2, <2>3, <2>b, <2>4, <2>7, CutKeeps
<1>4. QED BY <1>0, <1>1, <1>2, <1>3 DEF challoc

-----------------------------------------------------------------------------
\* AllocInv, the inductive strengthening of the three invariants (it says where
\* the slicer's place is, and that nothing has been cut behind it), holds of
\* challoc, chgive and the tables, whatever is asked of them.
THEOREM AllocInvariant == AllocSpec => []AllocInv
<1>1. AllocInit => AllocInv
  BY DEF AllocInit, AllocInv, AllocTypeOK, OneUse, Filled, TablesRoomy,
         BlocksApart, Chunk, Which
<1>2. AllocInv /\ [AllocNext]_allocVars => AllocInv'
  <2> SUFFICES ASSUME AllocInv, [AllocNext]_allocVars
               PROVE  AllocInv'
    OBVIOUS
  <2>i. AllocTypeOK /\ TablesRoomy
    BY DEF AllocInv
  <2>t. \A t \in tables : t \in Chunk /\ size[t] \in Nat /\ size[t] >= Header
    BY <2>i, ElementOfSeq DEF AllocTypeOK, TablesRoomy, Chunk
  <2>1. CASE NewTable
    BY <2>1, NewTableKeeps
  <2>2. CASE GrowTable
    <3>1. PICK t \in tables :
            /\ size' = Append(size, 2 * size[t])
            /\ tables' = (tables \ {t}) \cup {NewChunk} /\ free' = chgive(t)
            /\ UNCHANGED <<slicer, blocks>>
      BY <2>2 DEF GrowTable
    <3>2. 2 * size[t] \in Nat /\ 2 * size[t] >= Header
      BY <2>t, AllocAssumption
    <3>3. /\ size' \in Seq(Nat) /\ NewChunk \in Chunk' /\ NewChunk \notin Chunk
          /\ 0 \notin Chunk' /\ Chunk \subseteq Chunk'
          /\ size'[NewChunk] = 2 * size[t]
          /\ \A c \in Chunk : size'[c] = size[c]
      BY <2>i, <3>1, <3>2, MallocKeeps
    <3>4. /\ tables' \subseteq Chunk' /\ t \notin tables'
          /\ \A c \in tables' : c \in tables \/ c \notin Chunk
          /\ \A c \in tables' : size'[c] >= Header
      BY <2>t, <3>1, <3>2, <3>3
    <3>5. QED BY <3>1, <3>3, <3>4, GivingKeeps
  <2>3. CASE GiveTable
    <3>1. PICK t \in tables : tables' = tables \ {t} /\ free' = chgive(t)
      BY <2>3 DEF GiveTable
    <3>2. UNCHANGED <<size, slicer, blocks>> /\ Chunk' = Chunk
      BY <2>3 DEF GiveTable, Chunk
    <3>3. /\ size' \in Seq(Nat) /\ 0 \notin Chunk'
          /\ tables' \subseteq Chunk' /\ t \notin tables'
          /\ \A c \in tables' : c \in tables \/ c \notin Chunk
          /\ \A c \in tables' : size'[c] >= Header
          /\ \A c \in Chunk : size'[c] = size[c]
      BY <2>i, <2>t, <3>1, <3>2 DEF AllocTypeOK, Chunk
    <3>4. QED BY <3>1, <3>2, <3>3, GivingKeeps
  <2>4. CASE Challoc
    BY <2>4, ChallocKeeps
  <2>5. CASE UNCHANGED allocVars
    BY <2>5 DEF allocVars, AllocInv, AllocTypeOK, OneUse, Filled, TablesRoomy,
               BlocksApart, Disjoint, Chunk, Roomy
  <2>6. QED BY <2>1, <2>2, <2>3, <2>4, <2>5 DEF AllocNext
<1>3. QED BY <1>1, <1>2, PTL DEF AllocSpec

\* No block challoc returns overlaps another one or lies in memory that has
\* another use, for any sizes of the requests; and none leaves its chunk, unless
\* a request that is too large for a new chunk has been cut from it.
THEOREM BlocksStayApart == AllocSpec => []BlocksApart
<1>1. AllocInv => BlocksApart
  BY DEF AllocInv
<1>2. QED BY <1>1, AllocInvariant, PTL

\* Every table and every free chunk is memory that malloc returned, what chgive
\* and challoc count never becomes negative, and every block begins in a chunk,
\* for requests up to the largest size_t.
THEOREM AllocTypeCorrect == AllocSpec => []AllocTypeOK
<1>1. AllocInv => AllocTypeOK
  BY DEF AllocInv
<1>2. QED BY <1>1, AllocInvariant, PTL

\* No chunk is used twice: as a table and for blocks, or by two slicers.
THEOREM ChunksUsedOnce == AllocSpec => []OneUse
<1>1. AllocInv => OneUse
  BY DEF AllocInv
<1>2. QED BY <1>1, AllocInvariant, PTL
=============================================================================
