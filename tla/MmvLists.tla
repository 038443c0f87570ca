------------------------------ MODULE MmvLists ------------------------------
(***************************************************************************)
(* What the operations on lists return that the models use: hrep and its   *)
(* chains in MmvPlan, freechunks in MmvAlloc.                              *)
(***************************************************************************)
EXTENDS Integers, Sequences, SequencesExt, TLAPS, SequenceTheorems

\* An element at the front moves the others up.
LEMMA ConsFacts ==
  ASSUME NEW S, NEW s \in Seq(S), NEW x \in S
  PROVE  /\ <<x>> \o s \in Seq(S) /\ Len(<<x>> \o s) = Len(s) + 1
         /\ (<<x>> \o s)[1] = x
         /\ \A m \in 2..(Len(s) + 1) : (<<x>> \o s)[m] = s[m - 1]
<1>1. <<x>> \in Seq(S) /\ Len(<<x>>) = 1 /\ <<x>>[1] = x
  OBVIOUS
<1>2. Len(s) \in Nat
  BY LenProperties
<1>3. QED
  BY <1>1, <1>2, ConcatProperties

\* Unlinking an element leaves a list of the elements around it.
LEMMA RemoveAtProperties ==
  ASSUME NEW S, NEW s \in Seq(S), NEW n \in 1..Len(s)
  PROVE  /\ RemoveAt(s, n) \in Seq(S)
         /\ Len(RemoveAt(s, n)) = Len(s) - 1
         /\ \A m \in 1..(Len(s) - 1) :
              RemoveAt(s, n)[m] = IF m < n THEN s[m] ELSE s[m + 1]
<1> DEFINE l == SubSeq(s, 1, n - 1)
           r == SubSeq(s, n + 1, Len(s))
<1>0. n \in Int /\ 1 <= n /\ n <= Len(s) /\ Len(s) \in Nat
  BY LenProperties
<1>1. \A m \in 1..Len(s) : s[m] \in S
  BY ElementOfSeq
<1>2. /\ l \in Seq(S) /\ Len(l) = n - 1
      /\ \A m \in 1..(n - 1) : l[m] = s[m]
  <2>1. \A m \in 1..(n - 1) : s[m] \in S
    BY <1>0, <1>1
  <2>2. /\ l \in Seq(S)
        /\ Len(l) = IF 1 <= n - 1 THEN (n - 1) - 1 + 1 ELSE 0
        /\ \A m \in 1..((n - 1) - 1 + 1) : l[m] = s[1 + m - 1]
    BY <1>0, <2>1, SubSeqProperties
  <2>3. QED BY <1>0, <2>2
<1>3. /\ r \in Seq(S) /\ Len(r) = Len(s) - n
      /\ \A m \in 1..(Len(s) - n) : r[m] = s[n + m]
  <2>1. \A m \in (n + 1)..Len(s) : s[m] \in S
    BY <1>0, <1>1
  <2>2. /\ r \in Seq(S)
        /\ Len(r) = IF n + 1 <= Len(s) THEN Len(s) - (n + 1) + 1 ELSE 0
        /\ \A m \in 1..(Len(s) - (n + 1) + 1) : r[m] = s[(n + 1) + m - 1]
    BY <1>0, <2>1, SubSeqProperties
  <2>3. QED BY <1>0, <2>2
<1>5. RemoveAt(s, n) = l \o r
  BY DEF RemoveAt
<1> HIDE DEF l, r
<1>4. /\ l \o r \in Seq(S)
      /\ Len(l \o r) = Len(l) + Len(r)
      /\ \A m \in 1..(Len(l) + Len(r)) :
            (l \o r)[m] = IF m <= Len(l) THEN l[m] ELSE r[m - Len(l)]
  BY <1>2, <1>3, ConcatProperties
<1>6. ASSUME NEW m \in 1..(Len(s) - 1)
      PROVE  (l \o r)[m] = IF m < n THEN s[m] ELSE s[m + 1]
  <2>1. m \in 1..(Len(l) + Len(r))
    BY <1>0, <1>2, <1>3
  <2>2. CASE m < n
    BY <1>0, <1>2, <1>4, <2>1, <2>2
  <2>3. CASE ~(m < n)
    <3>1. (l \o r)[m] = r[m - (n - 1)]
      BY <1>0, <1>2, <1>4, <2>1, <2>3
    <3>2. m - (n - 1) \in 1..(Len(s) - n)
      BY <1>0, <2>3
    <3>3. r[m - (n - 1)] = s[n + (m - (n - 1))]
      BY <1>3, <3>2
    <3>4. QED BY <1>0, <2>3, <3>1, <3>3
  <2>4. QED BY <2>2, <2>3
<1>7. QED BY <1>0, <1>2, <1>3, <1>4, <1>5, <1>6
=============================================================================
