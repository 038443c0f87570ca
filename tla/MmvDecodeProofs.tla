-------------------------- MODULE MmvDecodeProofs --------------------------
(***************************************************************************)
(* That decoding in place is safe, and that it finds the name a line is a   *)
(* way to write, for every buffer size, every line and every table of      *)
(* hexadecimal digits.                                                     *)
(***************************************************************************)
EXTENDS MmvDecode, SequenceTheorems, WellFoundedInduction, TLAPS

Below == OpToRel(<, Nat)

\* The order of the natural numbers, as the library's theorem wants it.
LEMMA BelowFacts == /\ IsWellFoundedOn(Below, Nat)
                    /\ \A x, y \in Nat : y < x => <<y, x>> \in Below
  <1>1. IsWellFoundedOn(Below, Nat)
    BY NatLessThanWellFounded DEF Below
  <1>2. \A x, y \in Nat : y < x => <<y, x>> \in Below
    BY DEF OpToRel, Below
  <1> QED
    BY <1>1, <1>2

\* The least of a set of natural numbers.
LEMMA MinFacts ==
    ASSUME NEW S, S \subseteq Nat, S # {}
    PROVE  Min(S) \in S /\ \A x \in S : Min(S) <= x
  <1>1. PICK m \in S : \A n \in S : ~(<<n, m>> \in Below)
    BY BelowFacts, WFMin
  <1>2. ASSUME NEW n \in S PROVE m <= n
    <2>1. m \in Nat /\ n \in Nat /\ <<n, m>> \notin Below
      BY <1>1
    <2>2. ~(n < m)
      BY <2>1, BelowFacts
    <2> QED
      BY <2>1, <2>2
  <1> QED
    BY <1>1, <1>2 DEF Min

\* What strlen returns for a buffer with a NUL in it.
LEMMA StrLenFacts ==
    ASSUME NEW b, NEW n \in Index, b[n] = NUL
    PROVE  /\ StrLen(b) \in Index /\ b[StrLen(b)] = NUL
           /\ \A k \in Index : b[k] = NUL => StrLen(b) <= k
  <1> DEFINE S == {k \in Index : b[k] = NUL}
  <1>1. S \subseteq Nat /\ S # {}
    BY DecodeAssumption DEF Index
  <1>2. Min(S) \in S /\ \A k \in S : Min(S) <= k
    BY <1>1, MinFacts
  <1> QED
    BY <1>2 DEF StrLen

\* While a line is read, what has been read lies in front of len; afterwards
\* the line ends at last, and the decoder has not reached behind it.
DecodeInv ==
    /\ DecTypeOK
    /\ UnreadIntact
    /\ pc # "read" => str[last] = NUL

\* Nothing has been read or decoded at first.
LEMMA InitKeeps == ReadInit => DecodeInv
  BY DecodeAssumption DEF ReadInit, DecodeInv, DecTypeOK, UnreadIntact, Index,
     Value, Line

\* Whatever ends the reader's loop leaves a line that ends inside the buffer.
LEMMA DecodeStarts ==
    ASSUME DecodeInv, NEW n \in Index, NEW r \in {0, EOF, NameTooLong},
           Decode(n, r)
    PROVE  DecodeInv'
  <1>1. buf' \in [Index -> Value] /\ buf'[n] = NUL
    BY DEF DecodeInv, DecTypeOK, Decode, Value
  <1>2. n >= 0 /\ n < Sz
    BY DecodeAssumption DEF Index
  <1> QED
    BY <1>1, <1>2, DecodeAssumption
    DEF DecodeInv, DecTypeOK, UnreadIntact, Decode, Index, lineVars

\* One round of the decoder: one char more in the result, at least one less to
\* be read.
LEMMA WriteKeeps ==
    ASSUME DecodeInv, pc = "decode", NEW c \in Value, NEW n \in Nat,
           s < n, n <= last, Write(c, n)
    PROVE  DecodeInv'
  <1>1. len <= s /\ last \in Index /\ s \in Index /\ len \in Nat
    BY DEF DecodeInv, DecTypeOK, UnreadIntact, Index
  <1>2. n \in Index /\ len' \in Index /\ len' <= n
    BY <1>1, DecodeAssumption DEF Index, Write
  <1>3. buf' \in [Index -> Value]
    BY DEF DecodeInv, DecTypeOK, Write
  <1>4. \A k \in n..last : buf'[k] = buf[k]
    BY <1>1, <1>2, DecodeAssumption DEF DecodeInv, DecTypeOK, Write, Index
  <1>5. \A k \in n..last : buf'[k] = str[k]
    BY <1>1, <1>4 DEF DecodeInv, UnreadIntact, Index
  <1> QED
    BY <1>1, <1>2, <1>3, <1>5, DecodeAssumption
    DEF DecodeInv, DecTypeOK, UnreadIntact, Write, Index, lineVars

\* The NUL that ends the result is written where the source has been read.
LEMMA FinishKeeps ==
    ASSUME DecodeInv, pc = "decode", NEW r \in {0, EOF, NameTooLong}, Finish(r)
    PROVE  DecodeInv'
  <1>1. len \in Index
    BY DecodeAssumption DEF DecodeInv, DecTypeOK, Index
  <1>2. buf' \in [Index -> Value]
    BY <1>1 DEF DecodeInv, DecTypeOK, Finish, Value
  <1>3. buf'[len] = NUL
    BY <1>1 DEF DecodeInv, DecTypeOK, Finish
  <1>4. rlen' \in Index
    BY <1>1, <1>3, StrLenFacts DEF Finish, Return
  <1> QED
    BY <1>1, <1>2, <1>4
    DEF DecodeInv, DecTypeOK, UnreadIntact, Finish, Return, lineVars

\* The decoder stands on a char of the line, or on the NUL that ends it: a
\* char that is no NUL is not the last one.
LEMMA NotAtLast ==
    ASSUME DecodeInv, pc = "decode", NEW k \in s..last, buf[k] # NUL
    PROVE  k < last
  BY DecodeAssumption DEF DecodeInv, DecTypeOK, UnreadIntact, Index

\* Both digits of an escape, and what follows them, are inside the line.
LEMMA EscapeInside ==
    ASSUME DecodeInv, pc = "decode", buf[s] # NUL, Escape, Hexes
    PROVE  /\ Digit1 + 2 \in Nat /\ s < Digit1 + 2 /\ Digit1 + 2 <= last
           /\ Byte[<<buf[Digit1], buf[Digit1 + 1]>>] \in Value
  <1>1. NUL # LetterX /\ NUL \notin Hex
    BY DecodeAssumption
  <1>2. s \in Nat /\ last \in Nat /\ s <= last
    BY DecodeAssumption DEF DecodeInv, DecTypeOK, UnreadIntact, Index
  <1>3. s < last
    BY <1>2, NotAtLast
  <1>4. Digit1 \in Nat /\ s < Digit1 /\ Digit1 <= last
    <2>1. CASE Qp
      BY <2>1, <1>2, <1>3 DEF Digit1
    <2>2. CASE ~Qp
      <3>1. buf[s + 1] # NUL
        BY <2>2, <1>1 DEF Escape
      <3>2. s + 1 < last
        BY <3>1, <1>2, <1>3, NotAtLast
      <3> QED
        BY <2>2, <3>2, <1>2 DEF Digit1
    <2> QED
      BY <2>1, <2>2
  <1>5. Digit1 < last
    <2>1. buf[Digit1] # NUL
      BY <1>1 DEF Hexes
    <2> QED
      BY <2>1, <1>2, <1>4, NotAtLast
  <1>6. Digit1 + 1 < last
    <2>1. buf[Digit1 + 1] # NUL
      BY <1>1 DEF Hexes
    <2>2. Digit1 + 1 \in s..last
      BY <1>2, <1>4, <1>5
    <2> QED
      BY <2>1, <2>2, NotAtLast
  <1>7. <<buf[Digit1], buf[Digit1 + 1]>> \in Hex \X Hex
    BY DEF Hexes
  <1>8. Byte[<<buf[Digit1], buf[Digit1 + 1]>>] \in Value
    BY <1>7, DecodeAssumption
  <1> QED
    BY <1>2, <1>4, <1>6, <1>8

\* Every step of the reader and of the decoder, one case each.
LEMMA NextKeeps == DecodeInv /\ [DecodeNext]_decodeVars => DecodeInv'
  <1> SUFFICES ASSUME DecodeInv, [DecodeNext]_decodeVars
               PROVE  DecodeInv'
    OBVIOUS
  <1>1. CASE LineTooLong
    BY <1>1, DecodeStarts, DecodeAssumption DEF LineTooLong, Index
  <1>2. CASE LineEof
    <2>1. len \in Index
      BY <1>2, DecodeAssumption DEF LineEof, Index, DecodeInv, DecTypeOK
    <2> QED
      BY <1>2, <2>1, DecodeStarts DEF LineEof
  <1>3. CASE LineEnd
    <2>1. StripCR \in Index
      BY <1>3, DecodeAssumption DEF LineEnd, StripCR, Index, DecodeInv, DecTypeOK
    <2> QED
      BY <1>3, <2>1, DecodeStarts DEF LineEnd
  <1>4. CASE ReadChar
    <2>1. len \in Index /\ len + 1 \in 0..Sz
      BY <1>4, DecodeAssumption DEF ReadChar, DecodeInv, DecTypeOK, Index
    <2>2. pos + 1 \in 1..Len(line.text)
      BY <1>4 DEF ReadChar, AtEnd, DecodeInv, DecTypeOK, Line
    <2>3. line.text[pos + 1] \in Char
      BY <2>2 DEF DecodeInv, DecTypeOK, Line
    <2>4. buf' \in [Index -> Value]
      BY <1>4, <2>1, <2>3 DEF ReadChar, DecodeInv, DecTypeOK, Value
    <2> QED
      BY <1>4, <2>1, <2>2, <2>4
      DEF ReadChar, DecodeInv, DecTypeOK, UnreadIntact
  <1>5. CASE DecodeEnd
    BY <1>5, FinishKeeps DEF DecodeEnd, DecodeInv, DecTypeOK
  <1>6. CASE DecodeEscape
    BY <1>6, EscapeInside, WriteKeeps DEF DecodeEscape
  <1>7. CASE DecodePlain
    <2>1. s \in Index /\ last \in Index /\ s <= last /\ buf[s] \in Value
      BY <1>7 DEF DecodePlain, DecodeInv, DecTypeOK, UnreadIntact
    <2>2. s < last
      BY <1>7, <2>1, NotAtLast, DecodeAssumption DEF DecodePlain, Index
    <2>3. s + 1 \in Nat /\ s < s + 1 /\ s + 1 <= last
      BY <2>1, <2>2, DecodeAssumption DEF Index
    <2> QED
      BY <1>7, <2>1, <2>3, WriteKeeps DEF DecodePlain
  <1>8. CASE DecodeSkip
    <2>1. s \in Nat /\ last \in Nat /\ s <= last /\ buf[s] # NUL
      BY <1>8, DecodeAssumption
      DEF DecodeSkip, DecodeInv, DecTypeOK, UnreadIntact, Index
    <2>2. s < last /\ s + 1 \in Index
      BY <1>8, <2>1, NotAtLast, DecodeAssumption
      DEF DecodeSkip, Index, DecodeInv, DecTypeOK
    <2> QED
      BY <1>8, <2>1, <2>2, DecodeAssumption
      DEF DecodeSkip, DecodeInv, DecTypeOK, UnreadIntact, lineVars, Index
  <1>9. CASE DecodeError
    BY <1>9, FinishKeeps DEF DecodeError
  <1>10. CASE UNCHANGED decodeVars
    BY <1>10 DEF decodeVars, DecodeInv, DecTypeOK, UnreadIntact
  <1> QED
    BY <1>1, <1>2, <1>3, <1>4, <1>5, <1>6, <1>7, <1>8, <1>9, <1>10
    DEF DecodeNext

\* The strengthened invariant holds of get_filename_qp and get_filename_xnn.
LEMMA DecodeKept == DecodeSpec => []DecodeInv
  BY InitKeeps, NextKeeps, PTL DEF DecodeSpec

\* No index of the reader or of the decoder leaves the buffer, whatever the line
\* holds and wherever it ends (get_filename_qp, get_filename_xnn).
THEOREM DecodeTypeCorrect == DecodeSpec => []DecTypeOK
  <1>1. DecodeInv => DecTypeOK
    BY DEF DecodeInv
  <1> QED
    BY <1>1, DecodeKept, PTL

\* The result never overtakes the source in the buffer they share, and the
\* decoder never reads behind the line (qp_decode_str, xnn_decode_str).
THEOREM DecodingInPlace == DecodeSpec => []UnreadIntact
  <1>1. DecodeInv => UnreadIntact
    BY DEF DecodeInv
  <1> QED
    BY <1>1, DecodeKept, PTL

-----------------------------------------------------------------------------
(***************************************************************************)
(* What a line says: that Written is what its recursion says, which is     *)
(* proved by induction from the line's end.                                *)
(***************************************************************************)
\* One round of Written, with f for the rounds after it.
Round(f, t, u, enc, i, j) ==
    \/ i = Len(t) /\ j = Len(u)
    \/ enc = "qp" /\ Says(u, j, <<CR>>) /\ f[<<i, j + 1>>]
    \/ /\ i < Len(t)
       /\ \E w \in Spellings(t[i + 1], enc) :
            /\ Says(u, j, w) /\ f[<<i + 1, j + Len(w)>>]
            /\ enc = "xnn" /\ w = <<Backslash>> =>
                 ~Says(u, j, <<Backslash, LetterX>>)

\* What begins an escape, and its two digits.
LEMMA EscapeWords ==
    ASSUME NEW a, NEW b, NEW c, NEW d
    PROVE  /\ <<a>> \o <<c, d>> = <<a, c, d>>
           /\ <<a, b>> \o <<c, d>> = <<a, b, c, d>>
  <1> DEFINE S == {a, b, c, d}
  <1>1. PICK p : p = <<a>>
    OBVIOUS
  <1>2. PICK q : q = <<a, b>>
    OBVIOUS
  <1>3. PICK r : r = <<c, d>>
    OBVIOUS
  <1>4. PICK x : x = <<a, c, d>>
    OBVIOUS
  <1>5. PICK y : y = <<a, b, c, d>>
    OBVIOUS
  <1>6. /\ p \in Seq(S) /\ Len(p) = 1 /\ p[1] = a
        /\ q \in Seq(S) /\ Len(q) = 2 /\ q[1] = a /\ q[2] = b
        /\ r \in Seq(S) /\ Len(r) = 2 /\ r[1] = c /\ r[2] = d
    BY <1>1, <1>2, <1>3
  <1>7. x \in Seq(S) /\ Len(x) = 3 /\ x[1] = a /\ x[2] = c /\ x[3] = d
    BY <1>4
  <1>8. /\ y \in Seq(S) /\ Len(y) = 4
        /\ y[1] = a /\ y[2] = b /\ y[3] = c /\ y[4] = d
    BY <1>5
  <1>9. p \o r = x
    <2>1. /\ p \o r \in Seq(S) /\ Len(p \o r) = 3
          /\ \A i \in 1..3 : (p \o r)[i] = IF i <= 1 THEN p[i] ELSE r[i - 1]
      <3>1. p \in Seq(S) /\ r \in Seq(S) /\ Len(p) = 1 /\ Len(r) = 2
        BY <1>6
      <3> HIDE DEF S
      <3>2. /\ p \o r \in Seq(S) /\ Len(p \o r) = Len(p) + Len(r)
            /\ \A i \in 1..Len(p) + Len(r) :
                 (p \o r)[i] = IF i <= Len(p) THEN p[i] ELSE r[i - Len(p)]
        BY <3>1, ConcatProperties
      <3> QED
        BY <3>1, <3>2
    <2>2. \A i : i \in 1..3 <=> i = 1 \/ i = 2 \/ i = 3
      OBVIOUS
    <2>3. (p \o r)[1] = p[1] /\ (p \o r)[2] = r[1] /\ (p \o r)[3] = r[2]
      BY <2>1
    <2>4. \A i \in 1..3 : (p \o r)[i] = x[i]
      BY <2>2, <2>3, <1>6, <1>7
    <2> QED
      BY <2>1, <2>4, <1>7, SeqEqual
  <1>10. q \o r = y
    <2>1. /\ q \o r \in Seq(S) /\ Len(q \o r) = 4
          /\ \A i \in 1..4 : (q \o r)[i] = IF i <= 2 THEN q[i] ELSE r[i - 2]
      <3>1. q \in Seq(S) /\ r \in Seq(S) /\ Len(q) = 2 /\ Len(r) = 2
        BY <1>6
      <3> HIDE DEF S
      <3>2. /\ q \o r \in Seq(S) /\ Len(q \o r) = Len(q) + Len(r)
            /\ \A i \in 1..Len(q) + Len(r) :
                 (q \o r)[i] = IF i <= Len(q) THEN q[i] ELSE r[i - Len(q)]
        BY <3>1, ConcatProperties
      <3> QED
        BY <3>1, <3>2
    <2>2. \A i : i \in 1..4 <=> i = 1 \/ i = 2 \/ i = 3 \/ i = 4
      OBVIOUS
    <2>3. /\ (q \o r)[1] = q[1] /\ (q \o r)[2] = q[2]
          /\ (q \o r)[3] = r[1] /\ (q \o r)[4] = r[2]
      BY <2>1
    <2>4. \A i \in 1..4 : (q \o r)[i] = y[i]
      BY <2>2, <2>3, <1>6, <1>8
    <2> QED
      BY <2>1, <2>4, <1>8, SeqEqual
  <1> QED
    BY <1>1, <1>2, <1>3, <1>4, <1>5, <1>9, <1>10

\* Every spelling is one, three or four chars.
LEMMA SpellingWords ==
    ASSUME NEW c, NEW w
    PROVE  /\ w \in Spellings(c, "qp") <=>
                \/ \E a, b \in Hex : Byte[<<a, b>>] = c /\ w = <<EqualSign, a, b>>
                \/ w = <<c>> /\ c \in Printable \ {EqualSign}
           /\ w \in Spellings(c, "xnn") <=>
                \/ \E a, b \in Hex :
                     Byte[<<a, b>>] = c /\ w = <<Backslash, LetterX, a, b>>
                \/ w = <<c>> /\ c \in Char
  <1>1. \A e : w \in {e \o h : h \in {d \in Hex \X Hex : Byte[d] = c}} <=>
                 \E a, b \in Hex : Byte[<<a, b>>] = c /\ w = e \o <<a, b>>
    <2> TAKE e
    <2>1. ASSUME NEW h \in Hex \X Hex, Byte[h] = c, w = e \o h
          PROVE  \E a, b \in Hex : Byte[<<a, b>>] = c /\ w = e \o <<a, b>>
      <3>1. h = <<h[1], h[2]>> /\ h[1] \in Hex /\ h[2] \in Hex
        OBVIOUS
      <3> QED
        BY <2>1, <3>1, Zenon
    <2>2. ASSUME NEW a \in Hex, NEW b \in Hex, Byte[<<a, b>>] = c,
                 w = e \o <<a, b>>
          PROVE  w \in {e \o h : h \in {d \in Hex \X Hex : Byte[d] = c}}
      <3>1. <<a, b>> \in Hex \X Hex
        OBVIOUS
      <3> QED
        BY <2>2, <3>1, Zenon
    <2> QED
      BY <2>1, <2>2, Zenon
  <1>2. \A p : w \in {<<q>> : q \in {c} \cap p} <=> w = <<c>> /\ c \in p
    BY Zenon
  <1>3. "xnn" # "qp"
    OBVIOUS
  <1>4. w \in Spellings(c, "qp") <=>
          \/ w \in {<<EqualSign>> \o h : h \in {d \in Hex \X Hex : Byte[d] = c}}
          \/ w \in {<<q>> : q \in {c} \cap (Printable \ {EqualSign})}
    BY Zenon DEF Spellings
  <1>5. w \in Spellings(c, "xnn") <=>
          \/ w \in {<<Backslash, LetterX>> \o h :
                      h \in {d \in Hex \X Hex : Byte[d] = c}}
          \/ w \in {<<q>> : q \in {c} \cap Char}
    BY <1>3, Zenon DEF Spellings
  <1>6. \A a, b : /\ <<EqualSign>> \o <<a, b>> = <<EqualSign, a, b>>
                  /\ <<Backslash, LetterX>> \o <<a, b>> =
                       <<Backslash, LetterX, a, b>>
    BY EscapeWords, Zenon
  <1>7. w \in Spellings(c, "qp") <=>
          \/ \E a, b \in Hex : Byte[<<a, b>>] = c /\ w = <<EqualSign, a, b>>
          \/ w = <<c>> /\ c \in Printable \ {EqualSign}
    <2>1. w \in {<<EqualSign>> \o h : h \in {d \in Hex \X Hex : Byte[d] = c}} <=>
            \E a, b \in Hex :
              Byte[<<a, b>>] = c /\ w = <<EqualSign>> \o <<a, b>>
      BY <1>1
    <2>2. (\E a, b \in Hex :
             Byte[<<a, b>>] = c /\ w = <<EqualSign>> \o <<a, b>>) <=>
          \E a, b \in Hex : Byte[<<a, b>>] = c /\ w = <<EqualSign, a, b>>
      BY <1>6, Zenon
    <2>3. w \in {<<q>> : q \in {c} \cap (Printable \ {EqualSign})} <=>
            w = <<c>> /\ c \in Printable \ {EqualSign}
      BY <1>2
    <2> QED
      BY <1>4, <2>1, <2>2, <2>3
  <1>8. w \in Spellings(c, "xnn") <=>
          \/ \E a, b \in Hex :
               Byte[<<a, b>>] = c /\ w = <<Backslash, LetterX, a, b>>
          \/ w = <<c>> /\ c \in Char
    <2>1. w \in {<<Backslash, LetterX>> \o h :
                   h \in {d \in Hex \X Hex : Byte[d] = c}} <=>
            \E a, b \in Hex :
              Byte[<<a, b>>] = c /\ w = <<Backslash, LetterX>> \o <<a, b>>
      BY <1>1
    <2>2. (\E a, b \in Hex :
             Byte[<<a, b>>] = c /\ w = <<Backslash, LetterX>> \o <<a, b>>) <=>
          \E a, b \in Hex : Byte[<<a, b>>] = c /\ w = <<Backslash, LetterX, a, b>>
      BY <1>6, Zenon
    <2>3. w \in {<<q>> : q \in {c} \cap (Char)} <=>
            w = <<c>> /\ c \in Char
      BY <1>2
    <2> QED
      BY <1>5, <2>1, <2>2, <2>3
  <1> QED
    BY <1>7, <1>8

\* What Says says: the chars of the word, one by one.
LEMMA SaysAll ==
    ASSUME NEW S, NEW w \in Seq(S), NEW u \in Seq(Char), NEW j \in 0..Len(u)
    PROVE  Says(u, j, w) <=> /\ j + Len(w) <= Len(u)
                             /\ \A k \in 1..Len(w) : u[j + k] = w[k]
  <1>1. Len(w) \in Nat /\ Len(u) \in Nat /\ j \in Nat
    BY LenProperties
  <1> DEFINE v == SubSeq(u, j + 1, j + Len(w))
  <1> SUFFICES ASSUME j + Len(w) <= Len(u)
               PROVE  v = w <=> \A k \in 1..Len(w) : u[j + k] = w[k]
    BY DEF Says
  <1>2. \A i \in j + 1..j + Len(w) : u[i] \in Char
    BY <1>1, ElementOfSeq
  <1>3. /\ v \in Seq(Char)
        /\ Len(v) = IF j + 1 <= j + Len(w) THEN j + Len(w) - (j + 1) + 1 ELSE 0
        /\ \A i \in 1..j + Len(w) - (j + 1) + 1 : v[i] = u[j + 1 + i - 1]
    BY <1>1, <1>2, SubSeqProperties
  <1>4. Len(v) = Len(w) /\ \A i \in 1..Len(w) : v[i] = u[j + i]
    BY <1>1, <1>3
  <1>5. v \in Seq(Char \cup S) /\ w \in Seq(Char \cup S)
    BY <1>3, SeqMonotonic
  <1> HIDE DEF v
  <1>6. ASSUME \A k \in 1..Len(w) : u[j + k] = w[k] PROVE v = w
    BY <1>4, <1>5, <1>6, SeqEqual
  <1> QED
    BY <1>4, <1>6

\* What Says says of a word of up to four chars.
LEMMA SaysWord ==
    ASSUME NEW u \in Seq(Char), NEW j \in 0..Len(u)
    PROVE  /\ \A a : Says(u, j, <<a>>) <=> j + 1 <= Len(u) /\ u[j + 1] = a
           /\ \A a, b : Says(u, j, <<a, b>>) <=>
                j + 2 <= Len(u) /\ u[j + 1] = a /\ u[j + 2] = b
           /\ \A a, b, c : Says(u, j, <<a, b, c>>) <=>
                j + 3 <= Len(u) /\ u[j + 1] = a /\ u[j + 2] = b /\ u[j + 3] = c
           /\ \A a, b, c, d : Says(u, j, <<a, b, c, d>>) <=>
                /\ j + 4 <= Len(u) /\ u[j + 1] = a /\ u[j + 2] = b
                /\ u[j + 3] = c /\ u[j + 4] = d
  <1>1. ASSUME NEW a, NEW b, NEW c, NEW d
        PROVE  /\ Says(u, j, <<a>>) <=> j + 1 <= Len(u) /\ u[j + 1] = a
               /\ Says(u, j, <<a, b>>) <=>
                    j + 2 <= Len(u) /\ u[j + 1] = a /\ u[j + 2] = b
               /\ Says(u, j, <<a, b, c>>) <=>
                    /\ j + 3 <= Len(u) /\ u[j + 1] = a /\ u[j + 2] = b
                    /\ u[j + 3] = c
               /\ Says(u, j, <<a, b, c, d>>) <=>
                    /\ j + 4 <= Len(u) /\ u[j + 1] = a /\ u[j + 2] = b
                    /\ u[j + 3] = c /\ u[j + 4] = d
    <2> DEFINE S == {a, b, c, d}
    <2>1. Says(u, j, <<a>>) <=>
            j + 1 <= Len(u) /\ u[j + 1] = a
      <3>1. PICK w : w = <<a>>
        OBVIOUS
      <3>2. w \in Seq(S)
        BY <3>1
      <3>3. Len(w) = 1
        BY <3>1
      <3>4. w[1] = a
        BY <3>1
      <3>5. Says(u, j, w) <=> /\ j + 1 <= Len(u)
                              /\ \A k \in 1..1 : u[j + k] = w[k]
        BY <3>2, <3>3, SaysAll
      <3>6. (\A k \in 1..1 : u[j + k] = w[k]) <=>
            u[j + 1] = w[1]
        <4>1. \A k : k \in 1..1 <=> k = 1
          OBVIOUS
        <4> QED
          BY <4>1
      <3> QED
        BY <3>1, <3>4, <3>5, <3>6
    <2>2. Says(u, j, <<a, b>>) <=>
            j + 2 <= Len(u) /\ u[j + 1] = a /\ u[j + 2] = b
      <3>1. PICK w : w = <<a, b>>
        OBVIOUS
      <3>2. w \in Seq(S)
        BY <3>1
      <3>3. Len(w) = 2
        BY <3>1
      <3>4. w[1] = a /\ w[2] = b
        BY <3>1
      <3>5. Says(u, j, w) <=> /\ j + 2 <= Len(u)
                              /\ \A k \in 1..2 : u[j + k] = w[k]
        BY <3>2, <3>3, SaysAll
      <3>6. (\A k \in 1..2 : u[j + k] = w[k]) <=>
            u[j + 1] = w[1] /\ u[j + 2] = w[2]
        <4>1. \A k : k \in 1..2 <=> k = 1 \/ k = 2
          OBVIOUS
        <4> QED
          BY <4>1
      <3> QED
        BY <3>1, <3>4, <3>5, <3>6
    <2>3. Says(u, j, <<a, b, c>>) <=>
            j + 3 <= Len(u) /\ u[j + 1] = a /\ u[j + 2] = b /\ u[j + 3] = c
      <3>1. PICK w : w = <<a, b, c>>
        OBVIOUS
      <3>2. w \in Seq(S)
        BY <3>1
      <3>3. Len(w) = 3
        BY <3>1
      <3>4. w[1] = a /\ w[2] = b /\ w[3] = c
        BY <3>1
      <3>5. Says(u, j, w) <=> /\ j + 3 <= Len(u)
                              /\ \A k \in 1..3 : u[j + k] = w[k]
        BY <3>2, <3>3, SaysAll
      <3>6. (\A k \in 1..3 : u[j + k] = w[k]) <=>
            u[j + 1] = w[1] /\ u[j + 2] = w[2] /\ u[j + 3] = w[3]
        <4>1. \A k : k \in 1..3 <=> k = 1 \/ k = 2 \/ k = 3
          OBVIOUS
        <4> QED
          BY <4>1
      <3> QED
        BY <3>1, <3>4, <3>5, <3>6
    <2>4. Says(u, j, <<a, b, c, d>>) <=>
            /\ j + 4 <= Len(u) /\ u[j + 1] = a /\ u[j + 2] = b
            /\ u[j + 3] = c /\ u[j + 4] = d
      <3>1. PICK w : w = <<a, b, c, d>>
        OBVIOUS
      <3>2. w \in Seq(S)
        BY <3>1
      <3>3. Len(w) = 4
        BY <3>1
      <3>4. w[1] = a /\ w[2] = b /\ w[3] = c /\ w[4] = d
        BY <3>1
      <3>5. Says(u, j, w) <=> /\ j + 4 <= Len(u)
                              /\ \A k \in 1..4 : u[j + k] = w[k]
        BY <3>2, <3>3, SaysAll
      <3>6. (\A k \in 1..4 : u[j + k] = w[k]) <=>
            u[j + 1] = w[1] /\ u[j + 2] = w[2] /\ u[j + 3] = w[3] /\ u[j + 4] = w[4]
        <4>1. \A k : k \in 1..4 <=> k = 1 \/ k = 2 \/ k = 3 \/ k = 4
          OBVIOUS
        <4> QED
          BY <4>1
      <3> QED
        BY <3>1, <3>4, <3>5, <3>6
    <2> QED
      BY <2>1, <2>2, <2>3, <2>4
  <1> QED
    BY <1>1, Zenon


\* A spelling has one char at least.
LEMMA SpellingLength ==
    ASSUME NEW c, NEW enc \in Encoding, NEW w \in Spellings(c, enc)
    PROVE  Len(w) \in Nat \ {0}
  <1>1. \A a, b : Len(<<EqualSign, a, b>>) = 3
    OBVIOUS
  <1>2. \A a, b : Len(<<Backslash, LetterX, a, b>>) = 4
    OBVIOUS
  <1>3. Len(<<c>>) = 1
    OBVIOUS
  <1>4. enc = "qp" \/ enc = "xnn"
    BY DEF Encoding
  <1>5. Len(w) = 1 \/ Len(w) = 3 \/ Len(w) = 4
    <2>1. CASE enc = "qp"
      BY <1>1, <1>3, <2>1, SpellingWords, Zenon
    <2>2. CASE enc = "xnn"
      BY <1>2, <1>3, <2>2, SpellingWords, Zenon
    <2> QED
      BY <1>4, <2>1, <2>2
  <1> QED
    BY <1>5

\* A round looks only at rounds further on in the line.
LEMMA RoundLater ==
    ASSUME NEW t, NEW u \in Seq(Char), NEW enc \in Encoding, NEW f, NEW g,
           Len(t) \in Nat, NEW i \in 0..Len(t), NEW j \in 0..Len(u),
           \A h \in 0..Len(t), k \in 0..Len(u) :
             k > j => (f[<<h, k>>] <=> g[<<h, k>>])
    PROVE  Round(f, t, u, enc, i, j) <=> Round(g, t, u, enc, i, j)
  <1>0. Len(u) \in Nat /\ j \in Nat /\ i \in Nat
    BY LenProperties
  <1>1. ASSUME Says(u, j, <<CR>>) PROVE f[<<i, j + 1>>] <=> g[<<i, j + 1>>]
    <2>1. j + 1 <= Len(u)
      BY <1>1, SaysWord, Zenon
    <2>2. j + 1 \in 0..Len(u) /\ j + 1 > j
      BY <1>0, <2>1
    <2> QED
      BY <2>2
  <1>2. ASSUME i < Len(t), NEW w \in Spellings(t[i + 1], enc), Says(u, j, w)
        PROVE  f[<<i + 1, j + Len(w)>>] <=> g[<<i + 1, j + Len(w)>>]
    <2>1. Len(w) \in Nat \ {0}
      BY SpellingLength
    <2>2. j + Len(w) <= Len(u)
      BY <1>2 DEF Says
    <2>3. j + Len(w) \in 0..Len(u) /\ j + Len(w) > j /\ i + 1 \in 0..Len(t)
      BY <1>0, <1>2, <2>1, <2>2
    <2> QED
      BY <2>3
  <1> QED
    BY <1>1, <1>2, Zenon DEF Round

\* There is a table of what Written says: row by row, from the line's end.
LEMMA TableExists ==
    ASSUME NEW t, NEW u \in Seq(Char), NEW enc \in Encoding, Len(t) \in Nat
    PROVE  \E f \in [(0..Len(t)) \X (0..Len(u)) -> BOOLEAN] :
             \A i \in 0..Len(t), j \in 0..Len(u) :
               f[<<i, j>>] <=> Round(f, t, u, enc, i, j)
  <1> DEFINE D == (0..Len(t)) \X (0..Len(u))
             Rows(f, m) == \A i \in 0..Len(t), j \in 0..Len(u) :
                             j > Len(u) - m =>
                               (f[<<i, j>>] <=> Round(f, t, u, enc, i, j))
             Bad == {m \in Nat : \A f \in [D -> BOOLEAN] : ~Rows(f, m)}
  <1>0. Len(u) \in Nat
    BY LenProperties
  <1>1. 0 \notin Bad
    <2>1. [p \in D |-> FALSE] \in [D -> BOOLEAN]
      OBVIOUS
    <2>2. Rows([p \in D |-> FALSE], 0)
      BY <1>0
    <2> QED
      BY <2>1, <2>2
  <1>2. ASSUME NEW m \in Nat, m \notin Bad PROVE m + 1 \notin Bad
    <2>1. PICK f \in [D -> BOOLEAN] : Rows(f, m)
      BY <1>2
    <2> DEFINE g == [p \in D |-> IF p[2] = Len(u) - m
                                 THEN Round(f, t, u, enc, p[1], p[2]) ELSE f[p]]
    <2>2. g \in [D -> BOOLEAN]
      <3>1. \A p \in D : Round(f, t, u, enc, p[1], p[2]) \in BOOLEAN
        BY DEF Round
      <3> QED
        BY <3>1
    <2>3. \A i \in 0..Len(t), j \in 0..Len(u) :
            g[<<i, j>>] = IF j = Len(u) - m
                          THEN Round(f, t, u, enc, i, j) ELSE f[<<i, j>>]
      OBVIOUS
    <2> HIDE DEF g
    <2>4. ASSUME NEW i \in 0..Len(t), NEW j \in 0..Len(u), j >= Len(u) - m
          PROVE  Round(g, t, u, enc, i, j) <=> Round(f, t, u, enc, i, j)
      <3>1. \A h \in 0..Len(t), k \in 0..Len(u) :
              k > j => (g[<<h, k>>] <=> f[<<h, k>>])
        BY <2>3, <2>4, <1>0
      <3> QED
        BY <3>1, RoundLater
    <2>5. Rows(g, m + 1)
      <3> SUFFICES ASSUME NEW i \in 0..Len(t), NEW j \in 0..Len(u),
                          j > Len(u) - (m + 1)
                   PROVE  g[<<i, j>>] <=> Round(g, t, u, enc, i, j)
        OBVIOUS
      <3>1. j >= Len(u) - m
        BY <1>0
      <3>2. CASE j = Len(u) - m
        BY <2>3, <2>4, <3>1, <3>2
      <3>3. CASE j # Len(u) - m
        <4>1. j > Len(u) - m
          BY <1>0, <3>1, <3>3
        <4>2. g[<<i, j>>] <=> f[<<i, j>>]
          BY <2>3, <3>3
        <4>3. f[<<i, j>>] <=> Round(f, t, u, enc, i, j)
          BY <2>1, <4>1
        <4> QED
          BY <2>4, <3>1, <4>2, <4>3
      <3> QED
        BY <3>2, <3>3
    <2> QED
      BY <2>2, <2>5
  <1>3. Bad = {}
    <2> SUFFICES ASSUME Bad # {} PROVE FALSE
      OBVIOUS
    <2>1. Bad \subseteq Nat
      OBVIOUS
    <2> HIDE DEF Bad
    <2>2. PICK m \in Bad : \A n \in Bad : ~(<<n, m>> \in Below)
      BY <2>1, BelowFacts, WFMin
    <2>3. m # 0 /\ m \in Nat
      BY <1>1, <2>1
    <2>4. m - 1 \in Nat /\ m - 1 < m /\ (m - 1) + 1 = m
      BY <2>3
    <2>5. m - 1 \notin Bad
      BY <2>2, <2>3, <2>4, BelowFacts
    <2> QED
      BY <1>2, <2>4, <2>5
  <1>4. PICK f \in [D -> BOOLEAN] : Rows(f, Len(u) + 1)
    <2>1. Len(u) + 1 \in Nat
      BY <1>0
    <2>2. Len(u) + 1 \notin Bad
      BY <1>3, Zenon
    <2> HIDE DEF Rows
    <2> QED
      BY <2>1, <2>2, Zenon
  <1>5. \A j \in 0..Len(u) : j > Len(u) - (Len(u) + 1)
    BY <1>0
  <1> QED
    BY <1>4, <1>5

\* Written is what its recursion says.
LEMMA WrittenRound ==
    ASSUME NEW t, NEW u \in Seq(Char), NEW enc \in Encoding, Len(t) \in Nat,
           NEW i \in 0..Len(t), NEW j \in 0..Len(u)
    PROVE  Written(t, u, enc)[<<i, j>>] <=>
             Round(Written(t, u, enc), t, u, enc, i, j)
  <1> DEFINE Table(f) == [p \in (0..Len(t)) \X (0..Len(u)) |->
                            Round(f, t, u, enc, p[1], p[2])]
  <1>1. PICK f \in [(0..Len(t)) \X (0..Len(u)) -> BOOLEAN] :
               \A h \in 0..Len(t), k \in 0..Len(u) :
                 f[<<h, k>>] <=> Round(f, t, u, enc, h, k)
    BY TableExists
  <1>2. f = Table(f)
    <2>1. \A h \in 0..Len(t), k \in 0..Len(u) :
            f[<<h, k>>] = Round(f, t, u, enc, h, k)
      BY <1>1 DEF Round
    <2> QED
      BY <1>1, <2>1
  <1>3. Written(t, u, enc) = CHOOSE g : g = Table(g)
    BY Zenon DEF Written, Round
  <1>4. Written(t, u, enc) = Table(Written(t, u, enc))
    BY <1>2, <1>3, Zenon
  <1> QED
    BY <1>4


\* What Written says, char by char: quoted-printable.
LEMMA WrittenQp ==
    ASSUME NEW t, NEW u \in Seq(Char), Len(t) \in Nat,
           NEW i \in 0..Len(t), NEW j \in 0..Len(u)
    PROVE  LET W == Written(t, u, "qp")
           IN  W[<<i, j>>] <=>
                 \/ i = Len(t) /\ j = Len(u)
                 \/ j + 1 <= Len(u) /\ u[j + 1] = CR /\ W[<<i, j + 1>>]
                 \/ /\ i < Len(t) /\ j + 3 <= Len(u) /\ u[j + 1] = EqualSign
                    /\ u[j + 2] \in Hex /\ u[j + 3] \in Hex
                    /\ t[i + 1] = Byte[<<u[j + 2], u[j + 3]>>]
                    /\ W[<<i + 1, j + 3>>]
                 \/ /\ i < Len(t) /\ j + 1 <= Len(u) /\ t[i + 1] = u[j + 1]
                    /\ u[j + 1] \in Printable \ {EqualSign}
                    /\ W[<<i + 1, j + 1>>]
  <1> DEFINE W == Written(t, u, "qp")
             Q == \E w \in Spellings(t[i + 1], "qp") :
                    Says(u, j, w) /\ W[<<i + 1, j + Len(w)>>]
             E == /\ j + 3 <= Len(u) /\ u[j + 1] = EqualSign
                  /\ u[j + 2] \in Hex /\ u[j + 3] \in Hex
                  /\ t[i + 1] = Byte[<<u[j + 2], u[j + 3]>>]
                  /\ W[<<i + 1, j + 3>>]
             P == /\ j + 1 <= Len(u) /\ t[i + 1] = u[j + 1]
                  /\ u[j + 1] \in Printable \ {EqualSign}
                  /\ W[<<i + 1, j + 1>>]
  <1>1. W[<<i, j>>] <=> \/ i = Len(t) /\ j = Len(u)
                        \/ Says(u, j, <<CR>>) /\ W[<<i, j + 1>>]
                        \/ i < Len(t) /\ Q
    <2>1. "qp" \in Encoding /\ "qp" # "xnn"
      BY DEF Encoding
    <2>2. W[<<i, j>>] <=> Round(W, t, u, "qp", i, j)
      BY <2>1, WrittenRound
    <2> HIDE DEF W
    <2> QED
      BY <2>1, <2>2, Zenon DEF Round
  <1> HIDE DEF W
  <1>2. Says(u, j, <<CR>>) <=> j + 1 <= Len(u) /\ u[j + 1] = CR
    BY SaysWord, Zenon
  <1>3. ASSUME Q PROVE E \/ P
    <2>1. PICK w \in Spellings(t[i + 1], "qp") :
                 Says(u, j, w) /\ W[<<i + 1, j + Len(w)>>]
      BY <1>3
    <2>2. CASE \E a, b \in Hex :
                 Byte[<<a, b>>] = t[i + 1] /\ w = <<EqualSign, a, b>>
      <3>1. PICK a \in Hex, b \in Hex :
                   Byte[<<a, b>>] = t[i + 1] /\ w = <<EqualSign, a, b>>
        BY <2>2
      <3>2. Len(w) = 3
        BY <3>1
      <3>3. /\ j + 3 <= Len(u) /\ u[j + 1] = EqualSign
            /\ u[j + 2] = a /\ u[j + 3] = b
        <4>1. Says(u, j, <<EqualSign, a, b>>)
          BY <2>1, <3>1, Zenon
        <4> QED
          BY <4>1, SaysWord, Zenon
      <3> QED
        BY <2>1, <3>1, <3>2, <3>3, Zenon
    <2>3. CASE w = <<t[i + 1]>> /\ t[i + 1] \in Printable \ {EqualSign}
      <3>1. Len(w) = 1
        BY <2>3
      <3>2. j + 1 <= Len(u) /\ u[j + 1] = t[i + 1]
        <4>1. Says(u, j, <<t[i + 1]>>)
          BY <2>1, <2>3, Zenon
        <4>2. \A a : Says(u, j, <<a>>) <=> j + 1 <= Len(u) /\ u[j + 1] = a
          BY SaysWord, Zenon
        <4> QED
          BY <4>1, <4>2, Zenon
      <3> QED
        BY <2>1, <2>3, <3>1, <3>2, Zenon
    <2> HIDE DEF E, P
    <2> QED
      BY <2>2, <2>3, SpellingWords, Zenon
  <1>4. ASSUME E PROVE Q
    <2>1. PICK w : w = <<EqualSign, u[j + 2], u[j + 3]>>
      OBVIOUS
    <2>2. Len(w) = 3
      BY <2>1
    <2>3. w \in Spellings(t[i + 1], "qp")
      BY <1>4, <2>1, SpellingWords, Zenon
    <2>4. Says(u, j, w)
      BY <1>4, <2>1, SaysWord, Zenon
    <2> QED
      BY <1>4, <2>2, <2>3, <2>4, Zenon
  <1>5. ASSUME P PROVE Q
    <2>1. PICK w : w = <<u[j + 1]>>
      OBVIOUS
    <2>2. Len(w) = 1
      BY <2>1
    <2>3. w \in Spellings(t[i + 1], "qp")
      BY <1>5, <2>1, SpellingWords, Zenon
    <2>4. Says(u, j, w)
      BY <1>5, <2>1, SaysWord, Zenon
    <2> QED
      BY <1>5, <2>2, <2>3, <2>4, Zenon
  <1>6. Q <=> E \/ P
    BY <1>3, <1>4, <1>5
  <1>7. W[<<i, j>>] <=>
          \/ i = Len(t) /\ j = Len(u)
          \/ j + 1 <= Len(u) /\ u[j + 1] = CR /\ W[<<i, j + 1>>]
          \/ i < Len(t) /\ (E \/ P)
    <2> HIDE DEF Q, E, P
    <2> QED
      BY <1>1, <1>2, <1>6, Zenon
  <1> QED
    BY <1>7, Zenon DEF W

\* What Written says, char by char: "\xnn".
LEMMA WrittenXnn ==
    ASSUME NEW t, NEW u \in Seq(Char), Len(t) \in Nat,
           NEW i \in 0..Len(t), NEW j \in 0..Len(u)
    PROVE  LET W == Written(t, u, "xnn")
           IN  W[<<i, j>>] <=>
                 \/ i = Len(t) /\ j = Len(u)
                 \/ /\ i < Len(t) /\ j + 4 <= Len(u)
                    /\ u[j + 1] = Backslash /\ u[j + 2] = LetterX
                    /\ u[j + 3] \in Hex /\ u[j + 4] \in Hex
                    /\ t[i + 1] = Byte[<<u[j + 3], u[j + 4]>>]
                    /\ W[<<i + 1, j + 4>>]
                 \/ /\ i < Len(t) /\ j + 1 <= Len(u) /\ t[i + 1] = u[j + 1]
                    /\ ~(/\ j + 2 <= Len(u) /\ u[j + 1] = Backslash
                         /\ u[j + 2] = LetterX)
                    /\ W[<<i + 1, j + 1>>]
  <1> DEFINE W == Written(t, u, "xnn")
             B == /\ j + 2 <= Len(u) /\ u[j + 1] = Backslash
                  /\ u[j + 2] = LetterX
             Q == \E w \in Spellings(t[i + 1], "xnn") :
                    /\ Says(u, j, w) /\ W[<<i + 1, j + Len(w)>>]
                    /\ w = <<Backslash>> => ~B
             E == /\ j + 4 <= Len(u)
                  /\ u[j + 1] = Backslash /\ u[j + 2] = LetterX
                  /\ u[j + 3] \in Hex /\ u[j + 4] \in Hex
                  /\ t[i + 1] = Byte[<<u[j + 3], u[j + 4]>>]
                  /\ W[<<i + 1, j + 4>>]
             P == /\ j + 1 <= Len(u) /\ t[i + 1] = u[j + 1] /\ ~B
                  /\ W[<<i + 1, j + 1>>]
  <1>0. Says(u, j, <<Backslash, LetterX>>) <=> B
    BY SaysWord, Zenon
  <1>1. W[<<i, j>>] <=> (i = Len(t) /\ j = Len(u)) \/ (i < Len(t) /\ Q)
    <2>1. "xnn" \in Encoding /\ "qp" # "xnn"
      BY DEF Encoding
    <2>2. W[<<i, j>>] <=> Round(W, t, u, "xnn", i, j)
      BY <2>1, WrittenRound
    <2> HIDE DEF W, B
    <2> QED
      BY <1>0, <2>1, <2>2, Zenon DEF Round
  <1> HIDE DEF W
  <1>3. ASSUME Q PROVE E \/ P
    <2>1. PICK w \in Spellings(t[i + 1], "xnn") :
                 /\ Says(u, j, w) /\ W[<<i + 1, j + Len(w)>>]
                 /\ w = <<Backslash>> => ~B
      BY <1>3
    <2>2. CASE \E a, b \in Hex :
                 Byte[<<a, b>>] = t[i + 1] /\ w = <<Backslash, LetterX, a, b>>
      <3>1. PICK a \in Hex, b \in Hex :
                   Byte[<<a, b>>] = t[i + 1] /\ w = <<Backslash, LetterX, a, b>>
        BY <2>2
      <3>2. Len(w) = 4
        BY <3>1
      <3>3. /\ j + 4 <= Len(u) /\ u[j + 1] = Backslash
            /\ u[j + 2] = LetterX /\ u[j + 3] = a /\ u[j + 4] = b
        <4>1. Says(u, j, <<Backslash, LetterX, a, b>>)
          BY <2>1, <3>1, Zenon
        <4> QED
          BY <4>1, SaysWord, Zenon
      <3> QED
        BY <2>1, <3>1, <3>2, <3>3, Zenon
    <2>3. CASE w = <<t[i + 1]>> /\ t[i + 1] \in Char
      <3>1. Len(w) = 1
        BY <2>3
      <3>2. j + 1 <= Len(u) /\ u[j + 1] = t[i + 1]
        <4>1. Says(u, j, <<t[i + 1]>>)
          BY <2>1, <2>3, Zenon
        <4>2. \A a : Says(u, j, <<a>>) <=> j + 1 <= Len(u) /\ u[j + 1] = a
          BY SaysWord, Zenon
        <4> QED
          BY <4>1, <4>2, Zenon
      <3>3. ~B
        BY <2>1, <2>3, <3>2, Zenon
      <3> QED
        BY <2>1, <3>1, <3>2, <3>3, Zenon
    <2> HIDE DEF E, P
    <2> QED
      BY <2>2, <2>3, SpellingWords, Zenon
  <1>4. ASSUME E PROVE Q
    <2>1. PICK w : w = <<Backslash, LetterX, u[j + 3], u[j + 4]>>
      OBVIOUS
    <2>2. Len(w) = 4
      BY <2>1
    <2>3. w \in Spellings(t[i + 1], "xnn")
      BY <1>4, <2>1, SpellingWords, Zenon
    <2>4. Says(u, j, w)
      <3>1. \A a, b, c, d : Says(u, j, <<a, b, c, d>>) <=>
              /\ j + 4 <= Len(u) /\ u[j + 1] = a /\ u[j + 2] = b
              /\ u[j + 3] = c /\ u[j + 4] = d
        BY SaysWord, Zenon
      <3>2. Says(u, j, <<Backslash, LetterX, u[j + 3], u[j + 4]>>)
        BY <1>4, <3>1, Zenon
      <3> QED
        BY <2>1, <3>2, Zenon
    <2>5. w # <<Backslash>>
      <3>1. Len(<<Backslash>>) = 1
        OBVIOUS
      <3>2. 4 # 1
        OBVIOUS
      <3> QED
        BY <2>2, <3>1, <3>2, Zenon
    <2> QED
      BY <1>4, <2>2, <2>3, <2>4, <2>5, Zenon
  <1>5. ASSUME P PROVE Q
    <2>1. PICK w : w = <<u[j + 1]>>
      OBVIOUS
    <2>2. Len(w) = 1
      BY <2>1
    <2>3. u[j + 1] \in Char
      <3>1. j + 1 \in 1..Len(u)
        BY <1>5, LenProperties
      <3> QED
        BY <3>1, ElementOfSeq
    <2>4. w \in Spellings(t[i + 1], "xnn")
      BY <1>5, <2>1, <2>3, SpellingWords, Zenon
    <2>5. Says(u, j, w)
      BY <1>5, <2>1, SaysWord, Zenon
    <2> QED
      BY <1>5, <2>2, <2>4, <2>5, Zenon
  <1>6. Q <=> E \/ P
    BY <1>3, <1>4, <1>5
  <1>7. W[<<i, j>>] <=> (i = Len(t) /\ j = Len(u)) \/ (i < Len(t) /\ (E \/ P))
    <2> HIDE DEF Q, E, P
    <2> QED
      BY <1>1, <1>6, Zenon
  <1> QED
    BY <1>7, Zenon DEF W


\* An escape begins behind the first j chars of the line; where its digits are;
\* and that they are digits.
Escapes(u, j, enc) ==
    IF enc = "qp"
      THEN j + 1 <= Len(u) /\ u[j + 1] = EqualSign
      ELSE j + 2 <= Len(u) /\ u[j + 1] = Backslash /\ u[j + 2] = LetterX
First(j, enc) == IF enc = "qp" THEN j + 2 ELSE j + 3
Digits(u, j, enc) ==
    /\ First(j, enc) + 1 <= Len(u)
    /\ u[First(j, enc)] \in Hex /\ u[First(j, enc) + 1] \in Hex

\* What one round of the decoder has to do with what the line says.
LEMMA WrittenStep ==
    ASSUME NEW t, NEW u \in Seq(Char), NEW enc \in Encoding, Len(t) \in Nat,
           NEW i \in 0..Len(t), NEW j \in 0..Len(u)
    PROVE  /\ j = Len(u) => (Written(t, u, enc)[<<i, j>>] <=> i = Len(t))
           /\ Escapes(u, j, enc) /\ Digits(u, j, enc) =>
                (Written(t, u, enc)[<<i, j>>] <=>
                   /\ i < Len(t)
                   /\ t[i + 1] = Byte[<<u[First(j, enc)], u[First(j, enc) + 1]>>]
                   /\ Written(t, u, enc)[<<i + 1, First(j, enc) + 1>>])
           /\ Escapes(u, j, enc) /\ ~Digits(u, j, enc) =>
                ~Written(t, u, enc)[<<i, j>>]
           /\ /\ j < Len(u) /\ ~Escapes(u, j, enc)
              /\ enc = "qp" => u[j + 1] \in Printable
              => (Written(t, u, enc)[<<i, j>>] <=>
                    /\ i < Len(t) /\ t[i + 1] = u[j + 1]
                    /\ Written(t, u, enc)[<<i + 1, j + 1>>])
           /\ j < Len(u) /\ enc = "qp" /\ u[j + 1] = CR =>
                (Written(t, u, enc)[<<i, j>>] <=>
                   Written(t, u, enc)[<<i, j + 1>>])
           /\ /\ j < Len(u) /\ ~Escapes(u, j, enc)
              /\ enc = "qp" /\ u[j + 1] \notin Printable \cup {CR}
              => ~Written(t, u, enc)[<<i, j>>]
  <1>0. Len(u) \in Nat /\ j \in Nat /\ i \in Nat
    BY LenProperties
  <1>1. CASE enc = "qp"
    <2> DEFINE W == Written(t, u, "qp")
    <2>1. W[<<i, j>>] <=>
                 \/ i = Len(t) /\ j = Len(u)
                 \/ j + 1 <= Len(u) /\ u[j + 1] = CR /\ W[<<i, j + 1>>]
                 \/ /\ i < Len(t) /\ j + 3 <= Len(u) /\ u[j + 1] = EqualSign
                    /\ u[j + 2] \in Hex /\ u[j + 3] \in Hex
                    /\ t[i + 1] = Byte[<<u[j + 2], u[j + 3]>>]
                    /\ W[<<i + 1, j + 3>>]
                 \/ /\ i < Len(t) /\ j + 1 <= Len(u) /\ t[i + 1] = u[j + 1]
                    /\ u[j + 1] \in Printable \ {EqualSign}
                    /\ W[<<i + 1, j + 1>>]
      BY WrittenQp, Zenon
    <2>2. CR \notin Printable /\ EqualSign # CR
      BY DecodeAssumption
    <2>3. First(j, "qp") = j + 2 /\ First(j, "qp") + 1 = j + 3
      BY <1>0 DEF First
    <2>4. Written(t, u, enc) = W
      BY <1>1
    <2> HIDE DEF W
    <2>5. Escapes(u, j, "qp") <=> j + 1 <= Len(u) /\ u[j + 1] = EqualSign
      BY <2>2 DEF Escapes
    <2>6. Digits(u, j, "qp") <=> /\ j + 3 <= Len(u)
                            /\ u[j + 2] \in Hex /\ u[j + 3] \in Hex
      BY <2>3 DEF Digits
    <2>7. j = Len(u) => (W[<<i, j>>] <=> i = Len(t))
      BY <1>0, <2>1
    <2>8. Escapes(u, j, "qp") /\ Digits(u, j, "qp") =>
            (W[<<i, j>>] <=> /\ i < Len(t)
                             /\ t[i + 1] = Byte[<<u[j + 2], u[j + 3]>>]
                             /\ W[<<i + 1, j + 3>>])
      BY <1>0, <2>1, <2>2, <2>5, <2>6
    <2>9. Escapes(u, j, "qp") /\ ~Digits(u, j, "qp") => ~W[<<i, j>>]
      BY <1>0, <2>1, <2>2, <2>5, <2>6
    <2>10. /\ j < Len(u) /\ ~Escapes(u, j, "qp")
           /\ "qp" = "qp" => u[j + 1] \in Printable
           => (W[<<i, j>>] <=> /\ i < Len(t) /\ t[i + 1] = u[j + 1]
                               /\ W[<<i + 1, j + 1>>])
      BY <1>0, <2>1, <2>2, <2>5
    <2>11. j < Len(u) /\ "qp" = "qp" /\ u[j + 1] = CR =>
             (W[<<i, j>>] <=> W[<<i, j + 1>>])
      BY <1>0, <2>1, <2>2
    <2>12. /\ j < Len(u) /\ ~Escapes(u, j, "qp")
           /\ "qp" = "qp" /\ u[j + 1] \notin Printable \cup {CR}
           => ~W[<<i, j>>]
      BY <1>0, <2>1, <2>2, <2>5
    <2> QED
      BY <1>1, <2>3, <2>4, <2>7, <2>8, <2>9, <2>10, <2>11, <2>12, Zenon
  <1>2. CASE enc = "xnn"
    <2> DEFINE W == Written(t, u, "xnn")
    <2>1. W[<<i, j>>] <=>
                 \/ i = Len(t) /\ j = Len(u)
                 \/ /\ i < Len(t) /\ j + 4 <= Len(u)
                    /\ u[j + 1] = Backslash /\ u[j + 2] = LetterX
                    /\ u[j + 3] \in Hex /\ u[j + 4] \in Hex
                    /\ t[i + 1] = Byte[<<u[j + 3], u[j + 4]>>]
                    /\ W[<<i + 1, j + 4>>]
                 \/ /\ i < Len(t) /\ j + 1 <= Len(u) /\ t[i + 1] = u[j + 1]
                    /\ ~(/\ j + 2 <= Len(u) /\ u[j + 1] = Backslash
                         /\ u[j + 2] = LetterX)
                    /\ W[<<i + 1, j + 1>>]
      BY WrittenXnn, Zenon
    <2>2. "xnn" # "qp"
      OBVIOUS
    <2>3. First(j, "xnn") = j + 3 /\ First(j, "xnn") + 1 = j + 4
      BY <1>0, <2>2 DEF First
    <2>4. Written(t, u, enc) = W
      BY <1>2
    <2> HIDE DEF W
    <2>5. Escapes(u, j, "xnn") <=> /\ j + 2 <= Len(u) /\ u[j + 1] = Backslash
                             /\ u[j + 2] = LetterX
      BY <2>2 DEF Escapes
    <2>6. Digits(u, j, "xnn") <=> /\ j + 4 <= Len(u)
                            /\ u[j + 3] \in Hex /\ u[j + 4] \in Hex
      BY <2>3 DEF Digits
    <2>7. j = Len(u) => (W[<<i, j>>] <=> i = Len(t))
      BY <1>0, <2>1
    <2>8. Escapes(u, j, "xnn") /\ Digits(u, j, "xnn") =>
            (W[<<i, j>>] <=> /\ i < Len(t)
                             /\ t[i + 1] = Byte[<<u[j + 3], u[j + 4]>>]
                             /\ W[<<i + 1, j + 4>>])
      BY <1>0, <2>1, <2>2, <2>5, <2>6
    <2>9. Escapes(u, j, "xnn") /\ ~Digits(u, j, "xnn") => ~W[<<i, j>>]
      BY <1>0, <2>1, <2>2, <2>5, <2>6
    <2>10. /\ j < Len(u) /\ ~Escapes(u, j, "xnn")
           /\ "xnn" = "qp" => u[j + 1] \in Printable
           => (W[<<i, j>>] <=> /\ i < Len(t) /\ t[i + 1] = u[j + 1]
                               /\ W[<<i + 1, j + 1>>])
      BY <1>0, <2>1, <2>2, <2>5
    <2>11. j < Len(u) /\ "xnn" = "qp" /\ u[j + 1] = CR =>
             (W[<<i, j>>] <=> W[<<i, j + 1>>])
      BY <1>0, <2>1, <2>2
    <2>12. /\ j < Len(u) /\ ~Escapes(u, j, "xnn")
           /\ "xnn" = "qp" /\ u[j + 1] \notin Printable \cup {CR}
           => ~W[<<i, j>>]
      BY <1>0, <2>1, <2>2, <2>5
    <2> QED
      BY <1>2, <2>3, <2>4, <2>7, <2>8, <2>9, <2>10, <2>11, <2>12, Zenon
  <1> QED
    BY <1>1, <1>2 DEF Encoding


-----------------------------------------------------------------------------
(***************************************************************************)
(* That the decoder finds the name a line is a way to write.  A line that  *)
(* is read to its line feed, and fits, is a way to write the name t if     *)
(* and only if t begins with what has been decoded, and what is still to   *)
(* be decoded is a way to write the rest of t.                             *)
(***************************************************************************)
Whole == line.ended /\ Len(line.text) < Sz

\* While it is read: what has been read is in the buffer.
ReadSoFar ==
    pc = "read" =>
        /\ pos = len
        /\ \A k \in 0..len - 1 : buf[k] = line.text[k + 1]

\* Only a whole line has been read without an error, and every whole line has.
WholeLine ==
    pc # "read" =>
        /\ rv = 0 => Whole
        /\ Whole => /\ last = Len(Text)
                    /\ \A k \in 0..last - 1 : str[k] = Text[k + 1]
                    /\ pc = "decode" => rv = 0

\* A name begins with what has been decoded.
Begins(t) == len <= Len(t) /\ \A k \in 1..len : t[k] = buf[k - 1]

\* While it is decoded.
RestWritten ==
    pc = "decode" /\ Whole =>
        \A t \in Seq(Value) :
            Codes(t, Text, line.enc) <=>
                Begins(t) /\ Written(t, Text, line.enc)[<<len, s>>]

\* What has been decoded is the only string the line is a way to write, and a
\* whole line that is refused is a way to write none; the reader returns it up
\* to its first NUL.
OnlyDecoded ==
    pc = "done" =>
        /\ buf[len] = NUL /\ rlen = StrLen(buf)
        /\ Whole => \A t \in Seq(Value) :
                      Codes(t, Text, line.enc) <=> rv = 0 /\ t = Decoded

MeantInv == DecodeInv /\ ReadSoFar /\ WholeLine /\ RestWritten /\ OnlyDecoded

\* The line without the CR of its CR LF.
LEMMA TextFacts ==
    ASSUME line \in Line
    PROVE  /\ Text \in Seq(Char) /\ Len(Text) \in Nat /\ Len(line.text) \in Nat
           /\ Len(Text) <= Len(line.text)
           /\ \A k \in 1..Len(Text) : Text[k] = line.text[k] /\ Text[k] \in Char
           /\ Len(Text) = IF /\ Len(line.text) # 0
                             /\ line.text[Len(line.text)] = CR
                          THEN Len(line.text) - 1 ELSE Len(line.text)
  <1> DEFINE u == line.text
             n == Len(u) - 1
  <1>1. u \in Seq(Char) /\ Len(u) \in Nat /\ (u = << >> <=> Len(u) = 0)
    BY LenProperties, EmptySeq DEF Line
  <1>2. \A k \in 1..Len(u) : u[k] \in Char
    BY <1>1, ElementOfSeq
  <1>3. CASE Len(u) # 0 /\ u[Len(u)] = CR
    <2>1. Text = SubSeq(u, 1, n)
      BY <1>1, <1>3 DEF Text
    <2>2. n \in Nat /\ \A k \in 1..n : u[k] \in Char
      BY <1>1, <1>2, <1>3
    <2> HIDE DEF n
    <2>3. /\ SubSeq(u, 1, n) \in Seq(Char)
          /\ Len(SubSeq(u, 1, n)) = IF 1 <= n THEN n - 1 + 1 ELSE 0
          /\ \A k \in 1..n - 1 + 1 : SubSeq(u, 1, n)[k] = u[1 + k - 1]
      BY <1>1, <2>2, SubSeqProperties
    <2>4. /\ Text \in Seq(Char) /\ Len(Text) = n
          /\ \A k \in 1..n : Text[k] = u[k]
      BY <2>1, <2>2, <2>3
    <2> QED
      BY <1>1, <1>3, <2>2, <2>4 DEF n
  <1>4. CASE ~(Len(u) # 0 /\ u[Len(u)] = CR)
    <2>1. Text = u
      BY <1>1, <1>4 DEF Text
    <2> QED
      BY <1>1, <1>2, <1>4, <2>1
  <1> QED
    BY <1>3, <1>4

\* What the decoder still has to read is what the line says.
LEMMA SourceIsText ==
    ASSUME MeantInv, pc = "decode", Whole
    PROVE  /\ line \in Line /\ line.enc \in Encoding
           /\ Text \in Seq(Char) /\ Len(Text) \in Nat /\ Len(Text) = last
           /\ s \in 0..Len(Text) /\ len \in Nat /\ len <= s /\ s \in Nat
           /\ \A k \in s..Len(Text) - 1 : buf[k] = Text[k + 1]
           /\ buf[Len(Text)] = NUL
  <1>1. line \in Line /\ line.enc \in Encoding
    BY DEF MeantInv, DecodeInv, DecTypeOK, Line
  <1>2. /\ Text \in Seq(Char) /\ Len(Text) \in Nat /\ Len(Text) = last
        /\ \A k \in 0..last - 1 : str[k] = Text[k + 1]
    BY <1>1, TextFacts DEF MeantInv, WholeLine
  <1>3. /\ s \in 0..last /\ len \in Nat /\ len <= s /\ s \in Nat
        /\ \A k \in s..last : buf[k] = str[k]
        /\ str[last] = NUL
    BY DecodeAssumption DEF MeantInv, DecodeInv, DecTypeOK, UnreadIntact, Index
  <1> QED
    BY <1>1, <1>2, <1>3

\* What the decoder sees at its source index is what the line has there.
LEMMA SourceSeen ==
    ASSUME MeantInv, pc = "decode", Whole
    PROVE  /\ buf[s] = NUL <=> s = Len(Text)
           /\ s < Len(Text) => buf[s] = Text[s + 1]
           /\ Escape <=> Escapes(Text, s, line.enc)
           /\ First(s, line.enc) = Digit1 + 1
           /\ Escape => (Hexes <=> Digits(Text, s, line.enc))
           /\ Escape /\ Hexes => /\ buf[Digit1] = Text[Digit1 + 1]
                                 /\ buf[Digit1 + 1] = Text[Digit1 + 2]
  <1> DEFINE u == Text
             L == Len(Text)
  <1>1. /\ L \in Nat /\ s \in Nat /\ s <= L
        /\ \A k \in s..L - 1 : buf[k] = u[k + 1]
        /\ buf[L] = NUL
    BY SourceIsText
  <1>2. \A k \in s..L - 1 : buf[k] # NUL
    <2>1. \A k \in 1..L : u[k] \in Char
      BY SourceIsText, TextFacts
    <2> QED
      BY <1>1, <2>1, DecodeAssumption
  <1>3. \A k \in s..L : \A c \in Char : buf[k] = c <=> k < L /\ u[k + 1] = c
    BY <1>1, <1>2, DecodeAssumption
  <1>4. /\ CR \in Char /\ EqualSign \in Char /\ Backslash \in Char
        /\ LetterX \in Char /\ Hex \subseteq Char
    BY DecodeAssumption
  <1> HIDE DEF u, L
  <1>5. Escape <=> Escapes(Text, s, line.enc)
    <2>1. CASE Qp
      BY <1>1, <1>3, <1>4, <2>1 DEF Escape, Escapes, Qp, u, L
    <2>2. CASE ~Qp
      <3>1. buf[s] = Backslash <=> s < L /\ u[s + 1] = Backslash
        BY <1>1, <1>3, <1>4
      <3>2. s < L => (buf[s + 1] = LetterX <=> s + 1 < L /\ u[s + 2] = LetterX)
        BY <1>1, <1>3, <1>4
      <3>3. (s + 2 <= L <=> s + 1 < L) /\ (s + 1 < L => s < L)
        BY <1>1
      <3>4. Escape <=> buf[s] = Backslash /\ buf[s + 1] = LetterX
        BY <2>2, Zenon DEF Escape
      <3>5. Escapes(Text, s, line.enc) <=>
              s + 2 <= L /\ u[s + 1] = Backslash /\ u[s + 2] = LetterX
        BY <2>2, Zenon DEF Escapes, Qp, u, L
      <3> QED
        BY <3>1, <3>2, <3>3, <3>4, <3>5, Zenon
    <2> QED
      BY <2>1, <2>2
  <1>6. First(s, line.enc) = Digit1 + 1
    BY <1>1 DEF First, Digit1, Qp
  <1>7. ASSUME Escape PROVE Digit1 \in s..L
    BY <1>1, <1>5, <1>7 DEF Escapes, Digit1, Qp, L
  <1>8. ASSUME Escape PROVE Hexes <=> Digits(Text, s, line.enc)
    <2>1. buf[Digit1] \in Hex <=> Digit1 < L /\ u[Digit1 + 1] \in Hex
      BY <1>1, <1>3, <1>4, <1>7, <1>8
    <2>2. Digit1 < L => (buf[Digit1 + 1] \in Hex <=>
                           Digit1 + 1 < L /\ u[Digit1 + 2] \in Hex)
      BY <1>1, <1>3, <1>4, <1>7, <1>8
    <2>3. Digits(Text, s, line.enc) <=>
            Digit1 + 1 < L /\ u[Digit1 + 1] \in Hex /\ u[Digit1 + 2] \in Hex
      BY <1>1, <1>6, <1>7, <1>8 DEF Digits, u, L
    <2> QED
      BY <1>1, <1>7, <1>8, <2>1, <2>2, <2>3 DEF Hexes
  <1>9. ASSUME Escape, Hexes
        PROVE  buf[Digit1] = u[Digit1 + 1] /\ buf[Digit1 + 1] = u[Digit1 + 2]
    <2>1. Digit1 + 1 < L
      BY <1>1, <1>6, <1>7, <1>8, <1>9 DEF Digits, L
    <2> QED
      BY <1>1, <1>7, <1>9, <2>1
  <1>10. (buf[s] = NUL <=> s = L) /\ (s < L => buf[s] = u[s + 1])
    BY <1>1, <1>2
  <1> QED
    BY <1>5, <1>6, <1>8, <1>9, <1>10 DEF u, L


\* The line stays what it is, and so does what it says.
LEMMA LineStays ==
    ASSUME line' = line
    PROVE  Text' = Text /\ (Whole' <=> Whole) /\ (line.enc)' = line.enc
  BY DEF Text, Whole

\* Nothing has been read at first.
LEMMA InitMeant == ReadInit => MeantInv
  <1> SUFFICES ASSUME ReadInit PROVE MeantInv
    OBVIOUS
  <1>1. DecodeInv
    BY InitKeeps
  <1>2. pc = "read" /\ pos = 0 /\ len = 0 /\ pc # "decode" /\ pc # "done"
    BY DEF ReadInit
  <1> QED
    BY <1>1, <1>2 DEF MeantInv, ReadSoFar, WholeLine, RestWritten, OnlyDecoded

\* One char is read.
LEMMA ReadCharMeant ==
    ASSUME MeantInv, DecodeInv', ReadChar
    PROVE  MeantInv'
  <1>1. /\ pc = "read" /\ pc' = "read" /\ line' = line
        /\ len' = len + 1 /\ pos' = pos + 1 /\ len < Sz
        /\ buf' = [buf EXCEPT ![len] = line.text[pos + 1]]
    BY DEF ReadChar
  <1>2. len \in Nat /\ len \in Index /\ buf \in [Index -> Value]
    BY <1>1, DecodeAssumption DEF MeantInv, DecodeInv, DecTypeOK, Index
  <1>3. pos = len /\ \A k \in 0..len - 1 : buf[k] = line.text[k + 1]
    BY <1>1 DEF MeantInv, ReadSoFar
  <1>4. \A k \in 0..len : buf'[k] = line.text[k + 1]
    BY <1>1, <1>2, <1>3 DEF Index
  <1>5. ReadSoFar'
    BY <1>1, <1>2, <1>3, <1>4 DEF ReadSoFar
  <1>6. WholeLine' /\ RestWritten' /\ OnlyDecoded'
    BY <1>1 DEF WholeLine, RestWritten, OnlyDecoded
  <1> QED
    BY <1>5, <1>6 DEF MeantInv

\* The decoder is called: nothing has been decoded, all is still to be.
LEMMA DecodeMeant ==
    ASSUME MeantInv, DecodeInv', NEW n \in Index, NEW r, Decode(n, r),
           r = 0 => Whole,
           Whole => /\ r = 0 /\ n = Len(Text)
                    /\ \A k \in 0..n - 1 : buf[k] = Text[k + 1]
    PROVE  MeantInv'
  <1>1. /\ pc' = "decode" /\ line' = line /\ len' = 0 /\ s' = 0 /\ rv' = r
        /\ last' = n /\ str' = [buf EXCEPT ![n] = NUL]
    BY DEF Decode, lineVars
  <1>2. buf \in [Index -> Value] /\ \A k \in 0..n - 1 : k \in Index /\ k # n
    BY DecodeAssumption DEF MeantInv, DecodeInv, DecTypeOK, Index
  <1>3. Text' = Text /\ (Whole' <=> Whole) /\ (line.enc)' = line.enc
    BY <1>1, LineStays
  <1>4. WholeLine'
    BY <1>1, <1>2, <1>3 DEF WholeLine
  <1>5. RestWritten'
    <2> SUFFICES ASSUME NEW t \in Seq(Value)
                 PROVE  Codes(t, Text', line'.enc) <=>
                          Begins(t)' /\ Written(t, Text', line'.enc)[<<0, 0>>]
      BY <1>1 DEF RestWritten
    <2>1. Begins(t)'
      BY <1>1, LenProperties DEF Begins
    <2> QED
      BY <2>1 DEF Codes
  <1>6. ReadSoFar' /\ OnlyDecoded'
    BY <1>1 DEF ReadSoFar, OnlyDecoded
  <1> QED
    BY <1>4, <1>5, <1>6 DEF MeantInv

\* A round that decodes one byte, provided that the line has it there.
LEMMA WriteMeant ==
    ASSUME MeantInv, DecodeInv', pc = "decode", NEW c, NEW n, Write(c, n),
           Whole => \A t \in Seq(Value) :
             Begins(t) => (Written(t, Text, line.enc)[<<len, s>>] <=>
                             /\ len < Len(t) /\ t[len + 1] = c
                             /\ Written(t, Text, line.enc)[<<len + 1, n>>])
    PROVE  MeantInv'
  <1>1. /\ pc' = "decode" /\ line' = line /\ len' = len + 1 /\ s' = n
        /\ rv' = rv /\ last' = last /\ str' = str
        /\ buf' = [buf EXCEPT ![len] = c]
    BY DEF Write, lineVars
  <1>2. buf \in [Index -> Value] /\ len \in Nat /\ len \in Index
    BY DecodeAssumption DEF MeantInv, DecodeInv, DecTypeOK, Index
  <1>3. Text' = Text /\ (Whole' <=> Whole) /\ (line.enc)' = line.enc
    BY <1>1, LineStays
  <1>4. WholeLine'
    BY <1>1, <1>3 DEF MeantInv, WholeLine
  <1>5. RestWritten'
    <2> SUFFICES ASSUME Whole, NEW t \in Seq(Value)
                 PROVE  Codes(t, Text, line.enc) <=>
                          /\ Begins(t)'
                          /\ Written(t, Text, line.enc)[<<len + 1, n>>]
      BY <1>1, <1>3 DEF RestWritten
    <2>1. Codes(t, Text, line.enc) <=>
            Begins(t) /\ Written(t, Text, line.enc)[<<len, s>>]
      BY DEF MeantInv, RestWritten
    <2>2. Begins(t)' <=> Begins(t) /\ len < Len(t) /\ t[len + 1] = c
      <3>1. buf'[len] = c /\ \A k \in 1..len : buf'[k - 1] = buf[k - 1]
        BY <1>1, <1>2 DEF Index
      <3>2. Len(t) \in Nat
        BY LenProperties
      <3>3. \A k : k \in 1..len + 1 <=> k \in 1..len \/ k = len + 1
        BY <1>2
      <3>4. (len + 1) - 1 = len /\ (len + 1 <= Len(t) <=> len < Len(t))
        BY <1>2, <3>2
      <3>5. len < Len(t) => len <= Len(t)
        BY <1>2, <3>2
      <3>6. Begins(t)' <=> /\ len + 1 <= Len(t)
                           /\ \A k \in 1..len + 1 : t[k] = buf'[k - 1]
        BY <1>1 DEF Begins
      <3>7. (\A k \in 1..len + 1 : t[k] = buf'[k - 1]) <=>
              (\A k \in 1..len : t[k] = buf[k - 1]) /\ t[len + 1] = c
        BY <3>1, <3>3, <3>4
      <3> QED
        BY <3>4, <3>5, <3>6, <3>7 DEF Begins
    <2> QED
      BY <2>1, <2>2
  <1>6. ReadSoFar' /\ OnlyDecoded'
    BY <1>1 DEF ReadSoFar, OnlyDecoded
  <1> QED
    BY <1>4, <1>5, <1>6 DEF MeantInv

\* The decoder ends, with success where the line ends and with an error where
\* nothing can be written as it goes on.
LEMMA FinishMeant ==
    ASSUME MeantInv, DecodeInv', pc = "decode", NEW r, Finish(r),
           r = 0 => rv = 0,
           Whole => \A t \in Seq(Value) :
             Begins(t) => (Written(t, Text, line.enc)[<<len, s>>] <=>
                             r = 0 /\ len = Len(t))
    PROVE  MeantInv'
  <1>1. /\ pc' = "done" /\ line' = line /\ len' = len /\ s' = s
        /\ rv' = r /\ last' = last /\ str' = str
        /\ buf' = [buf EXCEPT ![len] = NUL] /\ rlen' = StrLen(buf')
    BY DEF Finish, Return, lineVars
  <1>2. buf \in [Index -> Value] /\ len \in Nat /\ len \in Index
    BY DecodeAssumption DEF MeantInv, DecodeInv, DecTypeOK, Index
  <1>3. Text' = Text /\ (Whole' <=> Whole) /\ (line.enc)' = line.enc
    BY <1>1, LineStays
  <1>4. WholeLine'
    BY <1>1, <1>3 DEF MeantInv, WholeLine
  <1>5. OnlyDecoded'
    <2>1. buf'[len] = NUL /\ \A k \in 1..len : buf'[k - 1] = buf[k - 1]
      BY <1>1, <1>2 DEF Index
    <2>2. ASSUME Whole, NEW t \in Seq(Value)
          PROVE  Codes(t, Text, line.enc) <=> r = 0 /\ t = Decoded'
      <3>1. Codes(t, Text, line.enc) <=>
              Begins(t) /\ Written(t, Text, line.enc)[<<len, s>>]
        BY <2>2 DEF MeantInv, RestWritten
      <3>2. Codes(t, Text, line.enc) <=> Begins(t) /\ r = 0 /\ len = Len(t)
        BY <2>2, <3>1
      <3>3. Decoded' = [k \in 1..len |-> buf[k - 1]]
        BY <1>1, <2>1 DEF Decoded
      <3>4. t \in [1..Len(t) -> Value] /\ Len(t) \in Nat
        BY LenProperties
      <3>5. ASSUME Begins(t), len = Len(t) PROVE t = Decoded'
        BY <3>3, <3>4, <3>5 DEF Begins
      <3>6. ASSUME t = Decoded' PROVE Begins(t) /\ len = Len(t)
        <4>1. DOMAIN t = 1..len
          BY <3>3, <3>6
        <4>2. 1..len = 1..Len(t)
          BY <3>4, <4>1
        <4>3. len = Len(t)
          <5>1. len \in 1..len <=> len \in 1..Len(t)
            BY <4>2
          <5>2. Len(t) \in 1..len <=> Len(t) \in 1..Len(t)
            BY <4>2
          <5>3. Len(t) \in Nat
            BY <3>4
          <5> QED
            BY <1>2, <5>1, <5>2, <5>3
        <4>4. \A k \in 1..len : t[k] = buf[k - 1]
          BY <3>3, <3>6
        <4> QED
          BY <1>2, <3>4, <4>3, <4>4 DEF Begins
      <3> QED
        BY <3>2, <3>5, <3>6
    <2> QED
      BY <1>1, <1>3, <2>1, <2>2 DEF OnlyDecoded
  <1>6. ReadSoFar' /\ RestWritten'
    BY <1>1 DEF ReadSoFar, RestWritten
  <1> QED
    BY <1>4, <1>5, <1>6 DEF MeantInv


\* What the next round has to do with what the line says.
LEMMA StepWritten ==
    ASSUME MeantInv, pc = "decode", Whole, NEW t \in Seq(Value), Begins(t)
    PROVE  /\ s = Len(Text) =>
                (Written(t, Text, line.enc)[<<len, s>>] <=> len = Len(t))
           /\ Escapes(Text, s, line.enc) /\ Digits(Text, s, line.enc) =>
                (Written(t, Text, line.enc)[<<len, s>>] <=>
                   /\ len < Len(t)
                   /\ t[len + 1] = Byte[<<Text[First(s, line.enc)],
                                          Text[First(s, line.enc) + 1]>>]
                   /\ Written(t, Text, line.enc)
                        [<<len + 1, First(s, line.enc) + 1>>])
           /\ Escapes(Text, s, line.enc) /\ ~Digits(Text, s, line.enc) =>
                ~Written(t, Text, line.enc)[<<len, s>>]
           /\ /\ s < Len(Text) /\ ~Escapes(Text, s, line.enc)
              /\ line.enc = "qp" => Text[s + 1] \in Printable
              => (Written(t, Text, line.enc)[<<len, s>>] <=>
                    /\ len < Len(t) /\ t[len + 1] = Text[s + 1]
                    /\ Written(t, Text, line.enc)[<<len + 1, s + 1>>])
           /\ s < Len(Text) /\ line.enc = "qp" /\ Text[s + 1] = CR =>
                (Written(t, Text, line.enc)[<<len, s>>] <=>
                   Written(t, Text, line.enc)[<<len, s + 1>>])
           /\ /\ s < Len(Text) /\ ~Escapes(Text, s, line.enc)
              /\ line.enc = "qp" /\ Text[s + 1] \notin Printable \cup {CR}
              => ~Written(t, Text, line.enc)[<<len, s>>]
  <1>1. Len(t) \in Nat /\ len <= Len(t)
    BY LenProperties DEF Begins
  <1>2. /\ Len(t) \in Nat /\ len \in 0..Len(t) /\ s \in 0..Len(Text)
        /\ Text \in Seq(Char) /\ line.enc \in Encoding
    BY <1>1, SourceIsText
  <1>3. PICK u, e, i, j : u = Text /\ e = line.enc /\ i = len /\ j = s
    OBVIOUS
  <1>4. /\ Len(t) \in Nat /\ i \in 0..Len(t) /\ j \in 0..Len(u)
        /\ u \in Seq(Char) /\ e \in Encoding
    BY <1>2, <1>3
  <1>5. /\ j = Len(u) => (Written(t, u, e)[<<i, j>>] <=> i = Len(t))
        /\ Escapes(u, j, e) /\ Digits(u, j, e) =>
             (Written(t, u, e)[<<i, j>>] <=>
                /\ i < Len(t)
                /\ t[i + 1] = Byte[<<u[First(j, e)], u[First(j, e) + 1]>>]
                /\ Written(t, u, e)[<<i + 1, First(j, e) + 1>>])
        /\ Escapes(u, j, e) /\ ~Digits(u, j, e) =>
             ~Written(t, u, e)[<<i, j>>]
        /\ /\ j < Len(u) /\ ~Escapes(u, j, e)
           /\ e = "qp" => u[j + 1] \in Printable
           => (Written(t, u, e)[<<i, j>>] <=>
                 /\ i < Len(t) /\ t[i + 1] = u[j + 1]
                 /\ Written(t, u, e)[<<i + 1, j + 1>>])
        /\ j < Len(u) /\ e = "qp" /\ u[j + 1] = CR =>
             (Written(t, u, e)[<<i, j>>] <=>
                Written(t, u, e)[<<i, j + 1>>])
        /\ /\ j < Len(u) /\ ~Escapes(u, j, e)
           /\ e = "qp" /\ u[j + 1] \notin Printable \cup {CR}
           => ~Written(t, u, e)[<<i, j>>]
    BY <1>4, WrittenStep, Zenon
  <1> QED
    BY <1>3, <1>5, Zenon

\* Every step of the reader and of the decoder.
LEMMA NextMeant == MeantInv /\ [DecodeNext]_decodeVars => MeantInv'
  <1> SUFFICES ASSUME MeantInv, [DecodeNext]_decodeVars PROVE MeantInv'
    OBVIOUS
  <1>0. DecodeInv /\ DecodeInv'
    BY NextKeeps DEF MeantInv
  <1>a. line \in Line /\ len \in Nat /\ s \in Nat /\ Sz \in Nat \ {0}
    BY <1>0, DecodeAssumption DEF DecodeInv, DecTypeOK, Index
  <1>b. /\ Text \in Seq(Char) /\ Len(Text) \in Nat /\ Len(line.text) \in Nat
        /\ Len(Text) <= Len(line.text)
        /\ \A k \in 1..Len(Text) : Text[k] = line.text[k] /\ Text[k] \in Char
        /\ Len(Text) = IF /\ Len(line.text) # 0
                          /\ line.text[Len(line.text)] = CR
                       THEN Len(line.text) - 1 ELSE Len(line.text)
    BY <1>a, TextFacts
  <1>c. pc = "decode" /\ Whole => s \in Nat /\ s <= Len(Text)
    BY <1>b, SourceIsText
  <1>1. CASE LineTooLong
    <2>1. Sz - 1 \in Index /\ NameTooLong # 0
      BY <1>a DEF Index, NameTooLong
    <2>2. ~Whole
      <3>1. pos = len /\ pos <= Len(line.text) /\ len >= Sz
        BY <1>0, <1>1, <1>b
        DEF LineTooLong, MeantInv, ReadSoFar, DecodeInv, DecTypeOK
      <3> QED
        BY <1>a, <1>b, <3>1 DEF Whole
    <2> QED
      BY <1>0, <1>1, <2>1, <2>2, DecodeMeant DEF LineTooLong
  <1>2. CASE LineEof
    <2>1. len \in Index /\ EOF # 0
      BY <1>2, <1>a DEF LineEof, Index, EOF
    <2>2. ~Whole
      BY <1>2 DEF LineEof, Whole
    <2> QED
      BY <1>0, <1>2, <2>1, <2>2, DecodeMeant DEF LineEof
  <1>3. CASE LineEnd
    <2>1. /\ pc = "read" /\ len < Sz /\ pos = Len(line.text) /\ line.ended
          /\ Decode(StripCR, 0)
      BY <1>3 DEF LineEnd, AtEnd
    <2>2. pos = len /\ \A k \in 0..len - 1 : buf[k] = line.text[k + 1]
      BY <2>1 DEF MeantInv, ReadSoFar
    <2>3. Whole
      BY <2>1, <2>2 DEF Whole
    <2>4. StripCR = Len(Text)
      <3>1. len # 0 => buf[len - 1] = line.text[len]
        <4>1. len # 0 => len - 1 \in 0..len - 1 /\ (len - 1) + 1 = len
          BY <1>a
        <4> QED
          BY <2>2, <4>1
      <3>2. len = Len(line.text)
        BY <2>1, <2>2
      <3>3. Len(Text) = IF len # 0 /\ buf[len - 1] = CR THEN len - 1 ELSE len
        <4>1. CASE len = 0
          BY <1>b, <3>2, <4>1
        <4>2. CASE len # 0
          BY <1>b, <3>1, <3>2, <4>2
        <4> QED
          BY <4>1, <4>2
      <3> QED
        BY <3>3 DEF StripCR
    <2>5. StripCR \in Index
      <3>1. Len(Text) \in 0..Sz - 1
        BY <1>a, <1>b, <2>1, <2>2
      <3> QED
        BY <2>4, <3>1 DEF Index
    <2>6. \A k \in 0..StripCR - 1 : buf[k] = Text[k + 1]
      <3>1. Len(Text) <= len
        BY <1>b, <2>1, <2>2
      <3>2. \A k \in 0..Len(Text) - 1 :
              k \in 0..len - 1 /\ k + 1 \in 1..Len(Text)
        BY <1>a, <1>b, <3>1
      <3> QED
        BY <1>b, <2>2, <2>4, <3>2
    <2> QED
      BY <1>0, <2>1, <2>3, <2>4, <2>5, <2>6, DecodeMeant
  <1>4. CASE ReadChar
    BY <1>0, <1>4, ReadCharMeant
  <1>5. CASE DecodeEnd
    <2>1. pc = "decode" /\ buf[s] = NUL /\ Finish(rv)
      BY <1>5 DEF DecodeEnd
    <2>2. ASSUME Whole, NEW t \in Seq(Value), Begins(t)
          PROVE  Written(t, Text, line.enc)[<<len, s>>] <=>
                   rv = 0 /\ len = Len(t)
      <3>1. s = Len(Text) /\ rv = 0
        BY <2>1, <2>2, SourceSeen DEF MeantInv, WholeLine
      <3>2. s = Len(Text) =>
              (Written(t, Text, line.enc)[<<len, s>>] <=> len = Len(t))
        BY <2>1, <2>2, StepWritten
      <3> QED
        BY <3>1, <3>2
    <2> QED
      BY <1>0, <2>1, <2>2, FinishMeant
  <1>6. CASE DecodeEscape
    <2> DEFINE c == Byte[<<buf[Digit1], buf[Digit1 + 1]>>]
               n == Digit1 + 2
    <2>1. pc = "decode" /\ buf[s] # NUL /\ Escape /\ Hexes /\ Write(c, n)
      BY <1>6 DEF DecodeEscape
    <2>2. ASSUME Whole, NEW t \in Seq(Value), Begins(t)
          PROVE  Written(t, Text, line.enc)[<<len, s>>] <=>
                   /\ len < Len(t) /\ t[len + 1] = c
                   /\ Written(t, Text, line.enc)[<<len + 1, n>>]
      <3> DEFINE d == First(s, line.enc)
      <3>1. Escapes(Text, s, line.enc) /\ Digits(Text, s, line.enc)
        BY <2>1, <2>2, SourceSeen
      <3>2. Written(t, Text, line.enc)[<<len, s>>] <=>
              /\ len < Len(t) /\ t[len + 1] = Byte[<<Text[d], Text[d + 1]>>]
              /\ Written(t, Text, line.enc)[<<len + 1, d + 1>>]
        BY <2>1, <2>2, <3>1, StepWritten
      <3>3. d = Digit1 + 1 /\ d + 1 = n /\ Digit1 + 2 = n
        BY <1>a, <2>1, <2>2, SourceSeen DEF Digit1
      <3>4. buf[Digit1] = Text[d] /\ buf[Digit1 + 1] = Text[d + 1]
        BY <2>1, <2>2, <3>3, SourceSeen
      <3> QED
        BY <3>2, <3>3, <3>4
    <2> HIDE DEF c, n
    <2> QED
      BY <1>0, <2>1, <2>2, WriteMeant
  <1>7. CASE DecodePlain
    <2>1. /\ pc = "decode" /\ buf[s] # NUL /\ ~Escape /\ Write(buf[s], s + 1)
          /\ line.enc = "qp" => buf[s] \in Printable
      BY <1>7 DEF DecodePlain, Qp
    <2>2. ASSUME Whole, NEW t \in Seq(Value), Begins(t)
          PROVE  Written(t, Text, line.enc)[<<len, s>>] <=>
                   /\ len < Len(t) /\ t[len + 1] = buf[s]
                   /\ Written(t, Text, line.enc)[<<len + 1, s + 1>>]
      <3>1. ~Escapes(Text, s, line.enc) /\ s # Len(Text)
        BY <2>1, <2>2, SourceSeen
      <3>2. s < Len(Text)
        BY <1>b, <1>c, <2>1, <2>2, <3>1
      <3>3. buf[s] = Text[s + 1]
        BY <2>1, <2>2, <3>2, SourceSeen
      <3>4. line.enc = "qp" => Text[s + 1] \in Printable
        BY <2>1, <3>3
      <3>5. Written(t, Text, line.enc)[<<len, s>>] <=>
              /\ len < Len(t) /\ t[len + 1] = Text[s + 1]
              /\ Written(t, Text, line.enc)[<<len + 1, s + 1>>]
        BY <2>1, <2>2, <3>1, <3>2, <3>4, StepWritten
      <3> QED
        BY <3>3, <3>5
    <2> QED
      BY <1>0, <2>1, <2>2, WriteMeant
  <1>8. CASE DecodeSkip
    <2>1. /\ pc = "decode" /\ line.enc = "qp" /\ buf[s] = CR /\ ~Escape
          /\ s' = s + 1
          /\ UNCHANGED <<line, pc, buf, len, rv, rlen, str, last>>
      BY <1>8 DEF DecodeSkip, Qp, lineVars
    <2>2. ASSUME Whole, NEW t \in Seq(Value), Begins(t)
          PROVE  Written(t, Text, line.enc)[<<len, s>>] <=>
                   Written(t, Text, line.enc)[<<len, s + 1>>]
      <3>1. s # Len(Text)
        BY <2>1, <2>2, SourceSeen, DecodeAssumption
      <3>2. s < Len(Text)
        BY <1>b, <1>c, <2>1, <2>2, <3>1
      <3>3. Text[s + 1] = CR
        BY <2>1, <2>2, <3>2, SourceSeen
      <3> QED
        BY <2>1, <2>2, <3>2, <3>3, StepWritten
    <2>3. Text' = Text /\ (Whole' <=> Whole) /\ (line.enc)' = line.enc
      BY <2>1, LineStays
    <2>4. \A t : Begins(t)' <=> Begins(t)
      BY <2>1 DEF Begins
    <2>5. WholeLine'
      BY <2>1, <2>3 DEF MeantInv, WholeLine
    <2>6. RestWritten'
      <3> SUFFICES ASSUME Whole, NEW t \in Seq(Value)
                   PROVE  Codes(t, Text, line.enc) <=>
                            /\ Begins(t)
                            /\ Written(t, Text, line.enc)[<<len, s + 1>>]
        BY <2>1, <2>3, <2>4 DEF RestWritten
      <3>1. Codes(t, Text, line.enc) <=>
              Begins(t) /\ Written(t, Text, line.enc)[<<len, s>>]
        BY <2>1 DEF MeantInv, RestWritten
      <3> QED
        BY <2>2, <3>1
    <2>7. ReadSoFar' /\ OnlyDecoded'
      BY <2>1 DEF ReadSoFar, OnlyDecoded
    <2> QED
      BY <1>0, <2>5, <2>6, <2>7 DEF MeantInv
  <1>9. CASE DecodeError
    <2>1. /\ pc = "decode" /\ buf[s] # NUL /\ Finish(EOF)
          /\ \/ Escape /\ ~Hexes
             \/ ~Escape /\ line.enc = "qp" /\ buf[s] \notin Printable \cup {CR}
      BY <1>9 DEF DecodeError, Qp
    <2>2. ASSUME Whole, NEW t \in Seq(Value), Begins(t)
          PROVE  ~Written(t, Text, line.enc)[<<len, s>>]
      <3>1. s # Len(Text)
        BY <2>1, <2>2, SourceSeen
      <3>2. s < Len(Text)
        BY <1>b, <1>c, <2>1, <2>2, <3>1
      <3>3. CASE Escape /\ ~Hexes
        <4>1. Escapes(Text, s, line.enc) /\ ~Digits(Text, s, line.enc)
          BY <2>1, <2>2, <3>3, SourceSeen
        <4> QED
          BY <2>1, <2>2, <4>1, StepWritten
      <3>4. CASE ~Escape /\ line.enc = "qp" /\ buf[s] \notin Printable \cup {CR}
        <4>1. /\ ~Escapes(Text, s, line.enc)
              /\ Text[s + 1] \notin Printable \cup {CR}
          BY <2>1, <2>2, <3>2, <3>4, SourceSeen
        <4> QED
          BY <2>1, <2>2, <3>2, <3>4, <4>1, StepWritten
      <3> QED
        BY <2>1, <3>3, <3>4
    <2>3. EOF # 0
      BY DEF EOF
    <2> QED
      BY <1>0, <2>1, <2>2, <2>3, FinishMeant
  <1>10. CASE UNCHANGED decodeVars
    BY <1>0, <1>10
    DEF decodeVars, MeantInv, ReadSoFar, WholeLine, RestWritten, OnlyDecoded,
        Whole, Text, Begins, Decoded
  <1> QED
    BY <1>1, <1>2, <1>3, <1>4, <1>5, <1>6, <1>7, <1>8, <1>9, <1>10
    DEF DecodeNext

\* The strengthened invariant holds of get_filename_qp and get_filename_xnn.
LEMMA MeantKept == DecodeSpec => []MeantInv
  BY InitMeant, NextMeant, PTL DEF DecodeSpec

\* Each name the reader returns is what it has decoded, up to a NUL.
LEMMA NameFacts ==
    ASSUME MeantInv, pc = "done"
    PROVE  Name = CString(Decoded) /\ Decoded \in Seq(Value)
  <1> DEFINE nuls == {k \in DOMAIN Decoded : Decoded[k] = NUL} \cup {len + 1}
  <1>1. /\ len \in Nat /\ len \in Index /\ buf \in [Index -> Value]
        /\ 0..len \subseteq Index /\ buf[len] = NUL /\ rlen = StrLen(buf)
    BY DecodeAssumption
    DEF MeantInv, DecodeInv, DecTypeOK, OnlyDecoded, Index
  <1>2. \A k \in 1..len : k - 1 \in Index /\ buf[k - 1] \in Value
    BY <1>1, DecodeAssumption DEF Index
  <1>3. Decoded \in [1..len -> Value] /\ \A k \in 1..len : Decoded[k] = buf[k - 1]
    BY <1>2 DEF Decoded
  <1>4. Decoded \in Seq(Value) /\ Len(Decoded) = len
    BY <1>1, <1>3
  <1>5. /\ rlen \in Index /\ rlen \in Nat /\ buf[rlen] = NUL
        /\ \A k \in Index : buf[k] = NUL => rlen <= k
    BY <1>1, StrLenFacts, DecodeAssumption DEF Index
  <1>6. rlen <= len
    BY <1>1, <1>5
  <1>7. rlen + 1 \in nuls
    <2>1. CASE rlen = len
      BY <2>1
    <2>2. CASE rlen # len
      <3>1. rlen + 1 \in 1..len /\ (rlen + 1) - 1 = rlen
        BY <1>1, <1>5, <1>6, <2>2
      <3>2. Decoded[rlen + 1] = NUL
        BY <1>3, <1>5, <3>1
      <3> QED
        BY <1>3, <3>1, <3>2
    <2> QED
      BY <2>1, <2>2
  <1>8. \A k \in nuls : k \in Nat /\ rlen + 1 <= k
    <2>1. ASSUME NEW k \in 1..len, Decoded[k] = NUL
          PROVE  k \in Nat /\ rlen + 1 <= k
      <3>1. buf[k - 1] = NUL /\ k - 1 \in Index
        BY <1>2, <1>3, <2>1
      <3>2. rlen <= k - 1
        BY <1>5, <3>1
      <3> QED
        BY <1>1, <1>5, <2>1, <3>2
    <2>2. \A k \in DOMAIN Decoded : k \in 1..len
      BY <1>3
    <2> QED
      BY <1>1, <1>5, <1>6, <2>1, <2>2
  <1>9. Min(nuls) = rlen + 1
    <2>1. Min(nuls) \in nuls /\ \A x \in nuls : Min(nuls) <= x
      BY <1>7, <1>8, MinFacts
    <2> HIDE DEF nuls
    <2> QED
      BY <1>5, <1>7, <1>8, <2>1
  <1>10. CString(Decoded) = SubSeq(Decoded, 1, rlen)
    <2>1. CString(Decoded) = SubSeq(Decoded, 1, Min(nuls) - 1)
      BY <1>4, Zenon DEF CString
    <2>2. (rlen + 1) - 1 = rlen
      BY <1>5
    <2> QED
      BY <1>9, <2>1, <2>2, Zenon
  <1>11. SubSeq(Decoded, 1, rlen) = [k \in 1..rlen |-> Decoded[k]]
    BY <1>4, <1>5, <1>6, <1>1
  <1>12. \A k \in 1..rlen : Decoded[k] = buf[k - 1]
    BY <1>1, <1>3, <1>5, <1>6
  <1> QED
    BY <1>4, <1>10, <1>11, <1>12 DEF Name

\* A string without a NUL is read to its end.
LEMMA WholeString ==
    ASSUME NEW t \in Seq(Char)
    PROVE  CString(t) = t
  <1>1. Len(t) \in Nat /\ DOMAIN t = 1..Len(t) /\ \A k \in 1..Len(t) : t[k] # NUL
    BY DecodeAssumption, LenProperties, ElementOfSeq
  <1>2. {k \in DOMAIN t : t[k] = NUL} \cup {Len(t) + 1} = {Len(t) + 1}
    BY <1>1
  <1>3. Min({Len(t) + 1}) = Len(t) + 1
    BY <1>1 DEF Min
  <1>4. CString(t) = SubSeq(t, 1, Len(t))
    <2>1. CString(t) = SubSeq(t, 1, (Len(t) + 1) - 1)
      BY <1>2, <1>3, Zenon DEF CString
    <2>2. (Len(t) + 1) - 1 = Len(t)
      BY <1>1
    <2> QED
      BY <2>1, <2>2, Zenon
  <1>5. SubSeq(t, 1, Len(t)) = [k \in 1..Len(t) |-> t[k]]
    BY <1>1
  <1> QED
    BY <1>1, <1>4, <1>5

\* A whole line is accepted if it is a way to write some string, and then the
\* reader returns that string up to its first NUL: a file name, which has none,
\* is returned as it is.
OnlyName ==
    pc = "done" /\ Whole =>
        /\ rv = 0 <=> \E t \in Seq(Value) : Codes(t, Text, line.enc)
        /\ \A t \in Seq(Value) : Codes(t, Text, line.enc) => Name = CString(t)
        /\ \A t \in Seq(Char) : Codes(t, Text, line.enc) => Name = t

\* Whatever whole line is read, it is refused exactly if it is a way to write
\* nothing, and what is returned does not depend on the way the name is written:
\* it is the name, up to the first NUL (get_filename_qp, get_filename_xnn).
THEOREM OnlyNameDecoded == DecodeSpec => []OnlyName
  <1>1. MeantInv => OnlyName
    <2> SUFFICES ASSUME MeantInv, pc = "done", Whole
                 PROVE  OnlyName
      BY DEF OnlyName
    <2>1. Name = CString(Decoded) /\ Decoded \in Seq(Value)
      BY NameFacts
    <2>2. \A t \in Seq(Value) :
            Codes(t, Text, line.enc) <=> rv = 0 /\ t = Decoded
      BY DEF MeantInv, OnlyDecoded
    <2>3. \A t \in Seq(Char) : t \in Seq(Value) /\ CString(t) = t
      <3>1. Char \subseteq Value
        BY DEF Value
      <3> QED
        BY <3>1, WholeString, SeqMonotonic
    <2> QED
      BY <2>1, <2>2, <2>3 DEF OnlyName
  <1> QED
    BY <1>1, MeantKept, PTL

\* A name that is accepted is what the line says, all of it up to a NUL it may
\* write; a whole line that is refused is no name's (get_filename_qp,
\* get_filename_xnn).
THEOREM NamesMeant == DecodeSpec => []NameMeant
  <1>1. MeantInv => NameMeant
    <2> SUFFICES ASSUME MeantInv, pc = "done"
                 PROVE  /\ rv = 0 => /\ Codes(Decoded, Text, line.enc)
                                     /\ Name = CString(Decoded)
                        /\ rv # 0 /\ Whole =>
                             \A t \in Texts : ~Codes(t, Text, line.enc)
      BY DEF NameMeant, Whole
    <2>1. Name = CString(Decoded) /\ Decoded \in Seq(Value)
      BY NameFacts
    <2>2. ASSUME rv = 0
          PROVE  Codes(Decoded, Text, line.enc)
      <3>1. Whole
        BY <2>2 DEF MeantInv, WholeLine
      <3> QED
        BY <2>1, <2>2, <3>1 DEF MeantInv, OnlyDecoded
    <2>3. ASSUME rv # 0, Whole, NEW t \in Texts
          PROVE  ~Codes(t, Text, line.enc)
      <3>1. t \in Seq(Value)
        BY DecodeAssumption
      <3> QED
        BY <2>3, <3>1 DEF MeantInv, OnlyDecoded
    <2> QED
      BY <2>1, <2>2, <2>3
  <1> QED
    BY <1>1, MeantKept, PTL
=============================================================================
