----------------------------- MODULE MmvDecode -----------------------------
(***************************************************************************)
(* get_filename_qp and get_filename_xnn: a line is read into a buffer and  *)
(* decoded in place, source and destination being the same memory.  One    *)
(* line is read here; what a reader does with the names is in MmvScan.     *)
(*                                                                         *)
(* A char is a member of Char; the line feed is not one, for it ends the   *)
(* line.  The buffer holds NULs, too.                                      *)
(***************************************************************************)
EXTENDS Integers, Sequences, FiniteSetsExt

CONSTANTS
    Char, NUL,
    CR, EqualSign, Backslash, LetterX,  \* four of the Chars
    Hex,        \* the hexadecimal digits
    Byte,       \* what two of them stand for
    Printable,  \* isprint, the blank and the tab
    Stale,      \* what an earlier line has left in the buffer
    Sz,         \* capacity of the buffer: MAXPATLEN
    Lines,      \* the lines considered
    Texts       \* the file names considered

Value    == Char \cup {NUL}
Encoding == {"qp", "xnn"}
Index    == 0..Sz - 1

\* A line of the input, and whether a line feed or the end of file follows.
Line == [enc : Encoding, text : Seq(Char), ended : BOOLEAN]

ASSUME DecodeAssumption ==
    /\ NUL \notin Char /\ {CR, EqualSign, Backslash, LetterX} \subseteq Char
    /\ Hex \subseteq Char /\ Byte \in [Hex \X Hex -> Value]
    /\ Printable \subseteq Char \ {CR} /\ Stale \in Value
    /\ EqualSign # CR
    /\ Sz \in Nat \ {0}
    /\ \A l \in Lines : l \in Line
    /\ Texts \subseteq Seq(Value)

VARIABLES
    line,       \* the line that is read
    pc,         \* where the reader is
    pos,        \* how many chars fgetc has returned
    buf,        \* the buffer
    s, len,     \* the decoder's source index, and the length of its result
                \* (before that, of what has been read)
    rv, rlen,   \* the reader's return value, and *rlen
    str, last   \* the buffer before decoding, and the place of its NUL

lineVars   == <<line, pos>>
decodeVars == <<line, pc, pos, buf, s, len, rv, rlen, str, last>>

\* EOF is -1, which is also what stands for "cannot be decoded".
EOF == -1
NameTooLong == -36

ReadInit ==
    /\ line \in Lines /\ pc = "read" /\ pos = 0
    /\ buf = [k \in Index |-> Stale]
    /\ s = 0 /\ len = 0 /\ rv = 0 /\ rlen = 0
    /\ str = buf /\ last = 0
-----------------------------------------------------------------------------
(***************************************************************************)
(* The reader's loop, one action per char.  Whatever ends it, the decoder  *)
(* is called.                                                              *)
(***************************************************************************)
Decode(n, r) ==
    /\ buf' = [buf EXCEPT ![n] = NUL] /\ str' = buf' /\ last' = n
    /\ s' = 0 /\ len' = 0 /\ rv' = r /\ pc' = "decode"
    /\ UNCHANGED <<lineVars, rlen>>

AtEnd == pos = Len(line.text)

\* The buffer is full: tested before the char just read is looked at, so that
\* a name must leave room for the NUL.
LineTooLongOff == pc = "read" /\ len >= Sz /\ Decode(Sz, NameTooLong)
LineTooLong == pc = "read" /\ len >= Sz /\ Decode(Sz - 1, NameTooLong)

LineEof == pc = "read" /\ len < Sz /\ AtEnd /\ ~line.ended /\ Decode(len, EOF)

\* The CR of a CR LF.
StripCR == IF len # 0 /\ buf[len - 1] = CR THEN len - 1 ELSE len

LineEndUnterminated ==
    /\ pc = "read" /\ len < Sz /\ AtEnd /\ line.ended
    /\ str' = buf /\ last' = StripCR
    /\ s' = 0 /\ len' = 0 /\ rv' = 0 /\ pc' = "decode"
    /\ UNCHANGED <<lineVars, buf, rlen>>
LineEnd == pc = "read" /\ len < Sz /\ AtEnd /\ line.ended /\ Decode(StripCR, 0)

ReadChar ==
    /\ pc = "read" /\ len < Sz /\ ~AtEnd
    /\ buf' = [buf EXCEPT ![len] = line.text[pos + 1]]
    /\ len' = len + 1 /\ pos' = pos + 1
    /\ UNCHANGED <<line, pc, s, rv, rlen, str, last>>
-----------------------------------------------------------------------------
(***************************************************************************)
(* qp_decode_str and xnn_decode_str, one action per round of their loop.   *)
(* Their test for a result that does not fit is never true: see            *)
(* UnreadIntact.                                                           *)
(***************************************************************************)
Qp == line.enc = "qp"

\* An escape begins with "=", or with "\x"; a lone "\" stands for itself.
Escape == IF Qp THEN buf[s] = EqualSign
                ELSE buf[s] = Backslash /\ buf[s + 1] = LetterX
Digit1 == IF Qp THEN s + 1 ELSE s + 2

\* The second digit is looked at only if the first is one, and so no NUL.
Hexes == buf[Digit1] \in Hex /\ buf[Digit1 + 1] \in Hex

\* strlen(b).
StrLen(b) == Min({n \in Index : b[n] = NUL})

\* What get_filename_qp and get_filename_xnn do once the decoder has returned:
\* of its length, only the sign is looked at.
Return(r) == rv' = r /\ rlen' = StrLen(buf') /\ pc' = "done"

\* The result ends behind its last char, wherever the source is.
Finish(r) ==
    /\ buf' = [buf EXCEPT ![len] = NUL] /\ Return(r)
    /\ UNCHANGED <<lineVars, s, len, str, last>>

Write(c, n) ==
    /\ buf' = [buf EXCEPT ![len] = c] /\ len' = len + 1 /\ s' = n
    /\ UNCHANGED <<lineVars, pc, rv, rlen, str, last>>

DecodeEnd == pc = "decode" /\ buf[s] = NUL /\ Finish(rv)

DecodeEscapeSwapped ==
    /\ pc = "decode" /\ buf[s] # NUL /\ Escape /\ Hexes
    /\ Write(Byte[<<buf[Digit1 + 1], buf[Digit1]>>], Digit1 + 2)
DecodeEscape ==
    /\ pc = "decode" /\ buf[s] # NUL /\ Escape /\ Hexes
    /\ Write(Byte[<<buf[Digit1], buf[Digit1 + 1]>>], Digit1 + 2)

DecodePlain ==
    /\ pc = "decode" /\ buf[s] # NUL /\ ~Escape
    /\ Qp => buf[s] \in Printable
    /\ Write(buf[s], s + 1)

\* A CR in the middle of a line.
DecodeSkip ==
    /\ pc = "decode" /\ Qp /\ buf[s] = CR /\ ~Escape
    /\ s' = s + 1
    /\ UNCHANGED <<lineVars, pc, buf, len, rv, rlen, str, last>>

\* The reader turns every error of the decoder into -1, also after its own.
DecodeError ==
    /\ pc = "decode" /\ buf[s] # NUL
    /\ IF Escape THEN ~Hexes ELSE Qp /\ buf[s] \notin Printable \cup {CR}
    /\ Finish(EOF)

DecodeNext ==
    \/ LineTooLong \/ LineEof \/ LineEnd \/ ReadChar
    \/ DecodeEnd \/ DecodeEscape \/ DecodePlain \/ DecodeSkip \/ DecodeError

DecodeSpec == ReadInit /\ [][DecodeNext]_decodeVars
-----------------------------------------------------------------------------
(***************************************************************************)
(* Properties.                                                             *)
(***************************************************************************)

\* The types of the reader's variables; no index leaves the buffer.
DecTypeOK ==
    /\ line \in Line /\ pc \in {"read", "decode", "done"}
    /\ pos \in 0..Len(line.text)
    /\ buf \in [Index -> Value] /\ str \in [Index -> Value]
    /\ s \in Index /\ last \in Index /\ rlen \in Index
    /\ rv \in {0, EOF, NameTooLong}
    /\ len \in 0..Sz /\ (pc # "read" => len < Sz)

\* "It is safe to qp_decode_str() in place": the result never reaches the part
\* of the line that is still to be read, and the decoder stops at the end of
\* that line, not behind it.
UnreadIntact ==
    pc # "read" => /\ len <= s /\ s <= last
                   /\ pc = "decode" => \A k \in s..last : buf[k] = str[k]

\* The ways to write one byte of a name.
Spellings(c, enc) ==
    LET escape == IF enc = "qp" THEN <<EqualSign>> ELSE <<Backslash, LetterX>>
        plain  == IF enc = "qp" THEN Printable \ {EqualSign} ELSE Char
    IN  {escape \o h : h \in {d \in Hex \X Hex : Byte[d] = c}} \cup
        {<<p>> : p \in {c} \cap plain}

\* w is what line u says behind its first j chars.
Says(u, j, w) == j + Len(w) <= Len(u) /\ SubSeq(u, j + 1, j + Len(w)) = w

\* Line u from its char j on is a way to write the name t from its byte i on: a
\* concatenation of spellings of its bytes, between which qp may break the line;
\* "\x" always begins an escape.
Written(t, u, enc) ==
    LET written[at \in (0..Len(t)) \X (0..Len(u))] ==
          LET i == at[1]
              j == at[2]
          IN  \/ i = Len(t) /\ j = Len(u)
              \/ enc = "qp" /\ Says(u, j, <<CR>>) /\ written[<<i, j + 1>>]
              \/ /\ i < Len(t)
                 /\ \E w \in Spellings(t[i + 1], enc) :
                      /\ Says(u, j, w) /\ written[<<i + 1, j + Len(w)>>]
                      /\ enc = "xnn" /\ w = <<Backslash>> =>
                           ~Says(u, j, <<Backslash, LetterX>>)
    IN  written

Codes(t, u, enc) == Written(t, u, enc)[<<0, 0>>]

\* The line without the CR of its CR LF.
Text == IF line.text # << >> /\ line.text[Len(line.text)] = CR
          THEN SubSeq(line.text, 1, Len(line.text) - 1) ELSE line.text
Decoded == [k \in 1..len |-> buf[k - 1]]

\* The string t, as what reads it up to its NUL sees it.
CString(t) ==
    SubSeq(t, 1, Min({k \in DOMAIN t : t[k] = NUL} \cup {Len(t) + 1}) - 1)

\* The name the reader returns: *rlen bytes of the buffer.
Name == [k \in 1..rlen |-> buf[k - 1]]

\* A name that is accepted is what the line says, all of it, unless the line
\* writes a NUL, where the name ends; a line that is refused is no name's.
NameMeant ==
    pc = "done" =>
        /\ rv = 0 => Codes(Decoded, Text, line.enc) /\ Name = CString(Decoded)
        /\ rv # 0 /\ line.ended /\ Len(line.text) < Sz =>
             \A t \in Texts : ~Codes(t, Text, line.enc)
=============================================================================
