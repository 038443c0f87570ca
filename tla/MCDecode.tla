------------------------------ MODULE MCDecode ------------------------------
(***************************************************************************)
(* Small instances of MmvDecode.  Two digits write NUL, "=", the backslash *)
(* or "~", which is not printable, as are the other chars but CR.           *)
(***************************************************************************)
EXTENDS MmvDecode

MCChar  == {"=", Backslash, "x", "0", "1", "a", CR, "~"}
MCHex   == {"0", "1"}
MCByte  == [h \in MCHex \X MCHex |->
              CASE h = <<"0", "0">> -> NUL  [] h = <<"0", "1">> -> "="
                [] h = <<"1", "0">> -> Backslash [] h = <<"1", "1">> -> "~"]
MCPrintable == {"=", Backslash, "x", "0", "1", "a"}

Strings(C, n) == UNION {[1..k -> C] : k \in 0..n}

MCTexts == Strings({"=", Backslash, "x", "1", "a", "~"}, 2)

\* All short lines, and longer ones of what escapes are made of: up to two of
\* them, or one that the buffer cuts.
MCLines ==
    {[enc |-> e, text |-> t, ended |-> TRUE] :
        e \in Encoding, t \in Strings(MCChar, 3)} \cup
    {[enc |-> e, text |-> t, ended |-> b] :
        e \in Encoding, t \in Strings({"=", Backslash, "x", "1"}, 4) , b \in BOOLEAN} \cup
    {[enc |-> "qp", text |-> t, ended |-> TRUE] :
        t \in [1..6 -> {"=", "0", "1", CR}]} \cup
    {[enc |-> "xnn", text |-> <<Backslash, "x">> \o t \o u, ended |-> TRUE] :
        t \in [1..2 -> {"0", "1"}], u \in Strings({Backslash, "x", "1", CR}, 4)}
=============================================================================
