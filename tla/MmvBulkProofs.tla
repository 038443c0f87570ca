---------------------------- MODULE MmvBulkProofs ----------------------------
(***************************************************************************)
(* What follows from the promise of MmvBulk, for any number of files.      *)
(***************************************************************************)
EXTENDS MmvBulk, TLAPS

(***************************************************************************)
(* A file is at one of three places; where it has left its own, the plan   *)
(* says so.  plan only changes while all are at home, so that what has     *)
(* been replaced once stays replaced.                                      *)
(***************************************************************************)
Places == /\ files \subseteq Name /\ to \in [Name -> Name] /\ plan \subseteq files
          /\ where \in [files -> Name \cup {Gone}]

BulkInv == Places /\ Apart /\ OnlyReplaced

\* All files are at home at first.
LEMMA BulkInit ==
  ASSUME NamesApart, Init PROVE BulkInv
BY DEF NamesApart, Init, BulkInv, Places, Apart, OnlyReplaced, AtHome

\* A file that goes to a vacant name, or nowhere, is still apart from the rest.
LEMMA GoingApart ==
  ASSUME Places, Apart, NEW f \in files, NEW n \in Name \cup {Gone}, Goes(f, n),
         n = Gone \/ Vacant(n)
  PROVE  Places' /\ Apart'
<1>1. Places'
  BY DEF Places, Goes, given
<1>2. ASSUME NEW g \in files, NEW h \in files, g # h, where'[g] # Gone
      PROVE  where'[g] # where'[h]
  <2>1. CASE g = f
    BY <1>2, <2>1 DEF Places, Goes, Vacant
  <2>2. CASE h = f
    BY <1>2, <2>2 DEF Places, Goes, Vacant
  <2>3. CASE g # f /\ h # f
    BY <1>2, <2>3 DEF Places, Goes, Apart
  <2>4. QED BY <2>1, <2>2, <2>3
<1>3. QED BY <1>1, <1>2 DEF Apart, Goes, given

\* A file that goes nowhere is one the plan replaces, and it stays one.
LEMMA GoingReplaced ==
  ASSUME Places, OnlyReplaced, NEW f \in files, NEW n, Goes(f, n),
         n = Gone => Replaced(f)
  PROVE  OnlyReplaced'
<1>1. ASSUME NEW g \in files, where'[g] = Gone
      PROVE  Replaced(g)
  <2>1. CASE g = f
    BY <1>1, <2>1 DEF Places, Goes
  <2>2. CASE g # f
    BY <1>1, <2>2 DEF Places, Goes, OnlyReplaced
  <2>3. QED BY <2>1, <2>2
<1>2. QED BY <1>1 DEF OnlyReplaced, Replaced, Goes, given

\* Every step of the promise, one case each.
LEMMA BulkStep ==
  ASSUME NamesApart, BulkInv, [Next]_bulkVars
  PROVE  BulkInv'
<1>1. CASE Refuse
  <2>1. \A f \in files : where[f] # Gone
    BY <1>1 DEF NamesApart, Refuse, AtHome, BulkInv, Places
  <2>2. QED
    BY <1>1, <2>1 DEF Refuse, given, BulkInv, Places, Apart, OnlyReplaced
<1>2. CASE Finish
  BY <1>2 DEF Finish, given, BulkInv, Places, Apart, OnlyReplaced, Replaced
<1>3. ASSUME NEW f \in files, Delete(f)
      PROVE  BulkInv'
  BY <1>3, GoingApart, GoingReplaced DEF Delete, BulkInv
<1>4. ASSUME NEW f \in files, SetAside(f)
      PROVE  BulkInv'
  <2>1. PICK t \in Temps : Vacant(t) /\ Goes(f, t)
    BY <1>4 DEF SetAside
  <2>2. t \in Name /\ t # Gone
    BY DEF NamesApart
  <2>3. QED BY <2>1, <2>2, GoingApart, GoingReplaced DEF BulkInv
<1>5. ASSUME NEW f \in files, Put(f)
      PROVE  BulkInv'
  <2>1. to[f] \in Name /\ to[f] # Gone
    BY <1>5 DEF NamesApart, BulkInv, Places
  <2>2. QED BY <1>5, <2>1, GoingApart, GoingReplaced DEF Put, BulkInv
<1>6. CASE UNCHANGED bulkVars
  BY <1>6 DEF bulkVars, BulkInv, Places, Apart, OnlyReplaced, Replaced
<1>7. QED BY <1>1, <1>2, <1>3, <1>4, <1>5, <1>6 DEF Next

\* Whoever keeps the promise, as mmv_execute does, never brings two files to
\* one name and never deletes a file that the plan does not replace, however
\* many files there are and in whatever order they go.
THEOREM NothingOverwritten ==
  ASSUME NamesApart
  PROVE  Spec => [](Apart /\ OnlyReplaced)
<1>1. BulkInv => Apart /\ OnlyReplaced
  BY DEF BulkInv
<1>2. QED BY <1>1, BulkInit, BulkStep, PTL DEF Spec
=============================================================================
