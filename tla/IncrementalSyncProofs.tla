------------------------ MODULE IncrementalSyncProofs ------------------------
(* Proof about IncrementalSync, for any number of files and pushes.          *)
EXTENDS IncrementalSync, TLAPS

(* The last commit is never ahead of HEAD in any file, so a push to a file   *)
(* takes it out of what the two have in common; what they have in common is  *)
(* up to date.                                                               *)
IInv ==
    /\ head \in [Files -> Int]
    /\ sha \in [Files -> Int]
    /\ DOMAIN stored = Files
    /\ sha # NoTree => \A f \in Logic :
          /\ sha[f] <= head[f]
          /\ sha[f] = head[f] => UpToDate(f)

\* A push moves one file ahead and leaves the others
LEMMA PushStep ==
    ASSUME Logic \subseteq Files, IInv, NEW f \in Files, Push(f)
    PROVE  IInv'
<1>1. head' = [head EXCEPT ![f] = head[f] + 1] /\ UNCHANGED <<sha, stored>>
  BY DEF Push
<1>2. head' \in [Files -> Int]
  BY <1>1 DEF IInv
<1>3. ASSUME sha # NoTree, NEW g \in Logic
      PROVE  sha[g] <= head'[g] /\ (sha[g] = head'[g] => UpToDate(g)')
  <2>1. sha[g] \in Int /\ head[g] \in Int /\ sha[g] <= head[g]
    BY <1>3 DEF IInv
  <2>2. CASE g = f
    BY <1>1, <2>1, <2>2 DEF IInv
  <2>3. CASE g # f
    BY <1>1, <1>3, <2>1, <2>3 DEF IInv, UpToDate, ContentAt
  <2> QED
    BY <2>2, <2>3
<1> QED
  BY <1>1, <1>2, <1>3 DEF IInv, NoTree

\* Processing a file at HEAD's version, even in part, makes none out of date
LEMMA ProcessStep ==
    ASSUME Logic \subseteq Files, IInv, NEW f \in Logic, Process(f) \/ ProcessPart(f)
    PROVE  IInv'
<1>1. /\ DOMAIN stored' = Files
      /\ stored'[f] \in {{ContentAt(f)}, stored[f] \union {ContentAt(f)}}
      /\ \A g \in Files \ {f} : stored'[g] = stored[g]
      /\ UNCHANGED <<head, sha>>
  BY DEF Process, ProcessPart, IInv
<1>2. ASSUME NEW g \in Logic, UpToDate(g)
      PROVE  UpToDate(g)'
  <2>1. CASE g = f
    BY <1>1, <1>2, <2>1 DEF UpToDate, ContentAt
  <2>2. CASE g # f
    BY <1>1, <1>2, <2>2 DEF UpToDate, ContentAt
  <2> QED
    BY <2>1, <2>2
<1> QED
  BY <1>1, <1>2 DEF IInv, NoTree

(* The diff against last_commit_sha never hides a file whose rules are out   *)
(* of date: a file it leaves out has the rules of its version at HEAD.       *)
THEOREM DiffSuffices ==
    ASSUME Logic \subseteq Files
    PROVE  Spec => []DiffIsEnough
<1>1. Init => IInv
  BY DEF Init, IInv, NoTree
<1>2. IInv /\ [Next]_vars => IInv'
  <2> SUFFICES ASSUME IInv, [Next]_vars PROVE IInv'
    OBVIOUS
  <2>1. CASE \E f \in Files : Push(f)
    BY <2>1, PushStep
  <2>2. CASE \E f \in Logic : Process(f) \/ ProcessPart(f)
    BY <2>2, ProcessStep
  <2>3. CASE Advance
    BY <2>3 DEF Advance, IInv, UpToDate, ContentAt, NoTree
  <2>4. CASE UNCHANGED vars
    BY <2>4 DEF vars, IInv, UpToDate, ContentAt, NoTree
  <2> QED
    BY <2>1, <2>2, <2>3, <2>4 DEF Next
<1>3. IInv => DiffIsEnough
  BY DEF IInv, DiffIsEnough
<1> QED
  BY <1>1, <1>2, <1>3, PTL DEF Spec

=============================================================================
