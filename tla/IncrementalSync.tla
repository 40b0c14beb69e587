--------------------------- MODULE IncrementalSync ---------------------------
(***************************************************************************)
(* What incremental ingestion promises, without runs, jobs, batches or      *)
(* checkpoints: rules are stored from a file's version at HEAD, all of them *)
(* or, when some cannot be stored, beside what was there, and               *)
(* last_commit_sha names a commit only when the rules of all of that        *)
(* commit's files are in the store.  That is what makes it sound to list    *)
(* only what changed since.  BatchIngest implements this specification in   *)
(* the environments its calm run describes.                                 *)
(***************************************************************************)
EXTENDS Integers

CONSTANTS
    NumFiles,    \* files 1..NumFiles
    Logic,       \* those that have rules
    MaxVersion   \* bound: the highest version of a file

Files == 1..NumFiles

VARIABLES
    head,    \* the version of each file at HEAD, 0 if it is not there
    sha,     \* the same for the commit last ingested, all 0 if there is none
    stored   \* stored[f]: the files and versions f's rules were extracted from

vars == <<head, sha, stored>>

Trees  == [Files -> 0..MaxVersion]
NoTree == [f \in Files |-> 0]

ContentAt(f) == [file |-> f, version |-> head[f]]

UpToDate(f) == head[f] > 0 => stored[f] = {ContentAt(f)}

Init ==
    /\ head \in [Files -> {0, 1} \cap 0..MaxVersion]
    /\ sha = NoTree
    /\ stored = [f \in Files |-> {[file |-> 0, version |-> 0]}]

Push(f) ==
    /\ head[f] < MaxVersion
    /\ head' = [head EXCEPT ![f] = @ + 1]
    /\ UNCHANGED <<sha, stored>>

Process(f) ==
    /\ head[f] > 0
    /\ stored' = [stored EXCEPT ![f] = {ContentAt(f)}]
    /\ UNCHANGED <<head, sha>>

\* Some of its rules could not be stored; the others are what they were
ProcessPart(f) ==
    /\ head[f] > 0
    /\ stored' = [stored EXCEPT ![f] = @ \union {ContentAt(f)}]
    /\ UNCHANGED <<head, sha>>

Advance ==
    /\ \A f \in Logic : UpToDate(f)
    /\ sha' = head
    /\ UNCHANGED <<head, stored>>

Next ==
    \/ \E f \in Files : Push(f)
    \/ \E f \in Logic : Process(f) \/ ProcessPart(f)
    \/ Advance

Spec == Init /\ [][Next]_vars

-----------------------------------------------------------------------------
(* Whatever the diff between last_commit_sha and HEAD leaves out is up to    *)
(* date: _get_changed_paths may leave it out of the listing.                 *)
DiffIsEnough ==
    sha # NoTree => \A f \in Logic : sha[f] = head[f] => UpToDate(f)

=============================================================================
