-------------------------- MODULE BatchIngestProofs --------------------------
(***************************************************************************)
(* Proofs about BatchIngest, for any number of files, pushes and jobs.      *)
(***************************************************************************)
EXTENDS BatchIngest, FiniteSetTheorems, WellFoundedInduction, TLAPS

-----------------------------------------------------------------------------
(* The inductive invariant of any environment                                *)

UniqueFiles(reqs) == \A q, r \in reqs : q.file = r.file => q = r
UniqueIds(reqs)   == \A q, r \in reqs : q.id = r.id => q = r

\* Not all rules stored under f come from newer versions than v
Floor(f, v) == \E d \in stored[f] : d.file = f => d.version <= v

Behind(q) == Floor(q.file, q.version)

(* Batch ids, of the run and of the job, are those of submitted batches, and *)
(* a job submits at most one.                                                *)
BatchIds ==
    /\ job.phase \in {"listing", "open"} => Len(batches) < started
    /\ run.batch <= Len(batches)
    /\ job.batch <= Len(batches)
    /\ job.phase \in {"created", "polling", "stream"} => job.batch # 0
    /\ job.phase \in {"polling", "stream"} => job.batch = run.batch

\* Nothing that was listed, requested or stored is ahead of HEAD
NotAhead ==
    /\ \A f \in Files : head[f] <= pushes + 1
    /\ \A f \in Files : Floor(f, head[f])
    /\ \A b \in DOMAIN batches :
          \A q \in batches[b].reqs : q.version <= head[q.file]
    /\ \A t \in job.todo : t.version <= head[t.file]

(* What a job has left to do are files the run is not done with, each once,  *)
(* at versions that not all of their stored rules are ahead of.              *)
TodoIsOpen ==
    /\ job.phase \in {"none", "listing"} => job.todo = {}
    /\ UniqueFiles(job.todo)
    /\ \A t \in job.todo : run.cps[t.file] # "done" /\ Behind(t)

(* The run's batch may be of an older commit, but not older than all rules   *)
(* of a file the run is not done with: what is stored in full was stored     *)
(* before the run.  What was stored in part may be newer.                    *)
BatchNotOutdated ==
    /\ job.phase = "created" => batches[job.batch].reqs = job.todo
    /\ run.batch # 0 => \A q \in batches[run.batch].reqs :
          run.cps[q.file] # "done" => Behind(q)

IInv == TypeOK /\ BatchIds /\ NotAhead /\ TodoIsOpen /\ BatchNotOutdated

-----------------------------------------------------------------------------
(* Lemmas about the operators                                                *)

\* A listed file's place in the listing is a number from 1 to NumFiles
LEMMA PlaceInListing ==
    ASSUME NEW S \in SUBSET Files, NEW f \in S
    PROVE  Place(S, f) \in Files
<1> DEFINE P == {g \in S : g <= f}
<1>1. NumFiles \in Nat /\ IsFiniteSet(Files) /\ Cardinality(Files) = NumFiles
  BY FilesAssumption, FS_Interval DEF Files
<1>6. f \in Files /\ f \in Int
  BY FilesAssumption DEF Files
<1>2. P \subseteq Files /\ f \in P
  <2>1. f <= f
    BY <1>6
  <2> QED
    BY <2>1, Zenon
<1>5. Place(S, f) = Cardinality(P)
  BY Zenon DEF Place
<1> HIDE DEF P
<1>3. IsFiniteSet(P) /\ Cardinality(P) <= NumFiles
  BY <1>1, <1>2, FS_Subset
<1>4. Cardinality(P) \in Nat /\ Cardinality(P) # 0
  BY <1>2, <1>3, FS_CardinalityType, FS_EmptySet
<1> QED
  BY <1>1, <1>3, <1>4, <1>5 DEF Files

\* Later files of a listing have higher places
LEMMA PlacesGrow ==
    ASSUME NEW S \in SUBSET Files, NEW f \in S, NEW g \in S, f < g
    PROVE  Place(S, f) # Place(S, g)
<1> DEFINE A == {h \in S : h <= f}
           B == {h \in S : h <= g}
<1>1. f \in Int /\ g \in Int /\ S \subseteq Int /\ NumFiles \in Nat
  BY FilesAssumption DEF Files
<1>2. B \subseteq Files /\ A \subseteq B /\ g \in B /\ g \notin A
  <2>1. B \subseteq Files
    OBVIOUS
  <2>2. \A h \in S : h \in Int
    BY <1>1
  <2>3. g <= g /\ ~(g <= f) /\ \A h \in S : h <= f => h <= g
    BY <1>1, <2>2
  <2>4. A \subseteq B /\ g \in B /\ g \notin A
    BY <2>3, Zenon
  <2> QED
    BY <2>1, <2>4
<1>3. Place(S, f) = Cardinality(A) /\ Place(S, g) = Cardinality(B)
  BY Zenon DEF Place
<1> HIDE DEF A, B
<1>4. IsFiniteSet(B)
  <2>1. IsFiniteSet(Files)
    BY <1>1, FS_Interval DEF Files
  <2> QED
    BY <1>2, <2>1, FS_Subset
<1>5. Cardinality(A) # Cardinality(B)
  BY <1>2, <1>4, FS_Subset
<1> QED
  BY <1>3, <1>5

\* The requests for a listing are well-formed, one per file, with distinct ids
LEMMA RequestsAreUnique ==
    ASSUME head \in Trees, NEW S \in SUBSET Files
    PROVE  /\ RequestsFor(S) \subseteq Request
           /\ UniqueFiles(RequestsFor(S))
           /\ UniqueIds(RequestsFor(S))
           /\ \A q \in RequestsFor(S) : /\ q.file \in S \cap Logic
                                        /\ q.version = head[q.file]
<1>1. \A f \in S : Place(S, f) \in Files /\ head[f] \in Versions
  BY PlaceInListing DEF Trees
<1>2. \A f, g \in S : Place(S, f) = Place(S, g) => f = g
  <2>1. \A f \in S : f \in Int
    BY DEF Files
  <2> QED
    BY <2>1, PlacesGrow
<1> QED
  BY <1>1, <1>2 DEF RequestsFor, UniqueFiles, UniqueIds, Request

\* A listing is a set of files, without those a resumed run is done with
LEMMA ListingsAreFiles ==
    ASSUME NEW S \in Listings
    PROVE  S \subseteq Files /\ (job.resume => S \cap DoneFiles = {})
BY DEF Listings, Collect, Changed

\* How many files have a given checkpoint is at most how many there are
LEMMA CountFiles ==
    ASSUME NEW S \in SUBSET Files
    PROVE  Cardinality(S) \in 0..NumFiles
<1>1. NumFiles \in Nat /\ IsFiniteSet(Files) /\ Cardinality(Files) = NumFiles
  BY FilesAssumption, FS_Interval DEF Files
<1> QED
  BY <1>1, FS_Subset, FS_CardinalityType

\* The batches' ids are the numbers from 1 to Len(batches)
LEMMA BatchIdAt ==
    ASSUME TypeOK, NEW b \in Nat, b # 0, b <= Len(batches)
    PROVE  b \in DOMAIN batches
BY DEF TypeOK

\* The batch of an id is well-formed
LEMMA BatchAt ==
    ASSUME TypeOK, NEW b \in DOMAIN batches
    PROVE  /\ b \in Nat /\ b # 0 /\ b <= Len(batches)
           /\ batches[b] \in Batch
           /\ batches[b].reqs \subseteq Request
           /\ batches[b].ended \in BOOLEAN
<1>1. batches[b] \in Batch
  BY DEF TypeOK
<1>2. b \in Nat /\ b # 0 /\ b <= Len(batches)
  BY DEF TypeOK
<1> QED
  BY <1>1, <1>2 DEF Batch

\* What may follow a result: its request and the file it is attributed to
LEMMA ResultsAreRequests ==
    ASSUME IInv, NEW r \in Results
    PROVE  /\ r[1] \in job.todo /\ r[1] \in Request /\ r[2] \in Request
           /\ job.phase \in {"stream", "sequential"}
           /\ job.phase = "stream" => /\ job.batch \in DOMAIN batches
                                      /\ r[2] \in batches[job.batch].reqs
                                      /\ r[1].id = r[2].id
           /\ job.phase = "sequential" => r[1] = r[2]
<1>1. job.todo \subseteq Request
  BY DEF IInv, TypeOK, Job
<1>2. CASE job.phase = "stream"
  <2>1. r \in job.todo \X batches[job.batch].reqs /\ r[1].id = r[2].id
    BY <1>2 DEF Results
  <2>2. job.batch \in DOMAIN batches /\ batches[job.batch].reqs \subseteq Request
    <3>1. job.batch \in Nat /\ job.batch # 0 /\ job.batch <= Len(batches)
      BY <1>2, EnvironmentAssumption DEF IInv, TypeOK, BatchIds, Job
    <3>2. job.batch \in DOMAIN batches
      BY <3>1, BatchIdAt DEF IInv
    <3> QED
      BY <3>2, BatchAt DEF IInv
  <2>4. r[1] \in job.todo /\ r[2] \in batches[job.batch].reqs
    BY <2>1
  <2> QED
    BY <1>1, <1>2, <2>1, <2>2, <2>4
<1>3. CASE job.phase = "sequential"
  <2>1. r \in job.todo \X job.todo /\ r[1] = r[2]
    BY <1>3 DEF Results
  <2> QED
    BY <1>1, <1>3, <2>1
<1> QED
  BY <1>2, <1>3 DEF Results

-----------------------------------------------------------------------------
(* Every step of any environment preserves the inductive invariant           *)

\* Initially nothing is stored, listed or submitted
LEMMA InitInv ==
    ASSUME Init
    PROVE  IInv
<1> USE FilesAssumption, EnvironmentAssumption
<1>1. NoTree \in Trees /\ head \in Trees /\ \A f \in Files : head[f] <= 1
  BY DEF Init, NoTree, Trees, Versions
<1>2. NoRun \in Run /\ NoRun.batch = 0
  <2>1. NewRun \in Run /\ NewRun.batch = 0
    BY DEF NewRun, Run, RunStatuses, Checkpoints
  <2> QED
    BY <2>1 DEF NoRun, Run, RunStatuses
<1>3. NoJob \in Job /\ NoJob.batch = 0 /\ NoJob.todo = {} /\ NoJob.phase = "none"
  BY <1>1 DEF NoJob, Job, Phases
<1>4. \A f \in Files : f # 0
  BY DEF Files
<1>5. TypeOK
  <2>1. batches \in Seq(Batch) /\ Len(batches) <= started
    BY DEF Init
  <2>2. stored \in [Files -> SUBSET (Content \union {NoContent})]
    BY DEF Init
  <2>3. pushes \in 0..MaxPushes /\ started \in 0..MaxJobs
    BY DEF Init
  <2>4. sha \in Trees /\ status \in Statuses /\ stale \in BOOLEAN
    BY <1>1 DEF Init, Statuses
  <2>5. run \in Run /\ job \in Job
    BY <1>2, <1>3 DEF Init
  <2> QED
    BY <1>1, <2>1, <2>2, <2>3, <2>4, <2>5 DEF TypeOK
<1>6. BatchIds
  BY <1>2, <1>3 DEF Init, BatchIds
<1>7. NotAhead
  <2>1. \A f \in Files : NoContent \in stored[f] /\ NoContent.file # f
    BY <1>4 DEF Init, NoContent
  <2>2. \A f \in Files : Floor(f, head[f])
    BY <2>1 DEF Floor
  <2> QED
    BY <1>1, <1>3, <2>2 DEF Init, NotAhead
<1>8. TodoIsOpen /\ BatchNotOutdated
  BY <1>2, <1>3 DEF Init, TodoIsOpen, UniqueFiles, BatchNotOutdated
<1> QED
  BY <1>5, <1>6, <1>7, <1>8 DEF IInv

\* A push moves HEAD further ahead
LEMMA PushInv ==
    ASSUME IInv, NEW f \in Files, Push(f)
    PROVE  IInv'
<1> USE FilesAssumption, EnvironmentAssumption
<1>1. /\ head' = [head EXCEPT ![f] = head[f] + 1]
      /\ pushes' = pushes + 1 /\ pushes < MaxPushes /\ pushes \in Nat
      /\ UNCHANGED <<sha, stored, status, run, stale, job, batches, started>>
  BY DEF Push, IInv, TypeOK
<1>2. \A g \in Files : head[g] \in Nat /\ head[g] <= pushes + 1
  BY DEF IInv, TypeOK, NotAhead, Trees, Versions
<1>3. head' \in Trees
  BY <1>1, <1>2 DEF Trees, Versions, IInv, TypeOK
<1>4. \A g \in Files : /\ head'[g] \in Nat /\ head[g] <= head'[g]
                       /\ head'[g] <= pushes' + 1
  BY <1>1, <1>2 DEF IInv, TypeOK, Trees
<1>5. TypeOK'
  BY <1>1, <1>3 DEF IInv, TypeOK
<1>6. NotAhead'
  <2>1. ASSUME NEW g \in Files, NEW n \in Nat, n <= head[g]
        PROVE  n <= head'[g]
    BY <1>2, <1>4, <2>1
  <2>2. ASSUME NEW g \in Files
        PROVE  Floor(g, head[g])'
    <3>1. PICK d \in stored[g] : d.file = g => d.version <= head[g]
      BY DEF IInv, NotAhead, Floor
    <3>2. d.version \in Nat
      BY DEF IInv, TypeOK, Content, NoContent, Versions
    <3>3. d \in stored'[g] /\ (d.file = g => d.version <= head'[g])
      BY <1>1, <2>1, <3>1, <3>2
    <3> QED
      BY <3>3 DEF Floor
  <2>3. ASSUME NEW b \in DOMAIN batches, NEW q \in batches[b].reqs
        PROVE  q.version <= head'[q.file]
    <3>1. q.version \in Nat /\ q.file \in Files
      BY BatchAt DEF IInv, Request, Versions
    <3> QED
      BY <2>1, <3>1 DEF IInv, NotAhead
  <2>4. ASSUME NEW t \in job.todo
        PROVE  t.version <= head'[t.file]
    <3>1. t.version \in Nat /\ t.file \in Files
      BY DEF IInv, TypeOK, Job, Request, Versions
    <3> QED
      BY <2>1, <3>1 DEF IInv, NotAhead
  <2> QED
    BY <1>1, <1>4, <2>2, <2>3, <2>4 DEF NotAhead
<1> QED
  BY <1>1, <1>5, <1>6 DEF IInv, BatchIds, TodoIsOpen, BatchNotOutdated, Behind, Floor

\* That a batch ends changes none of its requests
LEMMA EndBatchInv ==
    ASSUME IInv, NEW b \in DOMAIN batches, EndBatch(b)
    PROVE  IInv'
<1>1. batches' = [batches EXCEPT ![b].ended = TRUE]
      /\ UNCHANGED <<envVars, sha, stored, status, run, stale, job, started>>
  BY DEF EndBatch
<1>2. batches \in Seq(Batch)
  BY DEF IInv, TypeOK
<1>3. [batches[b] EXCEPT !.ended = TRUE] \in Batch
  <2>1. batches[b] \in Batch
    BY <1>2
  <2> QED
    BY <2>1 DEF Batch
<1>4. batches' \in Seq(Batch) /\ Len(batches') = Len(batches)
      /\ DOMAIN batches' = DOMAIN batches
  BY <1>1, <1>2, <1>3
<1>5. \A c \in DOMAIN batches : batches'[c].reqs = batches[c].reqs
  BY <1>1, <1>2 DEF Batch
<1>6. TypeOK'
  BY <1>1, <1>4 DEF IInv, TypeOK, envVars
<1>7. BatchIds' /\ NotAhead' /\ TodoIsOpen'
  BY <1>1, <1>4, <1>5 DEF IInv, BatchIds, NotAhead, TodoIsOpen, Behind, Floor, envVars
<1>8. BatchNotOutdated'
  <2>1. ASSUME NEW c \in Nat, c # 0, c <= Len(batches)
        PROVE  batches'[c].reqs = batches[c].reqs
    BY <1>5, BatchIdAt, <2>1 DEF IInv
  <2>2. run.batch \in Nat /\ job.batch \in Nat
    BY EnvironmentAssumption DEF IInv, TypeOK, Run, Job
  <2> QED
    BY <1>1, <2>1, <2>2 DEF IInv, BatchIds, BatchNotOutdated, Behind, Floor
<1> QED
  BY <1>6, <1>7, <1>8 DEF IInv

\* A step that stores nothing, submits nothing and does not list
QuietStep ==
    /\ UNCHANGED <<head, stored, pushes, batches>>
    /\ sha' \in Trees /\ status' \in Statuses /\ stale' \in BOOLEAN
    /\ run' \in Run /\ run'.batch \in {0, run.batch}
    /\ \A f \in Files : run'.cps[f] = "done" <=> run.cps[f] = "done"
    /\ job' \in Job /\ job'.phase # "created"
    /\ job'.todo \in {{}, job.todo}
    /\ job'.phase \in {"none", "listing"} => job'.todo = {}
    /\ started' \in 0..MaxJobs /\ started <= started'

\* Such a step preserves the invariant if it keeps track of the batch
LEMMA QuietInv ==
    ASSUME IInv, QuietStep, BatchIds'
    PROVE  IInv'
<1>1. TypeOK'
  <2>1. Len(batches) \in Nat /\ started \in Nat /\ started' \in Nat
    BY EnvironmentAssumption DEF IInv, TypeOK, QuietStep
  <2> QED
    BY <2>1 DEF IInv, TypeOK, QuietStep
<1>2. NotAhead'
  BY DEF IInv, NotAhead, QuietStep, Floor
<1>3. \A t \in job.todo : t.file \in Files
  BY DEF IInv, TypeOK, Job, Request
<1>4. TodoIsOpen'
  BY <1>3 DEF IInv, TodoIsOpen, QuietStep, UniqueFiles, Behind, Floor
<1>5. BatchNotOutdated'
  <2>1. SUFFICES ASSUME run'.batch # 0, NEW q \in batches[run.batch].reqs,
                        run'.cps[q.file] # "done"
                 PROVE  Behind(q)
    BY DEF BatchNotOutdated, QuietStep, Behind, Floor
  <2>2. run.batch \in Nat /\ run.batch # 0 /\ run.batch <= Len(batches)
    BY <2>1, EnvironmentAssumption
       DEF IInv, TypeOK, BatchIds, QuietStep, Run
  <2>3. q.file \in Files
    BY <2>1, <2>2, BatchIdAt, BatchAt DEF IInv, Request
  <2> QED
    BY <2>1, <2>2, <2>3 DEF IInv, BatchNotOutdated, QuietStep
<1> QED
  BY <1>1, <1>2, <1>4, <1>5 DEF IInv

\* A job starts with nothing in memory
LEMMA StartStep ==
    ASSUME TypeOK, NEW resume \in BOOLEAN, Start(resume)
    PROVE  /\ job' \in Job /\ job'.phase = "listing" /\ job'.todo = {}
           /\ job'.batch = 0 /\ job'.resume = resume /\ ~job'.failed
           /\ started' = started + 1 /\ started' \in 0..MaxJobs
           /\ status' = "ingesting" /\ job = NoJob
<1>1. NoTree \in Trees
  BY EnvironmentAssumption DEF NoTree, Trees, Versions
<1>2. job' = [phase |-> "listing", resume |-> resume, tree |-> NoTree,
              todo |-> {}, batch |-> 0, failed |-> FALSE]
  BY DEF Start, NoJob
<1>3. job' \in Job
  BY <1>1, <1>2, EnvironmentAssumption DEF Job, Phases
<1>4. started' = started + 1 /\ started' \in 0..MaxJobs
  BY EnvironmentAssumption DEF Start, TypeOK
<1>5. status' = "ingesting" /\ job = NoJob
  BY DEF Start
<1> QED
  BY <1>2, <1>3, <1>4, <1>5

\* Ingest and Resume leave the run as it is
LEMMA TriggerInv ==
    ASSUME IInv, NEW resume \in BOOLEAN, Start(resume),
           UNCHANGED <<envVars, sha, stored, run, stale, batches>>
    PROVE  IInv'
<1>1. /\ job' \in Job /\ job'.phase = "listing" /\ job'.todo = {}
      /\ job'.batch = 0 /\ started' = started + 1 /\ started' \in 0..MaxJobs
      /\ status' = "ingesting"
  BY StartStep DEF IInv
<1>2. started \in Nat /\ Len(batches) \in Nat /\ Len(batches) <= started
  BY EnvironmentAssumption DEF IInv, TypeOK
<1>3. QuietStep
  BY <1>1, <1>2 DEF QuietStep, envVars, IInv, TypeOK, Statuses
<1>4. BatchIds'
  BY <1>1, <1>2 DEF IInv, BatchIds
<1> QED
  BY <1>3, <1>4, QuietInv

\* Retry makes the failed files pending, and no file undone
LEMMA RetryInv ==
    ASSUME IInv, RetryErrors
    PROVE  IInv'
<1>1. /\ job' \in Job /\ job'.phase = "listing" /\ job'.todo = {}
      /\ job'.batch = 0 /\ started' = started + 1 /\ started' \in 0..MaxJobs
      /\ status' = "ingesting"
  BY StartStep DEF IInv, RetryErrors
<1>2. started \in Nat /\ Len(batches) \in Nat /\ Len(batches) <= started
  BY EnvironmentAssumption DEF IInv, TypeOK
<1>3. run' \in Run /\ run'.batch = run.batch
      /\ \A f \in Files : run'.cps[f] = "done" <=> run.cps[f] = "done"
  <2> DEFINE c == [f \in Files |-> IF run.cps[f] = "error"
                                   THEN "pending" ELSE run.cps[f]]
  <2>1. run \in Run /\ run.cps \in [Files -> Checkpoints]
    BY DEF IInv, TypeOK, Run
  <2>2. c \in [Files -> Checkpoints]
        /\ \A f \in Files : c[f] = "done" <=> run.cps[f] = "done"
    BY <2>1 DEF Checkpoints
  <2>3. run' = [run EXCEPT !.status = "running", !.cps = c]
    BY DEF RetryErrors
  <2> HIDE DEF c
  <2> QED
    BY <2>1, <2>2, <2>3 DEF Run, RunStatuses
<1>4. QuietStep
  BY <1>1, <1>2, <1>3 DEF QuietStep, envVars, IInv, TypeOK, Statuses, RetryErrors
<1>5. BatchIds'
  BY <1>1, <1>2, <1>3 DEF IInv, BatchIds, RetryErrors
<1> QED
  BY <1>4, <1>5, QuietInv

\* The end of a job, however it ends, leaves nothing of it
LEMMA EndJobInv ==
    ASSUME IInv, job' = NoJob, sha' \in Trees, status' \in Statuses,
           UNCHANGED <<envVars, stored, run, stale, batches, started>>
    PROVE  IInv'
<1>1. job' \in Job /\ job'.phase = "none" /\ job'.todo = {} /\ job'.batch = 0
  BY EnvironmentAssumption
     DEF NoJob, Job, Phases, NoTree, Trees, Versions
<1>2. QuietStep
  <2>1. started \in 0..MaxJobs
    BY DEF IInv, TypeOK
  <2> QED
    BY <1>1, <2>1, EnvironmentAssumption DEF QuietStep, envVars, IInv, TypeOK
<1>3. BatchIds'
  BY <1>1 DEF IInv, BatchIds, TypeOK
<1> QED
  BY <1>2, <1>3, QuietInv

\* The types of what the steps of a running job read
LEMMA JobTypes ==
    ASSUME IInv
    PROVE  /\ run \in Run /\ run.batch \in 0..MaxJobs /\ run.batch \in Nat
           /\ run.cps \in [Files -> Checkpoints] /\ run.ended \in BOOLEAN
           /\ job \in Job /\ job.batch \in 0..MaxJobs /\ job.batch \in Nat
           /\ job.todo \subseteq Request /\ job.phase \in Phases
           /\ job.resume \in BOOLEAN /\ job.failed \in BOOLEAN
           /\ job.tree \in Trees
           /\ batches \in Seq(Batch) /\ Len(batches) \in Nat
           /\ started \in 0..MaxJobs /\ started \in Nat
           /\ Len(batches) <= started
BY EnvironmentAssumption DEF IInv, TypeOK, Run, Job

\* Re-attaching takes the batch from the run
LEMMA ReattachInv ==
    ASSUME IInv, ReattachBatch
    PROVE  IInv'
<1>1. run.batch \in DOMAIN batches /\ run.batch # 0
  BY JobTypes, BatchIdAt DEF IInv, BatchIds, ReattachBatch
<1>2. batches[run.batch].ended \in BOOLEAN
  BY <1>1, BatchAt DEF IInv
<1>3. PICK p \in {"polling", "stream"} :
         job' = [job EXCEPT !.batch = run.batch, !.phase = p]
  BY DEF ReattachBatch
<1>4. /\ job' \in Job /\ job'.phase = p /\ job'.batch = run.batch
      /\ job'.todo = job.todo
  BY <1>3, JobTypes DEF Job, Phases
<1>5. run' \in Run /\ run'.batch = run.batch /\ run'.cps = run.cps
  BY <1>2, JobTypes DEF ReattachBatch, Run
<1>6. QuietStep
  BY <1>4, <1>5, JobTypes
     DEF QuietStep, ReattachBatch, envVars, IInv, TypeOK
<1>7. BatchIds'
  BY <1>1, <1>4, <1>5 DEF IInv, BatchIds, ReattachBatch
<1> QED
  BY <1>6, <1>7, QuietInv

\* A poll records whether the batch ended
LEMMA PollInv ==
    ASSUME IInv, Poll
    PROVE  IInv'
<1>1. job.batch = run.batch /\ run.batch # 0 /\ job.batch \in DOMAIN batches
  BY JobTypes, BatchIdAt DEF IInv, BatchIds, Poll
<1>2. batches[job.batch].ended \in BOOLEAN
  BY <1>1, BatchAt DEF IInv
<1>3. PICK p \in {"polling", "stream"} : job' = [job EXCEPT !.phase = p]
  BY DEF Poll
<1>4. /\ job' \in Job /\ job'.phase = p /\ job'.batch = job.batch
      /\ job'.todo = job.todo
  BY <1>3, JobTypes DEF Job, Phases
<1>5. run' \in Run /\ run'.batch = run.batch /\ run'.cps = run.cps
  BY <1>2, JobTypes DEF Poll, Run
<1>6. QuietStep
  <2>1. UNCHANGED <<envVars, sha, stored, status, batches, started>>
        /\ stale' \in BOOLEAN
    BY DEF Poll
  <2> QED
    BY <1>4, <1>5, <2>1, JobTypes DEF QuietStep, envVars, IInv, TypeOK
<1>7. BatchIds'
  BY <1>1, <1>4, <1>5 DEF IInv, BatchIds, Poll
<1> QED
  BY <1>6, <1>7, QuietInv

\* The sequential path and a broken pass need no batch
LEMMA LeaveInv ==
    ASSUME IInv, GoSequential \/ LoseCheckpoint
    PROVE  IInv'
<1>1. PICK p \in {"sequential", "broken"}, T \in {{}, job.todo} :
         job' = [job EXCEPT !.phase = p, !.todo = T]
  <2>1. CASE GoSequential
    <3>1. job' = [job EXCEPT !.phase = "sequential", !.todo = job.todo]
      BY <2>1, JobTypes DEF GoSequential, Job
    <3> QED
      BY <3>1
  <2>2. CASE LoseCheckpoint
    BY <2>2 DEF LoseCheckpoint
  <2> QED
    BY <2>1, <2>2
<1>2. /\ job' \in Job /\ job'.phase = p /\ job'.batch = job.batch
      /\ job'.todo = T
  BY <1>1, JobTypes DEF Job, Phases
<1>3. UNCHANGED <<envVars, sha, stored, status, run, stale, batches, started>>
  BY DEF GoSequential, LoseCheckpoint
<1>4. QuietStep
  BY <1>2, <1>3, JobTypes DEF QuietStep, envVars, IInv, TypeOK
<1>5. BatchIds'
  BY <1>2, <1>3 DEF IInv, BatchIds
<1> QED
  BY <1>4, <1>5, QuietInv

\* The tallies count files
LEMMA CompleteRunInv ==
    ASSUME IInv, CompleteRun
    PROVE  IInv'
<1>1. Cardinality(DoneFiles) \in 0..NumFiles /\ Cardinality(With("error")) \in 0..NumFiles
  BY CountFiles DEF DoneFiles, With
<1>2. PICK s \in {"completed", "completed_with_errors"} :
         run' = [run EXCEPT !.status = s, !.done = Cardinality(DoneFiles),
                            !.errored = Cardinality(With("error"))]
  BY DEF CompleteRun
<1>3. run' \in Run /\ run'.batch = run.batch /\ run'.cps = run.cps
  BY <1>1, <1>2, JobTypes DEF Run, RunStatuses
<1>4. /\ job' \in Job /\ job'.phase = "closing" /\ job'.batch = job.batch
      /\ job'.todo = job.todo
  BY JobTypes DEF CompleteRun, Job, Phases
<1>5. QuietStep
  BY <1>3, <1>4, JobTypes DEF QuietStep, CompleteRun, envVars, IInv, TypeOK
<1>6. BatchIds'
  BY <1>3, <1>4 DEF IInv, BatchIds, CompleteRun
<1> QED
  BY <1>5, <1>6, QuietInv

\* The sweep and the passing of time start and end no job
LEMMA SweepInv ==
    ASSUME IInv, GoStale \/ Sweep
    PROVE  IInv'
<1>1. /\ UNCHANGED <<envVars, sha, stored, job, batches, started>>
      /\ status' \in Statuses /\ stale' \in BOOLEAN
  BY DEF GoStale, Sweep, IInv, TypeOK, Statuses
<1>2. job = NoJob
  BY DEF GoStale, Sweep
<1>3. run' \in Run /\ run'.batch = run.batch /\ run'.cps = run.cps
  BY JobTypes DEF GoStale, Sweep, Run, RunStatuses
<1>4. QuietStep
  BY <1>1, <1>2, <1>3, JobTypes DEF QuietStep, envVars, IInv, TypeOK, NoJob
<1>5. BatchIds'
  BY <1>1, <1>3 DEF IInv, BatchIds
<1> QED
  BY <1>4, <1>5, QuietInv

\* Opening a run, or going on with one, lists files at HEAD's versions
LEMMA OpenRunInv ==
    ASSUME IInv, OpenRun
    PROVE  IInv'
<1>1. PICK S \in Listings :
         job' = [job EXCEPT !.phase = "open", !.tree = head,
                            !.todo = RequestsFor(S)]
  BY DEF OpenRun
<1>2. S \subseteq Files /\ (job.resume => S \cap DoneFiles = {})
  BY ListingsAreFiles
<1>3. head \in Trees
  BY DEF IInv, TypeOK
<1>4. /\ RequestsFor(S) \subseteq Request
      /\ UniqueFiles(RequestsFor(S))
      /\ \A q \in RequestsFor(S) : q.file \in S /\ q.version = head[q.file]
  BY <1>2, <1>3, RequestsAreUnique
<1>5. /\ job' \in Job /\ job'.phase = "open" /\ job'.batch = job.batch
      /\ job'.todo = RequestsFor(S) /\ job.phase = "listing"
  BY <1>1, <1>3, <1>4, JobTypes DEF OpenRun, Job, Phases
<1>6. UNCHANGED <<envVars, sha, stored, status, batches, started>>
  BY DEF OpenRun
<1>7. /\ run' \in Run /\ run'.batch \in {0, run.batch} /\ stale' \in BOOLEAN
      /\ run'.batch # 0 => run' = run
      /\ \A f \in S : run'.cps[f] # "done"
  <2>1. CASE job.resume
    BY <1>2, <2>1, JobTypes DEF OpenRun, DoneFiles, With, IInv, TypeOK
  <2>2. CASE ~job.resume
    <3>1. NewRun \in Run /\ NewRun.batch = 0
          /\ \A f \in Files : NewRun.cps[f] # "done"
      BY FilesAssumption, EnvironmentAssumption
         DEF NewRun, Run, RunStatuses, Checkpoints
    <3> QED
      BY <1>2, <2>2, <3>1 DEF OpenRun
  <2> QED
    BY <2>1, <2>2
<1>8. TypeOK'
  BY <1>5, <1>6, <1>7 DEF IInv, TypeOK, envVars
<1>9. BatchIds'
  BY <1>5, <1>6, <1>7, JobTypes DEF IInv, BatchIds
<1>10. NotAhead'
  <2>1. \A q \in RequestsFor(S) : q.file \in Files /\ head[q.file] \in Nat
    BY <1>2, <1>3, <1>4, EnvironmentAssumption DEF Trees, Versions
  <2> QED
    BY <1>4, <1>5, <1>6, <2>1 DEF IInv, NotAhead, envVars, Floor
<1>11. TodoIsOpen'
  <2>1. ASSUME NEW t \in RequestsFor(S)
        PROVE  run'.cps[t.file] # "done" /\ Behind(t)
    <3>1. t.file \in Files /\ t.file \in S /\ t.version = head[t.file]
      BY <1>2, <1>4
    <3> QED
      BY <1>7, <3>1 DEF IInv, NotAhead, Behind, Floor
  <2> QED
    BY <1>4, <1>5, <1>6, <2>1 DEF TodoIsOpen, Behind, Floor
<1>12. BatchNotOutdated'
  BY <1>5, <1>6, <1>7 DEF IInv, BatchNotOutdated, Behind, Floor
<1> QED
  BY <1>8, <1>9, <1>10, <1>11, <1>12 DEF IInv

\* A new batch asks for what the job has left to do
LEMMA CreateBatchInv ==
    ASSUME IInv, CreateBatch
    PROVE  IInv'
<1> DEFINE n == Len(batches) + 1
           new == [reqs |-> job.todo, ended |-> FALSE]
<1>1. /\ batches' = Append(batches, new)
      /\ job' = [job EXCEPT !.phase = "created", !.batch = n]
      /\ UNCHANGED <<envVars, sha, stored, status, run, stale, started>>
      /\ job.phase = "open"
  BY DEF CreateBatch
<1>2. new \in Batch /\ new.reqs = job.todo
  BY JobTypes DEF Batch
<1>3. n \in Nat /\ n # 0 /\ n <= started /\ n \in 0..MaxJobs
  BY <1>1, JobTypes, EnvironmentAssumption DEF IInv, BatchIds
<1> HIDE DEF new
<1>4. /\ batches' \in Seq(Batch) /\ Len(batches') = n
      /\ DOMAIN batches' = 1..n /\ DOMAIN batches = 1..Len(batches)
      /\ batches'[n] = new
      /\ \A b \in DOMAIN batches : batches'[b] = batches[b]
  BY <1>1, <1>2, JobTypes
<1> HIDE DEF n
<1>5. /\ job' \in Job /\ job'.phase = "created" /\ job'.batch = n
      /\ job'.todo = job.todo
  BY <1>1, <1>3, JobTypes DEF Job, Phases
<1>6. TypeOK'
  BY <1>1, <1>3, <1>4, <1>5 DEF IInv, TypeOK, envVars
<1>7. n = Len(batches) + 1
  BY DEF n
<1>8. BatchIds'
  BY <1>1, <1>3, <1>4, <1>5, <1>7, JobTypes DEF IInv, BatchIds
<1>9. NotAhead'
  <2>1. ASSUME NEW b \in DOMAIN batches', NEW q \in batches'[b].reqs
        PROVE  q.version <= head[q.file]
    <3>1. CASE b = n
      BY <1>2, <1>4, <2>1, <3>1 DEF IInv, NotAhead
    <3>2. CASE b # n
      <4>1. b \in DOMAIN batches
        BY <1>4, <1>7, <3>2, JobTypes
      <4> QED
        BY <1>4, <2>1, <4>1 DEF IInv, NotAhead
    <3> QED
      BY <3>1, <3>2
  <2> QED
    BY <1>1, <1>5, <2>1 DEF IInv, NotAhead, envVars, Floor
<1>10. TodoIsOpen'
  BY <1>1, <1>5 DEF IInv, TodoIsOpen, Behind, Floor, UniqueFiles
<1>11. BatchNotOutdated'
  <2>1. run.batch # 0 => batches'[run.batch] = batches[run.batch]
    BY <1>4, JobTypes, BatchIdAt DEF IInv, BatchIds
  <2> QED
    BY <1>1, <1>2, <1>4, <1>5, <2>1 DEF IInv, BatchNotOutdated, Behind, Floor
<1> QED
  BY <1>6, <1>8, <1>9, <1>10, <1>11 DEF IInv

\* The run learns of the batch of what the job has left to do
LEMMA RecordBatchInv ==
    ASSUME IInv, RecordBatch
    PROVE  IInv'
<1>1. /\ run' \in Run /\ run'.batch = job.batch /\ run'.cps = run.cps
  BY JobTypes DEF RecordBatch, Run
<1>2. /\ job' \in Job /\ job'.phase = "polling" /\ job'.batch = job.batch
      /\ job'.todo = job.todo
  BY JobTypes DEF RecordBatch, Job, Phases
<1>3. UNCHANGED <<envVars, sha, stored, status, stale, batches, started>>
      /\ job.phase = "created"
  BY DEF RecordBatch
<1>4. TypeOK' /\ BatchIds' /\ NotAhead'
  BY <1>1, <1>2, <1>3 DEF IInv, TypeOK, BatchIds, NotAhead, envVars, Floor
<1>5. TodoIsOpen' /\ BatchNotOutdated'
  BY <1>1, <1>2, <1>3
     DEF IInv, TodoIsOpen, BatchNotOutdated, Behind, Floor, UniqueFiles
<1> QED
  BY <1>4, <1>5 DEF IInv

\* Dealing with a result: the file leaves the to-do list with a checkpoint
LEMMA MarkStep ==
    ASSUME IInv, NEW t \in job.todo, NEW cp \in {"done", "error"},
           NEW failed \in BOOLEAN, Mark(t, cp, failed)
    PROVE  /\ t \in Request /\ t.file \in Files
           /\ run' = [run EXCEPT !.cps[t.file] = cp]
           /\ run' \in Run /\ run'.batch = run.batch /\ run'.ended = run.ended
           /\ run'.status = run.status /\ run'.cps[t.file] = cp
           /\ \A f \in Files : f # t.file => run'.cps[f] = run.cps[f]
           /\ job' \in Job /\ job'.phase = job.phase /\ job'.batch = job.batch
           /\ job'.todo = job.todo \ {t} /\ job'.resume = job.resume
           /\ job'.tree = job.tree /\ (job'.failed <=> job.failed \/ failed)
           /\ stale' \in BOOLEAN
           /\ UNCHANGED <<head, pushes, sha, status, batches, started>>
<1>1. t \in Request /\ t.file \in Files
  BY JobTypes DEF Request
<1>2. run' = [run EXCEPT !.cps[t.file] = cp]
      /\ job' = [job EXCEPT !.todo = job.todo \ {t}, !.failed = job.failed \/ failed]
      /\ stale' \in BOOLEAN
      /\ UNCHANGED <<head, pushes, sha, status, batches, started>>
  BY DEF Mark, envVars
<1>3. /\ run' \in Run /\ run'.batch = run.batch /\ run'.ended = run.ended
      /\ run'.status = run.status /\ run'.cps[t.file] = cp
      /\ \A f \in Files : f # t.file => run'.cps[f] = run.cps[f]
  <2>1. run' = [run EXCEPT !.cps = [run.cps EXCEPT ![t.file] = cp]]
    BY <1>2
  <2>2. [run.cps EXCEPT ![t.file] = cp] \in [Files -> Checkpoints]
    BY JobTypes DEF Checkpoints
  <2> QED
    BY <1>1, <2>1, <2>2, JobTypes DEF Run
<1>4. PICK b \in BOOLEAN : b <=> job.failed \/ failed
  OBVIOUS
<1>5. job' = [job EXCEPT !.todo = job.todo \ {t}, !.failed = b]
  BY <1>2, <1>4, JobTypes
<1>6. /\ job' \in Job /\ job'.phase = job.phase /\ job'.batch = job.batch
      /\ job'.todo = job.todo \ {t} /\ job'.resume = job.resume
      /\ job'.tree = job.tree /\ job'.failed = b
  BY <1>5, JobTypes DEF Job
<1> QED
  BY <1>1, <1>2, <1>3, <1>4, <1>6

\* Rules are replaced only with the checkpoint "done", none from ahead of HEAD
LEMMA MarkInv ==
    ASSUME IInv, NEW t \in job.todo, NEW cp \in {"done", "error"},
           NEW failed \in BOOLEAN, Mark(t, cp, failed),
           job.phase \in {"stream", "sequential"},
           stored' \in [Files -> SUBSET (Content \union {NoContent})],
           \A f \in Files : f # t.file => stored'[f] = stored[f],
           \/ stored[t.file] \subseteq stored'[t.file]
           \/ cp = "done" /\ Floor(t.file, head[t.file])'
    PROVE  IInv'
<1>1. TypeOK'
  BY MarkStep DEF IInv, TypeOK
<1>2. BatchIds'
  BY MarkStep DEF IInv, BatchIds
<1>3. \A u \in job.todo : u.file \in Files
  BY JobTypes DEF Request
<1>7. ASSUME NEW f \in Files, NEW v, Floor(f, v), f # t.file \/ cp # "done"
      PROVE  Floor(f, v)'
  <2>1. stored[f] \subseteq stored'[f]
    BY <1>7, MarkStep
  <2> QED
    BY <1>7, <2>1 DEF Floor
<1>4. NotAhead'
  <2>1. ASSUME NEW f \in Files
        PROVE  Floor(f, head[f])'
    <3>1. Floor(f, head[f]) /\ head' = head
      BY MarkStep DEF IInv, NotAhead
    <3>2. CASE f # t.file \/ cp # "done"
      <4>1. Floor(f, head[f])
        BY <3>1
      <4>2. \E d \in stored'[f] : d.file = f => d.version <= head[f]
        BY <1>7, <3>2, <4>1 DEF Floor
      <4> QED
        BY <3>1, <4>2 DEF Floor
    <3>3. CASE f = t.file /\ cp = "done"
      BY <3>1, <3>3 DEF Floor
    <3> QED
      BY <3>2, <3>3
  <2> QED
    BY <2>1, MarkStep DEF IInv, NotAhead
<1>5. TodoIsOpen'
  <2>1. ASSUME NEW u \in job.todo, u # t
        PROVE  u.file # t.file
    BY <2>1 DEF IInv, TodoIsOpen, UniqueFiles
  <2>2. ASSUME NEW u \in job.todo \ {t}
        PROVE  run'.cps[u.file] # "done" /\ Behind(u)'
    <3>1. u.file # t.file /\ u.file \in Files /\ run.cps[u.file] # "done" /\ Behind(u)
      BY <1>3, <2>1, <2>2 DEF IInv, TodoIsOpen
    <3> QED
      BY <1>7, <3>1, MarkStep DEF Behind, Floor
  <2>3. UniqueFiles(job.todo \ {t})
    BY DEF IInv, TodoIsOpen, UniqueFiles
  <2> QED
    BY <2>2, <2>3, MarkStep DEF TodoIsOpen, UniqueFiles
<1>6. BatchNotOutdated'
  <2>1. SUFFICES ASSUME run.batch # 0, NEW q \in batches[run.batch].reqs,
                        run'.cps[q.file] # "done"
                 PROVE  Behind(q)'
    BY MarkStep DEF BatchNotOutdated
  <2>2. q.file \in Files
    BY <2>1, JobTypes, BatchIdAt, BatchAt DEF IInv, BatchIds, Request
  <2>3. run.cps[q.file] # "done"
    <3>1. run.cps[t.file] # "done"
      BY DEF IInv, TodoIsOpen
    <3> QED
      BY <2>1, <2>2, <3>1, MarkStep
  <2>4. Behind(q)
    BY <2>1, <2>3 DEF IInv, BatchNotOutdated
  <2>5. q.file # t.file \/ cp # "done"
    BY <2>1, MarkStep
  <2> QED
    BY <1>7, <2>2, <2>4, <2>5 DEF Behind, Floor
<1> QED
  BY <1>1, <1>2, <1>4, <1>5, <1>6 DEF IInv

\* Each way a result may be dealt with
LEMMA ResultInv ==
    ASSUME IInv, NEW r \in Results, Result(r[1], r[2])
    PROVE  IInv'
<1> DEFINE t == r[1]
           q == r[2]
<1>1. /\ t \in job.todo /\ t \in Request /\ q \in Request
      /\ job.phase \in {"stream", "sequential"}
      /\ q.version <= head[q.file]
  BY ResultsAreRequests DEF IInv, NotAhead
<1>2. stored \in [Files -> SUBSET (Content \union {NoContent})]
  BY DEF IInv, TypeOK
<1> HIDE DEF t, q
<1>7. Sent(q) \in Content /\ t.file \in Files /\ Sent(q).version <= head[q.file]
      /\ Sent(q).file = q.file
  BY <1>1 DEF Request, Content, Sent
<1>3. CASE StoreFile(t, q)
  <2>1. /\ stored' = [stored EXCEPT ![t.file] = {Sent(q)}]
        /\ Mark(t, "done", FALSE)
    BY <1>3 DEF StoreFile
  <2>2. /\ stored' \in [Files -> SUBSET (Content \union {NoContent})]
        /\ stored'[t.file] = {Sent(q)}
        /\ \A f \in Files : f # t.file => stored'[f] = stored[f]
    BY <1>2, <1>7, <2>1
  <2>3. head' = head
    BY <2>1 DEF Mark, envVars
  <2>4. Floor(t.file, head[t.file])'
    BY <1>7, <2>2, <2>3 DEF Floor
  <2> QED
    BY <1>1, <2>1, <2>2, <2>4, MarkInv
<1>8. CASE StorePart(t, q)
  <2>1. /\ stored' = [stored EXCEPT ![t.file] = stored[t.file] \union {Sent(q)}]
        /\ Mark(t, "error", TRUE)
    BY <1>8 DEF StorePart
  <2>2. /\ stored' \in [Files -> SUBSET (Content \union {NoContent})]
        /\ stored[t.file] \subseteq stored'[t.file]
        /\ \A f \in Files : f # t.file => stored'[f] = stored[f]
    BY <1>2, <1>7, <2>1
  <2> QED
    BY <1>1, <2>1, <2>2, MarkInv
<1>4. CASE StoreNoRules(t)
  BY <1>1, <1>2, <1>4, MarkInv DEF StoreNoRules
<1>5. CASE FailFile(t)
  BY <1>1, <1>2, <1>5, MarkInv DEF FailFile
<1>6. CASE ExpireFile(t)
  BY <1>1, <1>2, <1>6, MarkInv DEF ExpireFile
<1> QED
  BY <1>3, <1>4, <1>5, <1>6, <1>8 DEF Result, t, q

\* Every step preserves the inductive invariant
LEMMA NextInv ==
    ASSUME IInv, [Next]_vars
    PROVE  IInv'
<1>1. CASE \E f \in Files : Push(f)
  BY <1>1, PushInv
<1>2. CASE \E b \in DOMAIN batches : EndBatch(b)
  BY <1>2, EndBatchInv
<1>3. CASE TriggerIngest
  BY <1>3, TriggerInv DEF TriggerIngest
<1>4. CASE ResumeIngest
  BY <1>4, TriggerInv DEF ResumeIngest
<1>5. CASE RetryErrors
  BY <1>5, RetryInv
<1>6. CASE NothingToIngest
  BY <1>6, EndJobInv DEF NothingToIngest, Statuses, IInv, TypeOK
<1>7. CASE OpenRun
  BY <1>7, OpenRunInv
<1>8. CASE ReattachBatch
  BY <1>8, ReattachInv
<1>9. CASE CreateBatch
  BY <1>9, CreateBatchInv
<1>10. CASE RecordBatch
  BY <1>10, RecordBatchInv
<1>11. CASE Poll
  BY <1>11, PollInv
<1>12. CASE GoSequential \/ LoseCheckpoint
  BY <1>12, LeaveInv
<1>13. CASE \E r \in Results : Result(r[1], r[2])
  BY <1>13, ResultInv
<1>14. CASE CompleteRun
  BY <1>14, CompleteRunInv
<1>15. CASE FinishJob
  <2>1. job' = NoJob /\ sha' \in {sha, job.tree} /\ status' \in Statuses
        /\ UNCHANGED <<envVars, stored, run, stale, batches, started>>
    BY <1>15 DEF FinishJob, Statuses
  <2> QED
    BY <2>1, EndJobInv, JobTypes DEF IInv, TypeOK
<1>16. CASE FailJob
  BY <1>16, EndJobInv DEF FailJob, Statuses, IInv, TypeOK
<1>17. CASE Crash
  BY <1>17, EndJobInv DEF Crash, IInv, TypeOK
<1>18. CASE GoStale \/ Sweep
  BY <1>18, SweepInv
<1>19. CASE UNCHANGED vars
  BY <1>19 DEF vars, IInv, TypeOK, BatchIds, NotAhead, TodoIsOpen,
               BatchNotOutdated, Behind, Floor
<1> QED
  BY <1>1, <1>2, <1>3, <1>4, <1>5, <1>6, <1>7, <1>8, <1>9, <1>10, <1>11,
     <1>12, <1>13, <1>14, <1>15, <1>16, <1>17, <1>18, <1>19 DEF Next

\* The inductive invariant holds in every environment
LEMMA Inductive == Spec => []IInv
BY InitInv, NextInv, PTL DEF Spec

(* Every state reached in any environment is well-typed; in particular, no   *)
(* run or job names a batch that was not submitted, and the tallies stay     *)
(* within the number of files.                                               *)
THEOREM TypeCorrect == Spec => []TypeOK
<1>1. IInv => TypeOK
  BY DEF IInv
<1> QED
  BY <1>1, Inductive, PTL

-----------------------------------------------------------------------------
(* What no step may do                                                       *)

\* A step changes a run's checkpoints by opening a run, or finishes no file less
LEMMA DoneStays ==
    ASSUME IInv, [Next]_vars, run' # NewRun, NEW f \in Files,
           run.cps[f] = "done"
    PROVE  run'.cps[f] = "done"
<1>1. CASE run'.cps = run.cps
  BY <1>1
<1>2. CASE RetryErrors
  <2>1. run' = [run EXCEPT !.status = "running",
                           !.cps = [g \in Files |-> IF run.cps[g] = "error"
                                                    THEN "pending" ELSE run.cps[g]]]
    BY <1>2 DEF RetryErrors
  <2>2. run'.cps[f] = IF run.cps[f] = "error" THEN "pending" ELSE run.cps[f]
    BY <2>1, JobTypes DEF Run
  <2> QED
    BY <2>2
<1>3. CASE OpenRun
  BY <1>3 DEF OpenRun
<1>4. CASE \E r \in Results : Result(r[1], r[2])
  <2>1. PICK r \in Results : Result(r[1], r[2])
    BY <1>4
  <2>2. r[1] \in job.todo
    BY ResultsAreRequests
  <2>3. run.cps[r[1].file] # "done"
    BY <2>2 DEF IInv, TodoIsOpen
  <2>4. PICK cp \in {"done", "error"}, failed \in BOOLEAN : Mark(r[1], cp, failed)
    BY <2>1 DEF Result, StoreFile, StorePart, StoreNoRules, FailFile, ExpireFile
  <2> QED
    BY <2>2, <2>3, <2>4, MarkStep
<1>5. CASE ReattachBatch \/ RecordBatch \/ Poll \/ CompleteRun \/ Sweep
  BY <1>1, <1>5, JobTypes
     DEF ReattachBatch, RecordBatch, Poll, CompleteRun, Sweep, Run
<1>6. CASE UNCHANGED run
  BY <1>6
<1> QED
  BY <1>2, <1>3, <1>4, <1>5, <1>6
     DEF Next, vars, Push, EndBatch, TriggerIngest, ResumeIngest, NothingToIngest,
         CreateBatch, GoSequential, LoseCheckpoint, FinishJob, FailJob, Crash,
         GoStale

(* A file that is done stays done while its run is the latest, whatever      *)
(* crashes, resumes, retries and re-attached batches come in between.        *)
THEOREM DoneFilesStayDone == Spec => DoneIsFinal
<1>1. IInv /\ [Next]_vars =>
        [run' # NewRun =>
           \A f \in Files : run.cps[f] = "done" => run'.cps[f] = "done"]_vars
  BY DoneStays
<1> QED
  BY <1>1, Inductive, PTL DEF Spec, DoneIsFinal

\* A step that stores rules brings in none from before all that it finds
LEMMA StoredStays ==
    ASSUME IInv, [Next]_vars, NEW f \in Files, NEW c \in stored'[f], c.file = f
    PROVE  Floor(f, c.version)
<1>1. ASSUME c \in stored[f]
      PROVE  Floor(f, c.version)
  <2>1. c.version \in Int
    BY <1>1 DEF IInv, TypeOK, Content, NoContent, Versions
  <2>2. c.version <= c.version
    BY <2>1
  <2> QED
    BY <1>1, <2>2 DEF Floor
<1>2. CASE \E r \in Results : Result(r[1], r[2])
  <2>1. PICK r \in Results : Result(r[1], r[2])
    BY <1>2
  <2> DEFINE t == r[1]
             q == r[2]
  <2>2. /\ t \in job.todo /\ t \in Request /\ q \in Request
        /\ job.phase \in {"stream", "sequential"}
        /\ job.phase = "stream" => q \in batches[job.batch].reqs
        /\ job.phase = "sequential" => t = q
    BY ResultsAreRequests
  <2>3. Result(t, q)
    BY <2>1
  <2> HIDE DEF t, q
  <2>4. c \in stored[f] \/ (c = Sent(q) /\ f = t.file)
    BY <2>3 DEF Result, StoreFile, StorePart, StoreNoRules, FailFile, ExpireFile,
                IInv, TypeOK
  <2>5. CASE c = Sent(q) /\ f = t.file
    <3>1. q.file = f /\ q.version = c.version
      BY <2>5 DEF Sent
    <3>2. Behind(t) /\ run.cps[f] # "done"
      BY <2>2, <2>5 DEF IInv, TodoIsOpen
    <3>3. Behind(q)
      <4>1. CASE job.phase = "sequential"
        BY <2>2, <3>2, <4>1
      <4>2. CASE job.phase = "stream"
        <5>1. job.batch = run.batch /\ run.batch # 0
          BY <4>2 DEF IInv, BatchIds
        <5> QED
          BY <2>2, <3>1, <3>2, <4>2, <5>1 DEF IInv, BatchNotOutdated
      <4> QED
        BY <2>2, <4>1, <4>2
    <3> QED
      BY <3>1, <3>3 DEF Behind
  <2> QED
    BY <1>1, <2>4, <2>5
<1>3. CASE UNCHANGED stored
  BY <1>1, <1>3
<1> QED
  BY <1>2, <1>3
     DEF Next, vars, Push, EndBatch, TriggerIngest, ResumeIngest, RetryErrors,
         NothingToIngest, OpenRun, ReattachBatch, CreateBatch, RecordBatch, Poll,
         GoSequential, LoseCheckpoint, CompleteRun, FinishJob, FailJob, Crash,
         GoStale, Sweep

(* Once all rules of a file are of some version or newer, no store brings in *)
(* one of an older version, be it of a batch that was re-attached.           *)
THEOREM VersionsAscend == Spec => RulesNeverGoBack
<1>1. IInv /\ [Next]_vars =>
        [\A f \in Files : \A c \in stored'[f] : c.file = f =>
            \E d \in stored[f] : d.file = f => d.version <= c.version]_vars
  BY StoredStays DEF Floor
<1> QED
  BY <1>1, Inductive, PTL DEF Spec, RulesNeverGoBack

-----------------------------------------------------------------------------
(* The calm environment: one way to process files, every result a success or *)
(* an error that is reported, the diff always available, pushes only while   *)
(* there is nothing to resume, and Resume requested from the page.           *)
Calm ==
    /\ Outcomes \subseteq {"succeeded", "errored"}
    /\ Modes # {"batch", "sequential"}
    /\ ~FetchFails /\ ~PushAnytime /\ ButtonOnly

\* Files the run has yet to do, or to do again
Open == With("pending") \union With("error")

\* What the diff selects, and what of it the run is not done with
Modified == {f \in Changed : head[f] > 0}
Due      == Logic \cap Modified
Left     == Modified \ DoneFiles

Working == {"open", "created", "polling", "stream", "sequential"}

\* All rules of f were stored, from one version of it
Whole(f) == \E v \in Versions : StoredAt(f, v)

(* A run with open files can be resumed, its open files are in the diff and  *)
(* its done files have their rules, which are HEAD's while it can go on.     *)
RunIsCurrent ==
    /\ Open \subseteq Due
    /\ Open # {} => run.status \in Incomplete
    /\ \A f \in DoneFiles : f \in Logic /\ head[f] > 0 /\ Whole(f)
    /\ job.phase \notin {"none", "listing"} \/ Open # {}
          => \A f \in DoneFiles : StoredAt(f, head[f])
    /\ job.resume /\ job.phase \in {"listing", "open"} => Open # {}
    /\ job.phase \in Working => run.status \in Incomplete

\* What the last commit shares with HEAD has HEAD's rules
ShaIsCurrent ==
    \A f \in Logic :
        /\ sha[f] <= head[f]
        /\ sha[f] = head[f] /\ head[f] > 0
              => StoredAt(f, head[f])

(* A job works at HEAD, and every file of the diff is done, left to do or    *)
(* has failed in this very job, which then remembers that it had a failure.  *)
JobCoversDue ==
    /\ job.phase = "none" => job = NoJob
    /\ job.phase \in {"none", "listing"} => ~job.failed
    /\ job.phase \in Working \union {"closing"} =>
          /\ job.tree = head
          /\ job.failed => \E g \in With("error") : \A t \in job.todo : t.file # g
          /\ \A f \in Due : \/ f \in DoneFiles
                            \/ \E t \in job.todo : t.file = f
                            \/ f \in With("error") /\ job.failed
    /\ \A t \in job.todo : t.file \in Due /\ t.version = head[t.file]
    /\ job.phase \in {"open", "created", "polling"}
          => job.todo = RequestsFor(Left)
    /\ job.phase = "closing" => job.todo = {}

(* The batch a resume would go back to asks for exactly what a new listing   *)
(* would, so its results can be matched by their ids.                        *)
BatchIsCurrent ==
    /\ \A b \in DOMAIN batches : UniqueIds(batches[b].reqs)
    /\ job.phase \in {"created", "polling", "stream"}
          => job.todo \subseteq batches[job.batch].reqs
    /\ job.phase = "polling" => batches[job.batch].reqs = job.todo
    /\ job.phase = "stream" => run.ended
    /\ run.batch # 0 /\ ~run.ended /\ Open # {}
          => batches[run.batch].reqs = RequestsFor(Left)
    /\ job.phase = "sequential" => "sequential" \in Modes
    /\ "sequential" \in Modes
          => run.batch = 0 /\ job.phase \notin {"created", "polling", "stream"}

\* A completed run counts its files, and "idle" vouches for its rules
CompletedIsTotal ==
    /\ run.status = "completed" =>
          /\ run.done = Cardinality(DoneFiles)
          /\ run.errored = 0
          /\ status = "idle" => \A f \in DoneFiles : StoredAt(f, sha[f])
    /\ job.phase = "closing" =>
          /\ run.status \in {"completed", "completed_with_errors"}
          /\ run.status = "completed" => With("error") = {}
    /\ status = "idle" => job = NoJob

CalmInv == RunIsCurrent /\ ShaIsCurrent /\ JobCoversDue /\ BatchIsCurrent
             /\ CompletedIsTotal

-----------------------------------------------------------------------------
(* Lemmas about the calm environment                                         *)

\* A set of naturals has a least element
LEMMA LeastOf ==
    ASSUME NEW T \in SUBSET Nat, T # {}
    PROVE  \E x \in T : \A y \in T : x <= y
<1> DEFINE R == OpToRel(<, Nat)
<1>1. IsWellFoundedOn(R, Nat)
  BY NatLessThanWellFounded
<1>2. \A x, y \in Nat : y < x => <<y, x>> \in R
  BY DEF OpToRel
<1> HIDE DEF R
<1>3. PICK x \in T : \A y \in T : ~ (<<y, x>> \in R)
  BY <1>1, WFMin
<1>4. \A y \in T : ~ (y < x)
  BY <1>2, <1>3
<1> QED
  BY <1>4

\* What the definitions over the run and the diff depend on
LEMMA SameFiles ==
    ASSUME UNCHANGED <<head, sha>>, run'.cps = run.cps
    PROVE  /\ Open' = Open /\ Due' = Due /\ Left' = Left /\ Modified' = Modified
           /\ DoneFiles' = DoneFiles /\ With("error")' = With("error")
           /\ With("pending")' = With("pending")
           /\ RequestsFor(Left)' = RequestsFor(Left)
<1>1. /\ With("done")' = With("done") /\ With("error")' = With("error")
      /\ With("pending")' = With("pending")
  BY DEF With
<1>2. Changed' = Changed
  BY DEF Changed
<1>3. Modified' = Modified
  BY <1>2 DEF Modified
<1>4. DoneFiles' = DoneFiles /\ Open' = Open /\ Due' = Due /\ Left' = Left
  BY <1>1, <1>3 DEF DoneFiles, Open, Due, Left
<1>5. RequestsFor(Left)' = RequestsFor(Left)
  BY <1>4 DEF RequestsFor
<1> QED
  BY <1>1, <1>3, <1>4, <1>5

\* The types the calm lemmas need of HEAD, sha and the store
LEMMA FileTypes ==
    ASSUME IInv
    PROVE  /\ head \in Trees /\ sha \in Trees
           /\ \A f \in Files : head[f] \in Nat /\ sha[f] \in Nat
           /\ \A f \in Logic : f \in Files
BY FilesAssumption, EnvironmentAssumption DEF IInv, TypeOK, Trees, Versions

(* The diff, a full listing without a last commit, and no listing at all     *)
(* when HEAD has not moved, are the same set of files.                       *)
LEMMA ListingIsDiff ==
    ASSUME Calm, IInv, NEW S \in Listings
    PROVE  S = Modified \ (IF job.resume THEN DoneFiles ELSE {})
<1>1. CASE sha = NoTree
  <2>1. Modified = {f \in Files : head[f] > 0}
    BY <1>1, FileTypes DEF Modified, Changed, NoTree
  <2> QED
    BY <1>1, <2>1 DEF Listings, Collect
<1>2. CASE sha # NoTree /\ sha = head
  <2>1. Modified = {}
    BY <1>2 DEF Modified, Changed
  <2> QED
    BY <1>2, <2>1 DEF Listings
<1>3. CASE sha # NoTree /\ sha # head
  BY <1>3 DEF Listings, Collect, Modified, Calm
<1> QED
  BY <1>1, <1>2, <1>3

\* Files are open, done or without a checkpoint, one of the three
LEMMA OpenNotDone ==
    Open \cap DoneFiles = {} /\ Open \subseteq Files /\ DoneFiles \subseteq Files
BY DEF Open, DoneFiles, With

\* Open files make the run resumable from the page, unless a job is running
LEMMA OpenCanResume ==
    ASSUME CalmInv, Open # {}
    PROVE  CanResume
BY DEF CalmInv, RunIsCurrent, CanResume, Resumable, Incomplete, Open

-----------------------------------------------------------------------------
(* Every step of a calm environment preserves its invariant                  *)

\* Nothing is open or done before the first run
LEMMA CalmInit ==
    ASSUME Init
    PROVE  CalmInv
<1>1. Open = {} /\ DoneFiles = {} /\ With("error") = {}
  BY DEF Init, NoRun, NewRun, Open, DoneFiles, With
<1>2. /\ job = NoJob /\ job.phase = "none" /\ job.todo = {} /\ ~job.failed
      /\ run.status = "none" /\ run.batch = 0
  BY DEF Init, NoJob, NoRun, NewRun
<1>3. RunIsCurrent /\ JobCoversDue /\ CompletedIsTotal
  BY <1>1, <1>2 DEF RunIsCurrent, JobCoversDue, CompletedIsTotal, Working
<1>4. ShaIsCurrent
  <2>1. \A f \in Files : sha[f] = 0 /\ head[f] \in {0, 1}
    BY DEF Init, NoTree
  <2> QED
    BY <2>1, FilesAssumption DEF ShaIsCurrent
<1>5. BatchIsCurrent
  BY <1>2 DEF Init, BatchIsCurrent
<1> QED
  BY <1>3, <1>4, <1>5 DEF CalmInv

\* A push meets no open file, and takes its file out of what is shared
LEMMA CalmPush ==
    ASSUME Calm, IInv, CalmInv, NEW f \in Files, Push(f)
    PROVE  CalmInv'
<1>1. /\ head' = [head EXCEPT ![f] = head[f] + 1]
      /\ UNCHANGED <<sha, stored, status, run, job, batches>>
      /\ job = NoJob /\ ~CanResume
  BY DEF Push, Calm
<1>2. job.phase = "none" /\ job.todo = {} /\ ~job.failed
  BY <1>1 DEF NoJob
<1>3. Open = {}
  BY <1>1, OpenCanResume
<1>4. /\ Open' = {} /\ DoneFiles' = DoneFiles /\ With("error")' = With("error")
      /\ DoneFiles \subseteq Files
  BY <1>1, <1>3 DEF Open, DoneFiles, With
<1>5. \A g \in Files : head'[g] \in Nat /\ head[g] <= head'[g] /\ head[g] \in Nat
                       /\ sha[g] \in Nat /\ (g # f => head'[g] = head[g])
                       /\ (g = f => head'[g] = head[g] + 1)
  BY <1>1, FileTypes DEF Trees
<1>6. RunIsCurrent'
  <2>1. \A g \in DoneFiles : head'[g] > 0
    BY <1>4, <1>5 DEF CalmInv, RunIsCurrent
  <2> QED
    BY <1>1, <1>2, <1>4, <2>1 DEF CalmInv, RunIsCurrent, Working, StoredAt, Whole
<1>7. ShaIsCurrent'
  <2>1. SUFFICES ASSUME NEW g \in Logic
                 PROVE  /\ sha[g] <= head'[g]
                        /\ sha[g] = head'[g] /\ head'[g] > 0
                             => StoredAt(g, head'[g])
    BY <1>1 DEF ShaIsCurrent, StoredAt
  <2>2. g \in Files /\ sha[g] <= head[g]
    BY FileTypes DEF CalmInv, ShaIsCurrent
  <2>3. CASE g = f
    BY <1>5, <2>2, <2>3
  <2>4. CASE g # f
    <3>1. head'[g] = head[g]
      BY <1>5, <2>2, <2>4
    <3> QED
      BY <3>1 DEF CalmInv, ShaIsCurrent
  <2> QED
    BY <2>3, <2>4
<1>8. JobCoversDue'
  BY <1>1, <1>2 DEF JobCoversDue, Working
<1>9. BatchIsCurrent'
  BY <1>1, <1>2, <1>4 DEF CalmInv, BatchIsCurrent
<1>10. CompletedIsTotal'
  BY <1>1, <1>2, <1>4 DEF CalmInv, CompletedIsTotal, StoredAt
<1> QED
  BY <1>6, <1>7, <1>8, <1>9, <1>10 DEF CalmInv

\* That a batch ends changes none of its requests
LEMMA CalmEndBatch ==
    ASSUME Calm, IInv, CalmInv, NEW b \in DOMAIN batches, EndBatch(b)
    PROVE  CalmInv'
<1>1. /\ batches' = [batches EXCEPT ![b].ended = TRUE]
      /\ UNCHANGED <<head, sha, stored, status, run, job>>
  BY DEF EndBatch, envVars
<1>2. \A c \in DOMAIN batches : batches'[c].reqs = batches[c].reqs
  BY <1>1, JobTypes DEF Batch
<1>3. DOMAIN batches' = DOMAIN batches
  BY <1>1, JobTypes
<1>4. /\ run.batch # 0 => batches'[run.batch].reqs = batches[run.batch].reqs
      /\ job.phase \in {"created", "polling", "stream"}
           => batches'[job.batch].reqs = batches[job.batch].reqs
  BY <1>2, BatchIdAt, JobTypes DEF IInv, BatchIds
<1>5. BatchIsCurrent'
  <2>1. \A c \in DOMAIN batches' : UniqueIds(batches'[c].reqs)
    BY <1>2, <1>3 DEF CalmInv, BatchIsCurrent
  <2> QED
    BY <1>1, <1>4, <2>1, SameFiles DEF CalmInv, BatchIsCurrent
<1>6. RunIsCurrent' /\ ShaIsCurrent' /\ CompletedIsTotal'
  BY <1>1, SameFiles
     DEF CalmInv, RunIsCurrent, ShaIsCurrent, CompletedIsTotal, StoredAt, Whole
<1>7. JobCoversDue'
  BY <1>1, SameFiles DEF CalmInv, JobCoversDue
<1> QED
  BY <1>5, <1>6, <1>7 DEF CalmInv

\* A step that only starts or ends a job, without moving sha
LEMMA CalmIdleStep ==
    ASSUME Calm, IInv, CalmInv, IInv',
           UNCHANGED <<head, sha, stored, batches>>,
           run' = run \/ (run'.cps = run.cps /\ run'.batch = run.batch
                            /\ run'.ended = run.ended
                            /\ run'.status \in Incomplete),
           \/ /\ job' = NoJob /\ status' \in {"error", status}
           \/ /\ job'.phase = "listing" /\ job'.todo = {} /\ ~job'.failed
              /\ job'.resume => Open # {}
              /\ status' = "ingesting"
    PROVE  CalmInv'
<1>1. NoJob.phase = "none" /\ NoJob.todo = {} /\ ~NoJob.failed
  BY DEF NoJob
<1>2. /\ job'.phase \in {"none", "listing"} /\ job'.todo = {} /\ ~job'.failed
      /\ job'.phase = "none" => job' = NoJob
      /\ job'.phase = "listing" /\ job'.resume => Open # {}
      /\ status' = "idle" => job' = NoJob
  BY <1>1
<1>3. /\ run'.cps = run.cps /\ run'.batch = run.batch
      /\ run'.ended = run.ended
      /\ run' = run \/ run'.status \in Incomplete
  OBVIOUS
<1>4. RunIsCurrent'
  BY <1>2, <1>3, SameFiles DEF CalmInv, RunIsCurrent, Working, StoredAt, Whole
<1>5. ShaIsCurrent' /\ JobCoversDue'
  BY <1>2 DEF CalmInv, ShaIsCurrent, JobCoversDue, Working, StoredAt
<1>6. BatchIsCurrent'
  BY <1>2, <1>3, SameFiles DEF CalmInv, BatchIsCurrent
<1>7. CompletedIsTotal'
  BY <1>2, <1>3, SameFiles DEF CalmInv, CompletedIsTotal, Incomplete, StoredAt
<1> QED
  BY <1>4, <1>5, <1>6, <1>7 DEF CalmInv

\* Retry leaves as many files open as were
LEMMA CalmRetry ==
    ASSUME Calm, IInv, CalmInv, IInv', RetryErrors
    PROVE  CalmInv'
<1>1. /\ job'.phase = "listing" /\ job'.todo = {} /\ ~job'.failed /\ job = NoJob
      /\ status' = "ingesting"
  BY StartStep DEF RetryErrors, IInv
<1>2. UNCHANGED <<head, sha, stored, batches>> /\ With("error") # {}
  BY DEF RetryErrors, envVars
<1>3. /\ run'.status = "running" /\ run'.batch = run.batch /\ run'.ended = run.ended
      /\ \A f \in Files : run'.cps[f] = IF run.cps[f] = "error"
                                        THEN "pending" ELSE run.cps[f]
  BY JobTypes DEF RetryErrors, Run
<1>4. Open' = Open /\ Open # {}
  BY <1>2, <1>3 DEF Open, With
<1>5. DoneFiles' = DoneFiles
  BY <1>3 DEF DoneFiles, With
<1>6. Due' = Due /\ Left' = Left /\ RequestsFor(Left)' = RequestsFor(Left)
  BY <1>2, <1>5 DEF Due, Left, Modified, Changed, RequestsFor
<1>7. RunIsCurrent'
  BY <1>1, <1>2, <1>3, <1>4, <1>5, <1>6
     DEF CalmInv, RunIsCurrent, Working, Incomplete, StoredAt, Whole
<1>8. ShaIsCurrent' /\ JobCoversDue'
  BY <1>1, <1>2 DEF CalmInv, ShaIsCurrent, JobCoversDue, Working, StoredAt
<1>9. BatchIsCurrent'
  BY <1>1, <1>2, <1>3, <1>4, <1>6 DEF CalmInv, BatchIsCurrent
<1>10. CompletedIsTotal'
  BY <1>1, <1>3 DEF CalmInv, CompletedIsTotal
<1> QED
  BY <1>7, <1>8, <1>9, <1>10 DEF CalmInv

\* No file to process: the job resumes nothing, and the diff needs nothing
LEMMA NothingIsDue ==
    ASSUME Calm, IInv, CalmInv, NothingToIngest
    PROVE  Due = {} /\ Open = {}
<1>1. PICK S \in Listings : RequestsFor(S) = {}
  BY DEF NothingToIngest
<1>2. S = Modified \ (IF job.resume THEN DoneFiles ELSE {})
  BY ListingIsDiff
<1>3. S \cap Logic = {}
  BY <1>1 DEF RequestsFor
<1>4. ~job.resume
  <2> SUFFICES ASSUME job.resume PROVE FALSE
    OBVIOUS
  <2>1. Open # {} /\ Open \subseteq Due
    BY DEF CalmInv, RunIsCurrent, NothingToIngest
  <2> QED
    BY <1>2, <1>3, <2>1, OpenNotDone DEF Due
<1>5. Due = {}
  BY <1>2, <1>3, <1>4 DEF Due
<1> QED
  BY <1>5 DEF CalmInv, RunIsCurrent

\* Without a due file, HEAD's rules are all stored
LEMMA NoneDue ==
    ASSUME IInv, CalmInv, Due = {}, NEW f \in Logic, head[f] > 0
    PROVE  /\ sha[f] = head[f]
           /\ StoredAt(f, head[f])
<1>1. sha[f] = head[f]
  BY FileTypes DEF Due, Modified, Changed
<1> QED
  BY <1>1 DEF CalmInv, ShaIsCurrent

\* sha moves to HEAD because nothing is due
LEMMA CalmNothing ==
    ASSUME Calm, IInv, CalmInv, NothingToIngest
    PROVE  CalmInv'
<1>1. /\ job' = NoJob /\ sha' = head /\ status' = "idle"
      /\ UNCHANGED <<head, stored, run, batches>>
  BY DEF NothingToIngest, envVars
<1>2. job'.phase = "none" /\ job'.todo = {} /\ ~job'.failed
  BY <1>1 DEF NoJob
<1>3. Due = {} /\ Open = {}
  BY NothingIsDue
<1>4. Open' = {} /\ DoneFiles' = DoneFiles
  BY <1>1, <1>3 DEF Open, DoneFiles, With
<1>5. RunIsCurrent'
  BY <1>1, <1>2, <1>4 DEF CalmInv, RunIsCurrent, Working, StoredAt, Whole
<1>6. ShaIsCurrent'
  BY <1>1, <1>3, NoneDue, FileTypes DEF ShaIsCurrent, StoredAt
<1>7. JobCoversDue'
  BY <1>1, <1>2 DEF JobCoversDue, Working
<1>8. BatchIsCurrent'
  BY <1>1, <1>2, <1>4 DEF CalmInv, BatchIsCurrent
<1>9. CompletedIsTotal'
  <2>1. \A f \in DoneFiles : StoredAt(f, head[f])
    BY <1>3, NoneDue DEF CalmInv, RunIsCurrent
  <2> QED
    BY <1>1, <1>2, <1>4, <2>1 DEF CalmInv, CompletedIsTotal, StoredAt
<1> QED
  BY <1>5, <1>6, <1>7, <1>8, <1>9 DEF CalmInv

\* A job lists what its run has left of the diff
LEMMA CalmOpenRun ==
    ASSUME Calm, IInv, CalmInv, OpenRun
    PROVE  CalmInv'
<1>1. PICK S \in Listings :
         job' = [job EXCEPT !.phase = "open", !.tree = head,
                            !.todo = RequestsFor(S)]
  BY DEF OpenRun
<1>2. /\ job'.phase = "open" /\ job'.tree = head /\ job'.todo = RequestsFor(S)
      /\ job'.resume = job.resume /\ job'.failed = job.failed
      /\ job.phase = "listing" /\ ~job.failed
      /\ UNCHANGED <<head, sha, stored, status, batches>>
  BY <1>1, JobTypes DEF OpenRun, Job, envVars, CalmInv, JobCoversDue
<1>3. S = Modified \ (IF job.resume THEN DoneFiles ELSE {})
  BY ListingIsDiff
<1>4. Modified' = Modified /\ Due' = Due
  BY <1>2 DEF Modified, Due, Changed
<1>6. Left' = S
      /\ (~job.resume => run' = NewRun /\ DoneFiles' = {} /\ Open' = {})
      /\ (job.resume => run' = run)
  <2>1. CASE job.resume
    BY <1>2, <1>3, <2>1, SameFiles DEF OpenRun, Left
  <2>2. CASE ~job.resume
    <3>1. run' = NewRun
      BY <2>2 DEF OpenRun
    <3>2. DoneFiles' = {} /\ Open' = {}
      BY <3>1 DEF NewRun, DoneFiles, Open, With
    <3> QED
      BY <1>3, <1>4, <2>2, <3>1, <3>2 DEF Left
  <2> QED
    BY <2>1, <2>2
<1>7. S \subseteq Files /\ head \in Trees
  BY ListingsAreFiles, FileTypes
<1>8. /\ \A q \in RequestsFor(S) : q.file \in S \cap Logic /\ q.version = head[q.file]
      /\ \A f \in S \cap Logic : \E q \in RequestsFor(S) : q.file = f
  <2>1. \A q \in RequestsFor(S) : q.file \in S \cap Logic /\ q.version = head[q.file]
    BY <1>7, RequestsAreUnique
  <2>2. ASSUME NEW f \in S \cap Logic
        PROVE  \E q \in RequestsFor(S) : q.file = f
    <3>1. [id |-> Place(S, f), file |-> f, version |-> head[f]] \in RequestsFor(S)
      BY DEF RequestsFor
    <3> QED
      BY <3>1
  <2> QED
    BY <2>1, <2>2
<1>9. job'.todo = RequestsFor(Left)'
  BY <1>2, <1>6 DEF RequestsFor
<1>10. NewRun.status = "running" /\ NewRun.batch = 0
  BY DEF NewRun
<1>11. RunIsCurrent'
  <2>1. CASE job.resume
    BY <1>2, <1>6, <2>1, SameFiles DEF CalmInv, RunIsCurrent, Working, StoredAt, Whole
  <2>2. CASE ~job.resume
    BY <1>2, <1>6, <1>10, <2>2 DEF RunIsCurrent, Incomplete
  <2> QED
    BY <2>1, <2>2
<1>12. ShaIsCurrent'
  BY <1>2 DEF CalmInv, ShaIsCurrent, StoredAt
<1>13. JobCoversDue'
  <2>1. \A f \in Due : f \in DoneFiles' \/ \E t \in job'.todo : t.file = f
    <3>1. \A f \in Due : f \in DoneFiles' \/ f \in S
      BY <1>4, <1>6 DEF Left, Due
    <3> QED
      BY <1>2, <1>8, <3>1 DEF Due
  <2>2. \A t \in job'.todo : t.file \in Due /\ t.version = head[t.file]
    BY <1>2, <1>3, <1>8 DEF Due
  <2> QED
    BY <1>2, <1>4, <1>9, <2>1, <2>2 DEF JobCoversDue
<1>14. BatchIsCurrent'
  <2>1. CASE job.resume
    BY <1>2, <1>6, <2>1, SameFiles DEF CalmInv, BatchIsCurrent
  <2>2. CASE ~job.resume
    BY <1>2, <1>6, <1>10, <2>2 DEF CalmInv, BatchIsCurrent
  <2> QED
    BY <2>1, <2>2
<1>15. CompletedIsTotal'
  <2>1. run'.status # "completed" /\ status # "idle"
    <3>1. CASE job.resume
      BY <1>2, <1>6, <3>1 DEF CalmInv, RunIsCurrent, Incomplete, CompletedIsTotal, NoJob
    <3>2. CASE ~job.resume
      BY <1>2, <1>6, <1>10, <3>2 DEF CalmInv, CompletedIsTotal, NoJob
    <3> QED
      BY <3>1, <3>2
  <2> QED
    BY <1>2, <2>1 DEF CompletedIsTotal
<1> QED
  BY <1>11, <1>12, <1>13, <1>14, <1>15 DEF CalmInv

\* A step of the job between listing and results: the files stay as they are
WorkStep ==
    /\ UNCHANGED <<head, sha, stored, status>>
    /\ run'.cps = run.cps /\ run'.status = run.status
    /\ job.phase \in {"open", "created", "polling"}
    /\ job'.phase \in {"created", "polling", "stream", "sequential"}
    /\ job'.todo = job.todo /\ job'.tree = job.tree
    /\ job'.failed = job.failed

\* Such a step keeps the invariant if the batch stays current
LEMMA CalmWorkStep ==
    ASSUME IInv, CalmInv, WorkStep, BatchIsCurrent'
    PROVE  CalmInv'
<1>1. job # NoJob
  BY DEF WorkStep, NoJob
<1>2. RunIsCurrent'
  BY SameFiles DEF WorkStep, CalmInv, RunIsCurrent, Working, StoredAt, Whole
<1>3. ShaIsCurrent'
  BY DEF WorkStep, CalmInv, ShaIsCurrent, StoredAt
<1>4. JobCoversDue'
  BY SameFiles DEF WorkStep, CalmInv, JobCoversDue, Working
<1>5. CompletedIsTotal'
  BY <1>1, SameFiles
     DEF WorkStep, CalmInv, CompletedIsTotal, RunIsCurrent, Working, Incomplete
<1> QED
  BY <1>2, <1>3, <1>4, <1>5 DEF CalmInv

\* The batch gone back to asks for what was listed again
LEMMA CalmReattach ==
    ASSUME Calm, IInv, CalmInv, ReattachBatch
    PROVE  CalmInv'
<1>1. /\ job.phase = "open" /\ "batch" \in Modes /\ job.resume
      /\ run.batch # 0 /\ ~run.ended
      /\ UNCHANGED <<head, sha, stored, status, batches>>
  BY DEF ReattachBatch, envVars
<1>2. batches[run.batch].reqs = RequestsFor(Left) /\ job.todo = RequestsFor(Left)
  BY <1>1 DEF CalmInv, RunIsCurrent, JobCoversDue, BatchIsCurrent
<1>3. /\ job'.phase = IF batches[run.batch].ended THEN "stream" ELSE "polling"
      /\ job'.batch = run.batch /\ job'.todo = job.todo /\ job'.tree = job.tree
      /\ job'.failed = job.failed
  BY JobTypes DEF ReattachBatch, Job
<1>4. /\ run'.ended = batches[run.batch].ended /\ run'.batch = run.batch
      /\ run'.cps = run.cps /\ run'.status = run.status
  BY JobTypes DEF ReattachBatch, Run
<1>5. BatchIsCurrent'
  BY <1>1, <1>2, <1>3, <1>4, SameFiles DEF CalmInv, BatchIsCurrent
<1>6. WorkStep
  BY <1>1, <1>3, <1>4 DEF WorkStep
<1> QED
  BY <1>5, <1>6, CalmWorkStep

\* A new batch asks for what was listed, under distinct ids
LEMMA CalmCreateBatch ==
    ASSUME Calm, IInv, CalmInv, CreateBatch
    PROVE  CalmInv'
<1> DEFINE n == Len(batches) + 1
           new == [reqs |-> job.todo, ended |-> FALSE]
<1>1. /\ job.phase = "open" /\ "batch" \in Modes
      /\ batches' = Append(batches, new)
      /\ UNCHANGED <<head, sha, stored, status, run>>
  BY DEF CreateBatch, envVars
<1>2. /\ job'.phase = "created" /\ job'.batch = n /\ job'.todo = job.todo
      /\ job'.tree = job.tree /\ job'.failed = job.failed
  BY JobTypes DEF CreateBatch, Job
<1>3. new.reqs = job.todo
  OBVIOUS
<1> HIDE DEF new
<1>4. /\ DOMAIN batches' = 1..n /\ DOMAIN batches = 1..Len(batches)
      /\ batches'[n] = new
      /\ \A b \in DOMAIN batches : batches'[b] = batches[b]
  BY <1>1, JobTypes
<1>5. UniqueIds(job.todo)
  <2>1. Left \subseteq Files
    BY DEF Left, Modified, Changed
  <2> QED
    BY <1>1, <2>1, RequestsAreUnique, FileTypes DEF CalmInv, JobCoversDue
<1>6. \A b \in DOMAIN batches' : UniqueIds(batches'[b].reqs)
  <2>1. ASSUME NEW b \in DOMAIN batches', b # n PROVE b \in DOMAIN batches
    BY <1>4, <2>1, JobTypes
  <2> QED
    BY <1>3, <1>4, <1>5, <2>1 DEF CalmInv, BatchIsCurrent
<1>7. run.batch # 0 => batches'[run.batch] = batches[run.batch]
  BY <1>4, JobTypes, BatchIdAt DEF IInv, BatchIds
<1>8. "sequential" \notin Modes
  BY <1>1, OutcomesAssumption DEF Calm
<1> HIDE DEF n
<1>9. BatchIsCurrent'
  BY <1>1, <1>2, <1>3, <1>4, <1>6, <1>7, <1>8, SameFiles
     DEF CalmInv, BatchIsCurrent
<1>10. WorkStep
  BY <1>1, <1>2 DEF WorkStep
<1> QED
  BY <1>9, <1>10, CalmWorkStep

\* The run's new batch asks for what a resume would list
LEMMA CalmRecordBatch ==
    ASSUME Calm, IInv, CalmInv, RecordBatch
    PROVE  CalmInv'
<1>1. /\ job.phase = "created"
      /\ UNCHANGED <<head, sha, stored, status, batches>>
  BY DEF RecordBatch, envVars
<1>2. /\ job'.phase = "polling" /\ job'.batch = job.batch /\ job'.todo = job.todo
      /\ job'.tree = job.tree /\ job'.failed = job.failed
  BY JobTypes DEF RecordBatch, Job
<1>3. /\ run'.batch = job.batch /\ ~run'.ended
      /\ run'.cps = run.cps /\ run'.status = run.status
  BY JobTypes DEF RecordBatch, Run
<1>4. batches[job.batch].reqs = job.todo /\ job.todo = RequestsFor(Left)
  BY <1>1 DEF IInv, BatchNotOutdated, CalmInv, JobCoversDue
<1>5. BatchIsCurrent'
  BY <1>1, <1>2, <1>3, <1>4, SameFiles DEF CalmInv, BatchIsCurrent
<1>6. WorkStep
  BY <1>1, <1>2, <1>3 DEF WorkStep
<1> QED
  BY <1>5, <1>6, CalmWorkStep

\* Polling records the end of the batch and nothing about files
LEMMA CalmPoll ==
    ASSUME Calm, IInv, CalmInv, Poll
    PROVE  CalmInv'
<1>1. /\ job.phase = "polling"
      /\ UNCHANGED <<head, sha, stored, status, batches>>
  BY DEF Poll, envVars
<1>2. /\ job'.phase = IF batches[job.batch].ended THEN "stream" ELSE "polling"
      /\ job'.batch = job.batch /\ job'.todo = job.todo
      /\ job'.tree = job.tree /\ job'.failed = job.failed
  BY <1>1, JobTypes DEF Poll, Job
<1>3. /\ run'.ended = batches[job.batch].ended /\ run'.batch = run.batch
      /\ run'.cps = run.cps /\ run'.status = run.status
  BY JobTypes DEF Poll, Run
<1>4. run.batch = job.batch /\ batches[job.batch].reqs = job.todo
      /\ job.todo = RequestsFor(Left)
  BY <1>1 DEF IInv, BatchIds, CalmInv, JobCoversDue, BatchIsCurrent
<1>5. BatchIsCurrent'
  BY <1>1, <1>2, <1>3, <1>4, SameFiles DEF CalmInv, BatchIsCurrent
<1>6. WorkStep
  BY <1>1, <1>2, <1>3 DEF WorkStep
<1> QED
  BY <1>5, <1>6, CalmWorkStep

\* The sequential path goes on with what was listed
LEMMA CalmGoSequential ==
    ASSUME Calm, IInv, CalmInv, GoSequential
    PROVE  CalmInv'
<1>1. /\ job.phase = "open" /\ "sequential" \in Modes
      /\ UNCHANGED <<head, sha, stored, status, run, batches>>
  BY DEF GoSequential, envVars
<1>2. /\ job'.phase = "sequential" /\ job'.batch = job.batch
      /\ job'.todo = job.todo /\ job'.tree = job.tree /\ job'.failed = job.failed
  BY JobTypes DEF GoSequential, Job
<1>3. BatchIsCurrent'
  BY <1>1, <1>2, SameFiles DEF CalmInv, BatchIsCurrent
<1>4. WorkStep
  BY <1>1, <1>2 DEF WorkStep
<1> QED
  BY <1>3, <1>4, CalmWorkStep

\* A pass that lost a checkpoint only fails, without touching sha
LEMMA CalmLoseCheckpoint ==
    ASSUME Calm, IInv, CalmInv, LoseCheckpoint
    PROVE  CalmInv'
<1>1. /\ job'.phase = "broken" /\ job'.todo = {}
  BY JobTypes DEF LoseCheckpoint, Job
<1>2. UNCHANGED <<head, sha, stored, status, run, batches>>
  BY DEF LoseCheckpoint, envVars
<1>3. job.phase \in {"stream", "sequential"} /\ job # NoJob
  BY DEF LoseCheckpoint, Results, NoJob
<1>4. RunIsCurrent'
  BY <1>1, <1>2, <1>3, SameFiles DEF CalmInv, RunIsCurrent, Working, StoredAt, Whole
<1>5. ShaIsCurrent' /\ JobCoversDue'
  BY <1>1, <1>2 DEF CalmInv, ShaIsCurrent, JobCoversDue, Working, StoredAt
<1>6. BatchIsCurrent'
  BY <1>1, <1>2, SameFiles DEF CalmInv, BatchIsCurrent
<1>7. CompletedIsTotal'
  BY <1>1, <1>2, <1>3, SameFiles DEF CalmInv, CompletedIsTotal
<1> QED
  BY <1>4, <1>5, <1>6, <1>7 DEF CalmInv

\* Each result answers the request of the very file it is attributed to
LEMMA ResultsMatch ==
    ASSUME IInv, CalmInv, NEW r \in Results
    PROVE  r[1] = r[2]
<1>1. CASE job.phase = "sequential"
  BY <1>1, ResultsAreRequests
<1>2. CASE job.phase = "stream"
  <2>1. /\ job.batch \in DOMAIN batches
        /\ r[1] \in batches[job.batch].reqs /\ r[2] \in batches[job.batch].reqs
        /\ r[1].id = r[2].id
    BY <1>2, ResultsAreRequests DEF CalmInv, BatchIsCurrent
  <2> QED
    BY <2>1 DEF CalmInv, BatchIsCurrent, UniqueIds
<1> QED
  BY <1>1, <1>2, ResultsAreRequests

\* The rules of f at HEAD's version are stored, in full and in part
StoresAll(f)  == stored' = [stored EXCEPT ![f] = {[file |-> f, version |-> head[f]]}]
StoresPart(f) == stored' = [stored EXCEPT
                              ![f] = @ \union {[file |-> f, version |-> head[f]]}]

\* In a calm environment a result stores its file at HEAD, or fails it
LEMMA CalmResultCases ==
    ASSUME Calm, IInv, CalmInv, NEW r \in Results, Result(r[1], r[2])
    PROVE  \E t \in job.todo :
              /\ job.phase \in {"stream", "sequential"}
              /\ t.file \in Due /\ t.file \in Logic /\ t.file \in Files
              /\ head[t.file] > 0 /\ t.version = head[t.file]
              /\ \/ StoresAll(t.file) /\ Mark(t, "done", FALSE)
                 \/ /\ stored' = stored \/ StoresPart(t.file)
                    /\ Mark(t, "error", TRUE)
<1> DEFINE t == r[1]
<1>1. /\ t \in job.todo /\ job.phase \in {"stream", "sequential"} /\ r[2] = t
  BY ResultsAreRequests, ResultsMatch
<1>2. t.file \in Due /\ t.version = head[t.file]
  BY <1>1 DEF CalmInv, JobCoversDue
<1>3. t.file \in Logic /\ t.file \in Files /\ head[t.file] > 0
  BY <1>2 DEF Due, Modified, Changed
<1>4. Result(t, t)
  BY <1>1
<1> HIDE DEF t
<1>5. StoreFile(t, t) \/ StorePart(t, t) \/ FailFile(t)
  BY <1>4 DEF Result, Calm, StoreNoRules, ExpireFile
<1>6. Sent(t) = [file |-> t.file, version |-> head[t.file]]
  BY <1>2 DEF Sent
<1>7. \/ StoresAll(t.file) /\ Mark(t, "done", FALSE)
      \/ /\ stored' = stored \/ StoresPart(t.file)
         /\ Mark(t, "error", TRUE)
  BY <1>5, <1>6 DEF StoreFile, StorePart, FailFile, StoresAll, StoresPart
<1> QED
  BY <1>1, <1>2, <1>3, <1>7

\* A result takes its file from what is left to do to done, or to failed
LEMMA CalmResult ==
    ASSUME Calm, IInv, CalmInv, NEW r \in Results, Result(r[1], r[2])
    PROVE  CalmInv'
<1>1. PICK t \in job.todo :
         /\ job.phase \in {"stream", "sequential"}
         /\ t.file \in Due /\ t.file \in Logic /\ t.file \in Files
         /\ head[t.file] > 0 /\ t.version = head[t.file]
         /\ \/ StoresAll(t.file) /\ Mark(t, "done", FALSE)
            \/ /\ stored' = stored \/ StoresPart(t.file)
               /\ Mark(t, "error", TRUE)
  BY CalmResultCases
<1> DEFINE f == t.file
<1>2. PICK cp \in {"done", "error"}, failed \in BOOLEAN :
         /\ Mark(t, cp, failed) /\ (cp = "error" <=> failed)
         /\ cp = "done" => StoresAll(f)
         /\ cp = "error" => stored' = stored \/ StoresPart(f)
  BY <1>1
<1>3. /\ f \in Due /\ f \in Logic /\ f \in Files /\ head[f] > 0
      /\ job.phase \in {"stream", "sequential"} /\ job.phase \in Working
      /\ \A u \in job.todo : u # t => u.file # f
      /\ run.cps[f] # "done"
  BY <1>1 DEF IInv, TodoIsOpen, UniqueFiles, Working
<1> HIDE DEF f
<1>4. /\ run'.cps[f] = cp /\ run'.batch = run.batch /\ run'.ended = run.ended
      /\ run'.status = run.status
      /\ \A g \in Files : g # f => run'.cps[g] = run.cps[g]
      /\ job'.phase = job.phase /\ job'.batch = job.batch
      /\ job'.todo = job.todo \ {t} /\ job'.resume = job.resume
      /\ job'.tree = job.tree /\ (job'.failed <=> job.failed \/ failed)
      /\ UNCHANGED <<head, sha, status, batches>>
  BY <1>2, MarkStep DEF f
<1>5. /\ cp = "done" => /\ DoneFiles' = DoneFiles \union {f}
                        /\ Open' = Open \ {f}
                        /\ With("error")' = With("error") \ {f}
      /\ cp = "error" => /\ DoneFiles' = DoneFiles
                         /\ Open' = Open \union {f}
                         /\ With("error")' = With("error") \union {f}
  BY <1>3, <1>4 DEF DoneFiles, Open, With
<1>6. Due' = Due
  BY <1>4 DEF Due, Modified, Changed
<1>7. /\ cp = "done" => StoredAt(f, head[f])'
      /\ \A g \in Files : g # f => stored'[g] = stored[g]
  BY <1>2, <1>3, <1>4 DEF IInv, TypeOK, StoresAll, StoresPart, StoredAt
<1>8. RunIsCurrent'
  <2>1. run.status \in Incomplete
    BY <1>3 DEF CalmInv, RunIsCurrent
  <2>2. Open' \subseteq Due'
    BY <1>3, <1>5, <1>6 DEF CalmInv, RunIsCurrent
  <2>3. ASSUME NEW g \in DoneFiles'
        PROVE  g \in Logic /\ head[g] > 0 /\ StoredAt(g, head[g])'
    <3>1. CASE g = f
      <4>1. cp = "done"
        BY <1>3, <1>5, <2>3, <3>1 DEF DoneFiles, With
      <4> QED
        BY <1>3, <1>7, <3>1, <4>1
    <3>2. CASE g # f
      <4>1. g \in DoneFiles /\ g \in Files
        BY <1>5, <2>3, <3>2, OpenNotDone
      <4> QED
        BY <1>3, <1>4, <1>7, <3>2, <4>1 DEF CalmInv, RunIsCurrent, Working, StoredAt
    <3> QED
      BY <3>1, <3>2
  <2>4. \A g \in Files : head[g] \in Versions
    BY FileTypes DEF Trees
  <2>5. \A g \in DoneFiles' : Whole(g)'
    BY <1>4, <2>3, <2>4, OpenNotDone, FileTypes DEF Whole, StoredAt
  <2> QED
    BY <1>3, <1>4, <2>1, <2>2, <2>3, <2>5 DEF RunIsCurrent
<1>9. ShaIsCurrent'
  <2>1. ASSUME NEW g \in Logic, sha[g] = head[g], head[g] > 0
        PROVE  StoredAt(g, head[g])'
    <3>1. g \in Files /\ StoredAt(g, head[g]) /\ g # f
      BY <1>3, <2>1, FileTypes DEF CalmInv, ShaIsCurrent, Due, Modified, Changed
    <3> QED
      BY <1>4, <1>7, <3>1 DEF StoredAt
  <2> QED
    BY <1>4, <2>1 DEF CalmInv, ShaIsCurrent
<1>10. JobCoversDue'
  <2>1. \A g \in Due : \/ g \in DoneFiles'
                       \/ \E u \in job'.todo : u.file = g
                       \/ g \in With("error")' /\ job'.failed
    <3>1. SUFFICES ASSUME NEW g \in Due
                   PROVE  \/ g \in DoneFiles'
                          \/ \E u \in job'.todo : u.file = g
                          \/ g \in With("error")' /\ job'.failed
      OBVIOUS
    <3>2. CASE g = f
      BY <1>2, <1>4, <1>5, <3>2
    <3>3. CASE g # f
      <4>1. \/ g \in DoneFiles
            \/ \E u \in job.todo : u.file = g
            \/ g \in With("error") /\ job.failed
        BY <1>3, <3>1 DEF CalmInv, JobCoversDue, Working
      <4>2. \A u \in job.todo : u.file = g => u \in job'.todo
        BY <1>4, <3>3 DEF f
      <4> QED
        BY <1>4, <1>5, <3>3, <4>1, <4>2
    <3> QED
      BY <3>2, <3>3
  <2>2. job'.failed => \E g \in With("error")' : \A u \in job'.todo : u.file # g
    <3>1. CASE cp = "error"
      BY <1>3, <1>4, <1>5, <3>1
    <3>2. CASE cp = "done"
      <4>1. SUFFICES ASSUME job.failed
                     PROVE  \E g \in With("error")' : \A u \in job'.todo : u.file # g
        BY <1>2, <1>4, <3>2
      <4>2. PICK g \in With("error") : \A u \in job.todo : u.file # g
        BY <1>3, <4>1 DEF CalmInv, JobCoversDue
      <4>3. g # f
        BY <4>2 DEF f
      <4> QED
        BY <1>4, <1>5, <3>2, <4>2, <4>3
    <3> QED
      BY <3>1, <3>2
  <2>3. \A u \in job'.todo : u.file \in Due /\ u.version = head[u.file]
    BY <1>4 DEF CalmInv, JobCoversDue
  <2>4. job.tree = head
    BY <1>3 DEF CalmInv, JobCoversDue
  <2> QED
    BY <1>3, <1>4, <1>6, <2>1, <2>2, <2>3, <2>4 DEF JobCoversDue
<1>11. BatchIsCurrent'
  <2>1. run.batch = 0 \/ run.ended
    BY <1>3 DEF CalmInv, BatchIsCurrent
  <2> QED
    BY <1>3, <1>4, <2>1 DEF CalmInv, BatchIsCurrent
<1>12. CompletedIsTotal'
  <2>1. run.status # "completed" /\ status # "idle"
    BY <1>3 DEF CalmInv, RunIsCurrent, Incomplete, CompletedIsTotal, NoJob
  <2> QED
    BY <1>3, <1>4, <2>1 DEF CompletedIsTotal
<1> QED
  BY <1>8, <1>9, <1>10, <1>11, <1>12 DEF CalmInv

\* A pass ends when nothing is left to do
LEMMA NoResultsNothingLeft ==
    ASSUME IInv, CalmInv, job.phase \in {"stream", "sequential"}, Results = {}
    PROVE  job.todo = {}
<1> SUFFICES ASSUME job.todo # {} PROVE FALSE
  OBVIOUS
<1>1. CASE job.phase = "stream"
  <2>1. PICK t \in job.todo : t \in batches[job.batch].reqs
    BY <1>1 DEF CalmInv, BatchIsCurrent
  <2>2. <<t, t>> \in job.todo \X batches[job.batch].reqs
        /\ <<t, t>>[1] = t /\ <<t, t>>[2] = t
    BY <2>1
  <2>3. <<t, t>> \in Results
    BY <1>1, <2>2 DEF Results
  <2> QED
    BY <2>3
<1>2. CASE job.phase = "sequential"
  <2> DEFINE ids == {t.id : t \in job.todo}
  <2>1. ids \in SUBSET Nat /\ ids # {}
    BY JobTypes DEF Request, Files
  <2>2. PICK i \in ids : \A j \in ids : i <= j
    BY <2>1, LeastOf
  <2>3. PICK t \in job.todo : \A u \in job.todo : t.id <= u.id
    BY <2>2
  <2>4. <<t, t>> \in job.todo \X job.todo /\ <<t, t>>[1] = t /\ <<t, t>>[2] = t
    OBVIOUS
  <2>5. <<t, t>> \in Results
    BY <1>2, <2>3, <2>4 DEF Results
  <2> QED
    BY <2>5
<1> QED
  BY <1>1, <1>2

\* With nothing left, what is due is done, or failed in this job
LEMMA CalmCompleteRun ==
    ASSUME Calm, IInv, CalmInv, CompleteRun
    PROVE  CalmInv'
<1>1. /\ job.phase \in {"stream", "sequential"} /\ job.todo = {}
      /\ UNCHANGED <<head, sha, stored, status, batches>>
  BY NoResultsNothingLeft DEF CompleteRun, envVars
<1>2. /\ job'.phase = "closing" /\ job'.batch = job.batch /\ job'.todo = {}
      /\ job'.tree = job.tree /\ job'.failed = job.failed
      /\ job'.resume = job.resume
  BY <1>1, JobTypes DEF CompleteRun, Job
<1>3. /\ run'.cps = run.cps /\ run'.batch = run.batch /\ run'.ended = run.ended
      /\ run'.done = Cardinality(DoneFiles)
      /\ run'.errored = Cardinality(With("error"))
      /\ run'.status = IF With("error") = {} THEN "completed"
                                             ELSE "completed_with_errors"
  BY JobTypes DEF CompleteRun, Run
<1>4. \A f \in Due : f \in DoneFiles \/ (f \in With("error") /\ job.failed)
  BY <1>1 DEF CalmInv, JobCoversDue, Working
<1>5. Open # {} => With("error") # {}
  <2>1. SUFFICES ASSUME NEW f \in Open PROVE f \in With("error")
    BY DEF Open
  <2> QED
    BY <1>4, OpenNotDone DEF CalmInv, RunIsCurrent
<1>6. RunIsCurrent'
  <2>1. \A f \in DoneFiles : StoredAt(f, head[f])
    BY <1>1 DEF CalmInv, RunIsCurrent
  <2> QED
    BY <1>1, <1>2, <1>3, <1>5, <2>1, SameFiles
       DEF CalmInv, RunIsCurrent, Working, Incomplete, StoredAt, Whole
<1>7. ShaIsCurrent'
  BY <1>1 DEF CalmInv, ShaIsCurrent, StoredAt
<1>8. JobCoversDue'
  <2>1. job.tree = head /\ (job.failed => With("error") # {})
    BY <1>1 DEF CalmInv, JobCoversDue, Working
  <2> QED
    BY <1>1, <1>2, <1>3, <1>4, <2>1, SameFiles DEF JobCoversDue, Working
<1>9. BatchIsCurrent'
  BY <1>1, <1>2, <1>3, SameFiles DEF CalmInv, BatchIsCurrent
<1>10. CompletedIsTotal'
  <2>1. status # "idle"
    BY <1>1 DEF CalmInv, CompletedIsTotal, NoJob
  <2>2. With("error") = {} => Cardinality(With("error")) = 0
    BY FS_EmptySet
  <2> QED
    BY <1>1, <1>2, <1>3, <2>1, <2>2, SameFiles DEF CompletedIsTotal
<1> QED
  BY <1>6, <1>7, <1>8, <1>9, <1>10 DEF CalmInv

\* A job that did not fail has done everything that was due
LEMMA SuccessIsComplete ==
    ASSUME IInv, CalmInv, job.phase = "closing", ~job.failed
    PROVE  /\ Open = {} /\ job.tree = head
           /\ \A f \in DoneFiles : StoredAt(f, head[f])
           /\ \A f \in Logic : head[f] > 0
                => StoredAt(f, head[f])
<1>1. job.tree = head /\ \A f \in Due : f \in DoneFiles
  BY DEF CalmInv, JobCoversDue, Working
<1>2. Open = {}
  BY <1>1, OpenNotDone DEF CalmInv, RunIsCurrent
<1>3. \A f \in DoneFiles : StoredAt(f, head[f])
  BY DEF CalmInv, RunIsCurrent
<1>4. ASSUME NEW f \in Logic, head[f] > 0
      PROVE  StoredAt(f, head[f])
  <2>1. CASE sha[f] = head[f]
    BY <1>4, <2>1 DEF CalmInv, ShaIsCurrent
  <2>2. CASE sha[f] # head[f]
    <3>1. f \in Due
      BY <1>4, <2>2, FileTypes DEF Due, Modified, Changed
    <3> QED
      BY <1>1, <1>3, <3>1
  <2> QED
    BY <2>1, <2>2
<1> QED
  BY <1>1, <1>2, <1>3, <1>4

\* sha moves to HEAD when every file of the diff is done
LEMMA CalmFinishJob ==
    ASSUME Calm, IInv, CalmInv, IInv', FinishJob
    PROVE  CalmInv'
<1>1. CASE job.failed
  BY <1>1, CalmIdleStep DEF FinishJob, envVars
<1>2. CASE ~job.failed
  <2>1. /\ Open = {} /\ job.tree = head
        /\ \A f \in DoneFiles : StoredAt(f, head[f])
        /\ \A f \in Logic : head[f] > 0
             => StoredAt(f, head[f])
    BY <1>2, SuccessIsComplete DEF FinishJob
  <2>2. /\ job' = NoJob /\ sha' = head /\ status' = "idle"
        /\ UNCHANGED <<head, stored, run, batches>>
    BY <1>2, <2>1 DEF FinishJob, envVars
  <2>3. job'.phase = "none" /\ job'.todo = {} /\ ~job'.failed
    BY <2>2 DEF NoJob
  <2>4. Open' = {} /\ DoneFiles' = DoneFiles
    BY <2>1, <2>2 DEF Open, DoneFiles, With
  <2>5. RunIsCurrent'
    BY <2>2, <2>3, <2>4 DEF CalmInv, RunIsCurrent, Working, StoredAt, Whole
  <2>6. ShaIsCurrent'
    BY <2>1, <2>2, FileTypes DEF ShaIsCurrent, StoredAt
  <2>7. JobCoversDue' /\ BatchIsCurrent'
    BY <2>2, <2>3, <2>4 DEF CalmInv, JobCoversDue, BatchIsCurrent, Working
  <2>8. CompletedIsTotal'
    BY <2>1, <2>2, <2>3, <2>4 DEF CalmInv, CompletedIsTotal, StoredAt
  <2> QED
    BY <2>5, <2>6, <2>7, <2>8 DEF CalmInv
<1> QED
  BY <1>1, <1>2 DEF FinishJob

\* Every step of a calm environment preserves its invariant
LEMMA CalmNext ==
    ASSUME Calm, IInv, CalmInv, [Next]_vars
    PROVE  CalmInv'
<1>0. IInv'
  BY NextInv
<1>1. CASE \E f \in Files : Push(f)
  BY <1>1, CalmPush
<1>2. CASE \E b \in DOMAIN batches : EndBatch(b)
  BY <1>2, CalmEndBatch
<1>3. CASE TriggerIngest
  <2>1. /\ job'.phase = "listing" /\ job'.todo = {} /\ ~job'.failed
        /\ ~job'.resume /\ status' = "ingesting"
    BY <1>3, StartStep DEF TriggerIngest, IInv
  <2> QED
    BY <1>0, <1>3, <2>1, CalmIdleStep DEF TriggerIngest, envVars
<1>4. CASE ResumeIngest
  <2>1. /\ job'.phase = "listing" /\ job'.todo = {} /\ ~job'.failed
        /\ status' = "ingesting"
    BY <1>4, StartStep DEF ResumeIngest, IInv
  <2>2. Open # {}
    BY <1>4 DEF ResumeIngest, Calm, ButtonEnabled, CanResume, Open
  <2> QED
    BY <1>0, <1>4, <2>1, <2>2, CalmIdleStep DEF ResumeIngest, envVars
<1>5. CASE RetryErrors
  BY <1>0, <1>5, CalmRetry
<1>6. CASE NothingToIngest
  BY <1>6, CalmNothing
<1>7. CASE OpenRun
  BY <1>7, CalmOpenRun
<1>8. CASE ReattachBatch
  BY <1>8, CalmReattach
<1>9. CASE CreateBatch
  BY <1>9, CalmCreateBatch
<1>10. CASE RecordBatch
  BY <1>10, CalmRecordBatch
<1>11. CASE Poll
  BY <1>11, CalmPoll
<1>12. CASE GoSequential
  BY <1>12, CalmGoSequential
<1>13. CASE \E r \in Results : Result(r[1], r[2])
  BY <1>13, CalmResult
<1>14. CASE LoseCheckpoint
  BY <1>14, CalmLoseCheckpoint
<1>15. CASE CompleteRun
  BY <1>15, CalmCompleteRun
<1>16. CASE FinishJob
  BY <1>0, <1>16, CalmFinishJob
<1>17. CASE FailJob \/ Crash
  BY <1>0, <1>17, CalmIdleStep DEF FailJob, Crash, envVars
<1>18. CASE GoStale
  BY <1>0, <1>18, CalmIdleStep DEF GoStale, envVars
<1>19. CASE Sweep
  <2>1. /\ run' = run \/ run'.status = "completed_with_errors"
        /\ run'.cps = run.cps /\ run'.batch = run.batch /\ run'.ended = run.ended
    BY <1>19, JobTypes DEF Sweep, Run
  <2> QED
    BY <1>0, <1>19, <2>1, CalmIdleStep DEF Sweep, envVars, Incomplete
<1>20. CASE UNCHANGED vars
  <2>1. UNCHANGED <<head, sha, stored, status, run, job, batches>>
    BY <1>20 DEF vars
  <2>2. RunIsCurrent' /\ ShaIsCurrent' /\ CompletedIsTotal'
    BY <2>1, SameFiles
       DEF CalmInv, RunIsCurrent, ShaIsCurrent, CompletedIsTotal, StoredAt, Whole
  <2>3. JobCoversDue' /\ BatchIsCurrent'
    BY <2>1, SameFiles DEF CalmInv, JobCoversDue, BatchIsCurrent
  <2> QED
    BY <2>2, <2>3 DEF CalmInv
<1> QED
  BY <1>1, <1>2, <1>3, <1>4, <1>5, <1>6, <1>7, <1>8, <1>9, <1>10, <1>11,
     <1>12, <1>13, <1>14, <1>15, <1>16, <1>17, <1>18, <1>19, <1>20 DEF Next

\* The calm invariant holds in every calm environment
LEMMA CalmInductive ==
    ASSUME Calm
    PROVE  Spec => [](IInv /\ CalmInv)
<1>1. Init => IInv /\ CalmInv
  BY InitInv, CalmInit
<1>2. (IInv /\ CalmInv) /\ [Next]_vars => (IInv /\ CalmInv)'
  BY NextInv, CalmNext
<1> QED
  BY <1>1, <1>2, PTL DEF Spec

-----------------------------------------------------------------------------
(* What a calm environment guarantees                                        *)

(* The rules of every file that is the same in last_commit_sha and HEAD were *)
(* extracted from that version, so the incremental diff may leave it out.    *)
THEOREM ShaIsTrustworthy ==
    ASSUME Calm
    PROVE  Spec => []ShaVouches
<1>1. IInv /\ CalmInv => ShaVouches
  <2> SUFFICES ASSUME IInv, CalmInv, NEW f \in Logic \ Changed, head[f] > 0
               PROVE  StoredAt(f, head[f])
    BY DEF ShaVouches
  <2>1. f \in Files /\ sha[f] = head[f]
    BY FileTypes DEF Changed
  <2> QED
    BY <2>1 DEF CalmInv, ShaIsCurrent
<1> QED
  BY <1>1, CalmInductive, PTL

(* A file is checkpointed "done" only when all of its rules, and no other    *)
(* file's, are stored.                                                       *)
THEOREM DoneIsStored ==
    ASSUME Calm
    PROVE  Spec => []DoneMeansStored
<1>1. IInv /\ CalmInv => DoneMeansStored
  BY DEF CalmInv, RunIsCurrent, DoneMeansStored, Whole
<1> QED
  BY <1>1, CalmInductive, PTL

(* Between jobs, a file that failed is in the diff of the next ingest or has *)
(* the rules of its version at HEAD: no failed file is ever left behind.     *)
THEOREM FailuresAreListedAgain ==
    ASSUME Calm
    PROVE  Spec => []FailedStayInWindow
<1>1. IInv /\ CalmInv => FailedStayInWindow
  BY DEF CalmInv, RunIsCurrent, FailedStayInWindow, Open, Due, Modified
<1> QED
  BY <1>1, CalmInductive, PTL

(* A run that completed counts every file done on it over all its attempts,  *)
(* has no error left, and its files have the rules of last_commit_sha.       *)
THEOREM TalliesCoverTheRun ==
    ASSUME Calm
    PROVE  Spec => []TalliesAreTotals
<1>1. IInv /\ CalmInv => TalliesAreTotals
  <2> SUFFICES ASSUME IInv, CalmInv, status = "idle", run.status = "completed"
               PROVE  /\ run.done = Cardinality(DoneFiles)
                      /\ run.errored = 0 /\ With("error") = {}
                      /\ \A f \in Files : run.cps[f] # "none" =>
                            StoredAt(f, sha[f])
    BY DEF TalliesAreTotals
  <2>1. run.done = Cardinality(DoneFiles) /\ run.errored = 0
        /\ \A f \in DoneFiles : StoredAt(f, sha[f])
    BY DEF CalmInv, CompletedIsTotal
  <2>2. Open = {}
    BY DEF CalmInv, RunIsCurrent, Incomplete
  <2>3. ASSUME NEW f \in Files, run.cps[f] # "none"
        PROVE  StoredAt(f, sha[f])
    <3>1. f \in DoneFiles
      BY <2>2, <2>3, JobTypes DEF Open, DoneFiles, With, Checkpoints
    <3> QED
      BY <2>1, <3>1
  <2> QED
    BY <2>1, <2>2, <2>3 DEF Open
<1> QED
  BY <1>1, CalmInductive, PTL

-----------------------------------------------------------------------------
(* The refinement of IncrementalSync                                         *)

\* The initial states are initial states of IncrementalSync
LEMMA SyncInit ==
    ASSUME Init
    PROVE  Sync!Init
BY EnvironmentAssumption
   DEF Init, Sync!Init, Files, Sync!Files, NoTree, Sync!NoTree, NoContent

\* A step that moves neither HEAD nor sha and stores nothing is not seen
SyncStutter == UNCHANGED <<head, sha, stored>>

\* A push is a push
LEMMA SyncPush ==
    ASSUME IInv, NEW f \in Files, Push(f)
    PROVE  Sync!Next
<1>1. /\ head' = [head EXCEPT ![f] = head[f] + 1] /\ pushes < MaxPushes
      /\ UNCHANGED <<sha, stored>>
  BY DEF Push
<1>2. head[f] < MaxPushes + 1
  <2>1. head[f] \in Nat /\ pushes \in Nat /\ head[f] <= pushes + 1
    BY FileTypes DEF IInv, TypeOK, NotAhead
  <2> QED
    BY <1>1, <2>1, EnvironmentAssumption
<1>3. Sync!Push(f)
  BY <1>1, <1>2 DEF Sync!Push
<1> QED
  BY <1>3 DEF Sync!Next, Sync!Files, Files

\* A result stores a file at HEAD's version, or is not seen
LEMMA SyncResult ==
    ASSUME Calm, IInv, CalmInv, NEW r \in Results, Result(r[1], r[2])
    PROVE  Sync!Next \/ SyncStutter
<1>1. PICK t \in job.todo :
         /\ job.phase \in {"stream", "sequential"}
         /\ t.file \in Due /\ t.file \in Logic /\ t.file \in Files
         /\ head[t.file] > 0 /\ t.version = head[t.file]
         /\ \/ StoresAll(t.file) /\ Mark(t, "done", FALSE)
            \/ /\ stored' = stored \/ StoresPart(t.file)
               /\ Mark(t, "error", TRUE)
  BY CalmResultCases
<1>2. UNCHANGED <<head, sha>>
  BY <1>1 DEF Mark, envVars
<1>3. CASE stored' = stored
  BY <1>2, <1>3 DEF SyncStutter
<1>4. CASE StoresAll(t.file)
  <2>1. Sync!Process(t.file)
    BY <1>1, <1>2, <1>4 DEF Sync!Process, Sync!ContentAt, StoresAll
  <2> QED
    BY <1>1, <2>1 DEF Sync!Next
<1>5. CASE StoresPart(t.file)
  <2>1. Sync!ProcessPart(t.file)
    BY <1>1, <1>2, <1>5 DEF Sync!ProcessPart, Sync!ContentAt, StoresPart
  <2> QED
    BY <1>1, <2>1 DEF Sync!Next
<1> QED
  BY <1>1, <1>3, <1>4, <1>5

\* sha moves to HEAD only when all rules are stored
LEMMA SyncAdvance ==
    ASSUME Calm, IInv, CalmInv, NothingToIngest \/ FinishJob
    PROVE  Sync!Next \/ SyncStutter
<1>1. CASE FinishJob /\ job.failed
  BY <1>1 DEF FinishJob, envVars, SyncStutter
<1>2. CASE NothingToIngest \/ (FinishJob /\ ~job.failed)
  <2>1. \A f \in Logic : head[f] > 0
           => StoredAt(f, head[f])
    <3>1. CASE NothingToIngest
      BY <3>1, NothingIsDue, NoneDue
    <3>2. CASE FinishJob /\ ~job.failed
      BY <3>2, SuccessIsComplete DEF FinishJob
    <3> QED
      BY <1>2, <3>1, <3>2
  <2>3. sha' = head /\ UNCHANGED <<head, stored>>
    BY <1>2, SuccessIsComplete DEF NothingToIngest, FinishJob, envVars
  <2>4. Sync!Advance
    BY <2>1, <2>3 DEF Sync!Advance, Sync!UpToDate, Sync!ContentAt, StoredAt
  <2> QED
    BY <2>4 DEF Sync!Next
<1> QED
  BY <1>1, <1>2

\* Every step of a calm environment is a step of IncrementalSync, or unseen
LEMMA SyncStep ==
    ASSUME Calm, IInv, CalmInv, [Next]_vars
    PROVE  [Sync!Next]_(Sync!vars)
<1>1. Sync!Next \/ SyncStutter
  <2>1. CASE \E f \in Files : Push(f)
    BY <2>1, SyncPush
  <2>2. CASE NothingToIngest \/ FinishJob
    BY <2>2, SyncAdvance
  <2>3. CASE \E r \in Results : Result(r[1], r[2])
    BY <2>3, SyncResult
  <2>4. CASE SyncStutter
    BY <2>4
  <2> QED
    BY <2>1, <2>2, <2>3, <2>4
       DEF Next, vars, SyncStutter, EndBatch, TriggerIngest, ResumeIngest,
           RetryErrors, OpenRun, ReattachBatch, CreateBatch, RecordBatch, Poll,
           GoSequential, LoseCheckpoint, CompleteRun, FailJob, Crash, GoStale,
           Sweep, envVars
<1> QED
  BY <1>1 DEF SyncStutter, Sync!vars

(* Seen through HEAD, last_commit_sha and the stored rules, every step is a  *)
(* push, a file processed at HEAD's version, in full or in part, or the sha  *)
(* moving to HEAD when all of its rules are stored: BatchIngest implements   *)
(* IncrementalSync.                                                          *)
THEOREM ImplementsIncrementalSync ==
    ASSUME Calm
    PROVE  Spec => KeepsInSync
<1>1. Init => Sync!Init
  BY SyncInit
<1>2. IInv /\ CalmInv /\ [Next]_vars => [Sync!Next]_(Sync!vars)
  BY SyncStep
<1>3. Spec => [](IInv /\ CalmInv)
  BY CalmInductive
<1> QED
  BY <1>1, <1>2, <1>3, PTL DEF Spec, KeepsInSync, Sync!Spec

=============================================================================
