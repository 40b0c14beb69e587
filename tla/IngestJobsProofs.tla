-------------------------- MODULE IngestJobsProofs --------------------------
(* Proofs about IngestJobs, for every set of sources and slots, every       *)
(* timeout, every non-negative grace and every bound.                       *)
EXTENDS IngestJobs, TLAPS

USE DEF Phases, IngestStatuses, RunStatuses, Incomplete, Mark, RunRef

-----------------------------------------------------------------------------
(* The inductive invariant *)

(* Job j holds a run of its source's name; it makes progress on it only past *)
(* clone and scoring, a plain ingest from the start; and since its last      *)
(* progress no more time has passed than the job has lived.                  *)
JobInv(j) ==
    In(j, Phases) =>
        /\ jobs[j].resume \/ Working(j)
              => jobs[j].run \in 1..Len(runs[jobs[j].src])
        /\ Fresh(j) => jobs[j].beat
        /\ jobs[j].beat => Working(j)
        /\ Working(j) /\ jobs[j].beat => JobRun(j).idle <= jobs[j].age

\* What an upload or a sweep names is a run that exists
UploadsInv == \A u \in uploads : u.run \in 1..Len(runs[u.src])
MarksInv   == \A m \in marks : m.run \in 0..Len(runs[m.src])

IInv ==
    /\ TypeOK
    /\ \A j \in Slots : JobInv(j)
    /\ UploadsInv
    /\ MarksInv
    /\ SweepSparesFreshRun

-----------------------------------------------------------------------------
(* How the ingest runs change *)

RunsType(r) == r \in [Sources -> Seq(Run)]

(* No run disappears and none loses progress: true of every action but Tick. *)
RunsGrow ==
    \A s \in Sources :
        /\ Len(runs[s]) <= Len(runs'[s])
        /\ \A k \in 1..Len(runs[s]) : runs'[s][k].idle <= runs[s][k].idle

\* What the type of the runs says of each of them
LEMMA RunFacts ==
    ASSUME NEW r, RunsType(r), NEW s \in Sources
    PROVE  /\ Len(r[s]) \in Nat
           /\ \A k \in 1..Len(r[s]) : r[s][k] \in Run /\ r[s][k].idle \in Nat
<1>1. r[s] \in Seq(Run)
  BY DEF RunsType
<1>2. Len(r[s]) \in Nat /\ \A k \in 1..Len(r[s]) : r[s][k] \in Run
  BY <1>1
<1>3. \A x \in Run : x.idle \in Nat
  BY TimeAssumption DEF Run, MaxIdle, StaleThreshold
<1> QED
  BY <1>2, <1>3

\* The part of the type that says it of the runs
LEMMA TypeOKRuns == TypeOK => RunsType(runs)
BY DEF TypeOK, RunsType

\* A run that is appended keeps the earlier ones where they were
LEMMA AppendRun ==
    ASSUME TypeOK, NEW s \in Sources, runs' = [runs EXCEPT ![s] = Append(@, NewRun)]
    PROVE  /\ RunsType(runs')
           /\ RunsGrow
           /\ Len(runs'[s]) = Len(runs[s]) + 1
           /\ runs'[s][Len(runs[s]) + 1].idle = 0
<1>1. NewRun \in Run
  BY TimeAssumption DEF NewRun, Run, MaxIdle, StaleThreshold
<1>2. RunsType(runs')
  BY <1>1 DEF TypeOK, RunsType
<1>3. /\ Len(runs'[s]) = Len(runs[s]) + 1
      /\ runs'[s][Len(runs[s]) + 1] = NewRun
      /\ \A k \in 1..Len(runs[s]) : runs'[s][k] = runs[s][k]
  BY <1>1 DEF TypeOK
<1>4. \A x \in Sources : x # s => runs'[x] = runs[x]
  BY DEF TypeOK
<1>5. \A x \in Sources : /\ Len(runs[x]) \in Nat
                         /\ \A k \in 1..Len(runs[x]) : runs[x][k].idle \in Nat
  BY TypeOKRuns, RunFacts
<1>6. RunsGrow
  BY <1>3, <1>4, <1>5 DEF RunsGrow
<1> QED
  BY <1>2, <1>3, <1>6 DEF NewRun

\* A run that is rewritten leaves the others, and their number, as they were
LEMMA ReplaceRun ==
    ASSUME TypeOK, NEW s \in Sources, NEW k \in 1..Len(runs[s]), NEW r \in Run,
           r.idle <= runs[s][k].idle,
           runs' = [runs EXCEPT ![s][k] = r]
    PROVE  /\ RunsType(runs')
           /\ RunsGrow
           /\ runs'[s][k] = r
<1>1. RunsType(runs')
  BY DEF TypeOK, RunsType
<1>2. \A x \in Sources : Len(runs'[x]) = Len(runs[x])
  BY DEF TypeOK
<1>3. \A x \in Sources : \A i \in 1..Len(runs[x]) :
         runs'[x][i] = IF x = s /\ i = k THEN r ELSE runs[x][i]
  BY DEF TypeOK
<1>4. \A x \in Sources : /\ Len(runs[x]) \in Nat
                         /\ \A i \in 1..Len(runs[x]) : runs[x][i].idle \in Nat
  BY TypeOKRuns, RunFacts
<1> QED
  BY <1>1, <1>2, <1>3, <1>4 DEF RunsGrow

\* Actions that leave the runs alone
LEMMA SameRuns ==
    ASSUME TypeOK, UNCHANGED runs
    PROVE  RunsType(runs') /\ RunsGrow
<1>1. \A s \in Sources : /\ Len(runs[s]) \in Nat
                         /\ \A k \in 1..Len(runs[s]) : runs[s][k].idle \in Nat
  BY TypeOKRuns, RunFacts
<1>2. RunsType(runs')
  BY TypeOKRuns DEF RunsType
<1> QED
  BY <1>1, <1>2 DEF RunsGrow

-----------------------------------------------------------------------------
(* What an action that does not touch a job, an upload or a mark keeps       *)

\* A job that keeps its record keeps its invariant while no run loses progress
LEMMA JobKept ==
    ASSUME TypeOK, RunsType(runs'), RunsGrow, NEW j \in Slots, JobInv(j),
           jobs'[j] = jobs[j] \/ jobs'[j] = NoJob
    PROVE  JobInv(j)'
<1>1. CASE jobs'[j] = NoJob
  BY <1>1 DEF JobInv, In, NoJob
<1>2. CASE jobs'[j] = jobs[j] /\ jobs[j] # NoJob
  <2>1. jobs[j] \in Job
    BY <1>2 DEF TypeOK
  <2> DEFINE s == jobs[j].src
             k == jobs[j].run
  <2>2. s \in Sources /\ jobs[j].age \in Nat
    BY <2>1, TimeAssumption DEF Job
  <2>3. /\ Len(runs[s]) \in Nat /\ Len(runs'[s]) \in Nat
        /\ Len(runs[s]) <= Len(runs'[s])
    BY <2>2, TypeOKRuns, RunFacts DEF RunsGrow
  <2>4. k \in 1..Len(runs[s])
          => /\ runs[s][k].idle \in Nat /\ runs'[s][k].idle \in Nat
             /\ runs'[s][k].idle <= runs[s][k].idle
    BY <2>2, <2>3, TypeOKRuns, RunFacts DEF RunsGrow
  <2> QED
    BY <1>2, <2>2, <2>3, <2>4 DEF JobInv, In, Working, Fresh, JobRun
<1> QED
  BY <1>1, <1>2

\* What an upload names goes on existing
LEMMA UploadsKept ==
    ASSUME TypeOK, RunsType(runs'), RunsGrow, UploadsInv, uploads' \subseteq uploads
    PROVE  UploadsInv'
BY DEF TypeOK, RunsType, RunsGrow, UploadsInv

\* What a sweep names goes on existing
LEMMA MarksKept ==
    ASSUME TypeOK, RunsType(runs'), RunsGrow, MarksInv, marks' \subseteq marks
    PROVE  MarksInv'
BY DEF TypeOK, RunsType, RunsGrow, MarksInv

(* The sweep goes on sparing fresh runs as long as no job becomes fresh      *)
LEMMA SparesKept ==
    ASSUME SweepSparesFreshRun, marks' \subseteq marks,
           \A j \in Slots : Fresh(j)' =>
               /\ Fresh(j)
               /\ jobs'[j].src = jobs[j].src
               /\ jobs'[j].run = jobs[j].run
    PROVE  SweepSparesFreshRun'
BY DEF SweepSparesFreshRun

-----------------------------------------------------------------------------
(* The steps of one job *)

\* What holds after job j, and nothing else, has taken a step
LEMMA OneJobStep ==
    ASSUME IInv, NEW j \in Slots, NEW x, jobs' = [jobs EXCEPT ![j] = x],
           TypeOK', RunsGrow, JobInv(j)', UNCHANGED <<uploads, marks>>,
           Fresh(j)' => \/ /\ Fresh(j)
                           /\ jobs'[j].src = jobs[j].src
                           /\ jobs'[j].run = jobs[j].run
                        \/ jobs'[j].run > Len(runs[jobs'[j].src])
    PROVE  IInv'
<1>1. TypeOK /\ RunsType(runs')
  BY TypeOKRuns DEF IInv, TypeOK, RunsType
<1>2. \A i \in Slots : i # j => jobs'[i] = jobs[i]
  BY <1>1 DEF TypeOK
<1>3. \A i \in Slots : JobInv(i)'
  BY <1>1, <1>2, JobKept DEF IInv
<1>4. UploadsInv' /\ MarksInv'
  BY <1>1, UploadsKept, MarksKept DEF IInv
<1>5. SweepSparesFreshRun'
  <2>1. SUFFICES ASSUME NEW m \in marks, NEW i \in Slots,
                        Fresh(i)', jobs'[i].src = m.src
                 PROVE  m.run # jobs'[i].run
    BY DEF SweepSparesFreshRun
  <2>2. CASE i # j
    BY <1>2, <2>1, <2>2 DEF Fresh, Working, In, IInv, SweepSparesFreshRun
  <2>3. CASE i = j /\ jobs'[j].run > Len(runs[jobs'[j].src])
    <3>1. m.src \in Sources /\ m.run \in Nat /\ m.run <= Len(runs[m.src])
      BY <1>1 DEF IInv, MarksInv, TypeOK
    <3>2. Len(runs[m.src]) \in Nat
      BY <1>1, <3>1, TypeOKRuns, RunFacts
    <3> QED
      BY <2>1, <2>3, <3>1, <3>2
  <2>4. CASE i = j /\ Fresh(j) /\ jobs'[j].src = jobs[j].src
                   /\ jobs'[j].run = jobs[j].run
    BY <2>1, <2>4 DEF IInv, SweepSparesFreshRun
  <2> QED
    BY <2>1, <2>2, <2>3, <2>4
<1> QED
  BY <1>3, <1>4, <1>5 DEF IInv

\* What a job that has started knows of itself
LEMMA JobFacts ==
    ASSUME IInv, NEW j \in Slots, jobs[j] # NoJob
    PROVE  /\ jobs[j] \in Job
           /\ jobs[j].src \in Sources
           /\ In(j, Phases)
           /\ jobs[j].age \in Nat
           /\ Working(j) => /\ jobs[j].run \in 1..Len(runs[jobs[j].src])
                            /\ JobRun(j) \in Run
                            /\ JobRun(j).idle \in Nat
<1>1. jobs[j] \in Job
  BY DEF IInv, TypeOK
<1>2. jobs[j].src \in Sources /\ In(j, Phases) /\ jobs[j].age \in Nat
  BY <1>1, TimeAssumption DEF Job, In
<1>3. Working(j) => jobs[j].run \in 1..Len(runs[jobs[j].src])
  BY <1>2 DEF IInv, JobInv
<1> QED
  BY <1>1, <1>2, <1>3, TypeOKRuns, RunFacts DEF IInv, JobRun

\* A job in one of the phases is not the free slot
LEMMA NotFree == ASSUME NEW j \in Slots, NEW ph \in Phases, In(j, {ph})
                 PROVE  jobs[j] # NoJob
BY DEF In, NoJob

\* A job that loads its source holds a run only to resume it
LEMMA LoadJobStep ==
    ASSUME IInv, NEW j \in Slots, NEW m \in Message, LoadJob(j, m)
    PROVE  IInv'
<1> DEFINE x == jobs'[j]
<1>1. TypeOK /\ m.src \in Sources /\ m.resume \in BOOLEAN
  BY DEF IInv, Message
<1>2. /\ Len(runs[m.src]) \in Nat
      /\ \A k \in 1..Len(runs[m.src]) : runs[m.src][k] \in Run
  BY <1>1, TypeOKRuns, RunFacts
<1>3. m.resume => /\ Len(runs[m.src]) \in 1..Len(runs[m.src])
                  /\ LatestRun(m.src).status \in RunStatuses
  <2>1. m.resume => runs[m.src] # <<>> /\ runs[m.src] \in Seq(Run)
    BY <1>1 DEF LoadJob, FindResumable, HasRun, TypeOK
  <2>2. m.resume => Len(runs[m.src]) # 0
    BY <2>1
  <2> QED
    BY <1>2, <2>2 DEF LatestRun, Run
<1>4. x = [phase |-> "starting", src |-> m.src, resume |-> m.resume,
           run |-> IF m.resume THEN Len(runs[m.src]) ELSE 0,
           age |-> 0, beat |-> FALSE, failed |-> FALSE,
           seen |-> ingestStatus[m.src],
           runSeen |-> IF m.resume THEN LatestRun(m.src).status ELSE "running"]
  BY <1>1 DEF LoadJob, Step, TypeOK
<1>5. x \in Job
  BY <1>1, <1>2, <1>3, <1>4, TimeAssumption DEF Job, TypeOK
<1>6. queue' \in [Message -> Nat]
  BY <1>1 DEF LoadJob, Take, TypeOK
<1>7. TypeOK'
  BY <1>1, <1>5, <1>6 DEF LoadJob, Step, sourceVars, envVars, TypeOK
<1>8. RunsGrow
  BY <1>1, SameRuns DEF LoadJob
<1>9. JobInv(j)' /\ ~Fresh(j)'
  BY <1>3, <1>4 DEF LoadJob, JobInv, In, Working, Fresh
<1> QED
  BY <1>7, <1>8, <1>9, OneJobStep DEF LoadJob, Step

\* A job that ends takes nothing with it but its slot and the source's status
LEMMA EndJobStep ==
    ASSUME IInv, NEW j \in Slots, UNCHANGED runs,
           NEW status \in IngestStatuses, EndJob(j, status)
    PROVE  IInv'
<1>1. TypeOK /\ jobs'[j] = NoJob
  BY DEF IInv, EndJob, Step, TypeOK
<1>2. TypeOK'
  BY <1>1 DEF EndJob, Step, envVars, TypeOK
<1>3. RunsGrow
  BY <1>1, SameRuns
<1>4. JobInv(j)' /\ ~Fresh(j)'
  BY <1>1 DEF JobInv, Fresh, Working, In, NoJob
<1> QED
  BY <1>2, <1>3, <1>4, OneJobStep DEF EndJob, Step

\* A source without a connector: the job ends in an error
LEMMA RejectSourceStep ==
    ASSUME IInv, NEW j \in Slots, RejectSource(j)
    PROVE  IInv'
<1>1. jobs[j].src \in Sources
  BY NotFree, JobFacts DEF RejectSource
<1>2. ingestStatus[jobs[j].src] \in IngestStatuses
  BY <1>1 DEF IInv, TypeOK
<1> QED
  BY <1>2, EndJobStep DEF RejectSource

\* The ways in which a job ends of itself
LEMMA EndingSteps ==
    ASSUME IInv, NEW j \in Slots, NothingToIngest(j) \/ FinishJob(j) \/ FailJob(j)
    PROVE  IInv'
BY EndJobStep DEF NothingToIngest, FinishJob, FailJob

\* A job that is cancelled or gives up leaves everything but its slot as it was
LEMMA TimeoutJobStep ==
    ASSUME IInv, NEW j \in Slots, TimeoutJob(j) \/ AbandonJob(j)
    PROVE  IInv'
<1>1. TypeOK /\ jobs'[j] = NoJob
  BY DEF IInv, TimeoutJob, AbandonJob, Step, TypeOK
<1>2. TypeOK'
  BY <1>1 DEF TimeoutJob, AbandonJob, Step, sourceVars, envVars, TypeOK
<1>3. RunsGrow
  BY <1>1, SameRuns DEF TimeoutJob, AbandonJob
<1>4. JobInv(j)' /\ ~Fresh(j)'
  BY <1>1 DEF JobInv, Fresh, Working, In, NoJob
<1> QED
  BY <1>2, <1>3, <1>4, OneJobStep DEF TimeoutJob, AbandonJob, Step

\* A job that begins has no run of its own yet
LEMMA BeginIngestStep ==
    ASSUME IInv, NEW j \in Slots, BeginIngest(j)
    PROVE  IInv'
<1>1. TypeOK /\ jobs[j] \in Job /\ jobs[j].src \in Sources /\ jobs[j].phase = "starting"
  BY NotFree, JobFacts DEF BeginIngest, In, IInv
<1>0. [jobs[j] EXCEPT !.phase = "listing"] \in Job
  BY <1>1 DEF Job
<1>2. jobs'[j] = [jobs[j] EXCEPT !.phase = "listing"] /\ jobs'[j] \in Job
  BY <1>0, <1>1 DEF BeginIngest, Step, TypeOK
<1>3. TypeOK'
  BY <1>1, <1>2 DEF BeginIngest, Step, envVars, TypeOK
<1>4. RunsGrow
  BY <1>1, SameRuns DEF BeginIngest
<1>5. JobInv(j)' /\ ~Fresh(j)'
  BY <1>1, <1>2 DEF BeginIngest, IInv, JobInv, Fresh, Working, In, Job
<1> QED
  BY <1>3, <1>4, <1>5, OneJobStep DEF BeginIngest, Step

(* A plain ingest's run is younger than the job and later than anything the *)
(* sweep can have seen.                                                     *)
LEMMA OpenRunStep ==
    ASSUME IInv, NEW j \in Slots, OpenRun(j)
    PROVE  IInv'
<1> DEFINE s == jobs[j].src
<1>1. /\ TypeOK /\ jobs[j] \in Job /\ s \in Sources /\ jobs[j].phase = "listing"
      /\ jobs[j].age \in Nat
  BY NotFree, JobFacts DEF OpenRun, In, IInv
<1>2. Len(runs[s]) \in Nat
  BY <1>1, TypeOKRuns, RunFacts
<1>3. CASE jobs[j].resume
  <2>0. [jobs[j] EXCEPT !.phase = "batch"] \in Job
    BY <1>1 DEF Job
  <2>1. jobs'[j] = [jobs[j] EXCEPT !.phase = "batch"] /\ jobs'[j] \in Job
    BY <1>1, <1>3, <2>0 DEF OpenRun, Step, TypeOK
  <2>2. TypeOK' /\ RunsGrow
    BY <1>1, <1>3, <2>1, SameRuns DEF OpenRun, Step, sourceVars, envVars, TypeOK
  <2>3. jobs[j].run \in 1..Len(runs[s]) /\ ~jobs[j].beat /\ runs' = runs
    BY <1>1, <1>3 DEF OpenRun, IInv, JobInv, In, Working
  <2>4. JobInv(j)' /\ ~Fresh(j)'
    BY <1>1, <1>3, <2>1, <2>3 DEF JobInv, Fresh, Working, In, Job
  <2> QED
    BY <1>3, <2>1, <2>2, <2>4, OneJobStep DEF OpenRun, Step
<1>4. CASE ~jobs[j].resume
  <2> PICK n \in Nat : n = Len(runs[s]) + 1
    BY <1>2
  <2> DEFINE x == [jobs[j] EXCEPT !.phase = "batch", !.beat = TRUE, !.run = n]
  <2>0. x \in Job
    BY <1>1 DEF Job
  <2>1. jobs'[j] = x
    BY <1>1, <1>4 DEF OpenRun, Step, TypeOK
  <2>2. /\ RunsType(runs') /\ RunsGrow
        /\ Len(runs'[s]) = Len(runs[s]) + 1
        /\ runs'[s][Len(runs[s]) + 1].idle = 0
    BY <1>1, <1>4, AppendRun DEF OpenRun
  <2>3. TypeOK'
    BY <1>1, <1>4, <2>0, <2>2
       DEF OpenRun, Step, sourceVars, envVars, TypeOK, RunsType
  <2>4. /\ jobs'[j].src = s /\ jobs'[j].phase = "batch" /\ jobs'[j].beat
        /\ jobs'[j].run = Len(runs[s]) + 1 /\ jobs'[j].age = jobs[j].age
    BY <1>1, <2>1 DEF Job
  <2>5. JobInv(j)'
    BY <1>1, <1>2, <2>2, <2>4 DEF JobInv, Fresh, Working, In, JobRun
  <2>6. jobs'[j].run > Len(runs[jobs'[j].src])
    BY <1>2, <2>4
  <2> QED
    BY <1>4, <2>1, <2>2, <2>3, <2>5, <2>6, OneJobStep DEF OpenRun, Step
<1> QED
  BY <1>3, <1>4

(* A working job that rewrites its run, makes progress on it or not, and     *)
(* goes on working: what Heartbeat, MarkFile, LoseCheckpoint and CompleteRun *)
(* have in common.                                                           *)
LEMMA WorkStep ==
    ASSUME IInv, NEW j \in Slots, In(j, {"batch"}),
           NEW x \in Job, jobs' = [jobs EXCEPT ![j] = x],
           NEW r \in Run, runs' = runs \/ SetJobRun(j, r),
           r.idle <= JobRun(j).idle,
           x.beat = jobs[j].beat \/ (x.beat /\ SetJobRun(j, r) /\ r.idle = 0),
           x.phase \in {"batch", "broken", "closing"}, x.src = jobs[j].src,
           x.resume = jobs[j].resume, x.run = jobs[j].run, x.age = jobs[j].age,
           UNCHANGED <<sourceVars, uploads, queue, marks, envVars>>
    PROVE  IInv'
<1> DEFINE s == jobs[j].src
           k == jobs[j].run
<1>1. /\ TypeOK /\ jobs[j] \in Job /\ s \in Sources /\ jobs[j].age \in Nat
      /\ Working(j) /\ k \in 1..Len(runs[s]) /\ JobRun(j) \in Run
      /\ JobRun(j).idle \in Nat /\ r.idle \in Nat
  <2>1. Working(j) /\ TypeOK
    BY DEF Working, In, IInv
  <2>2. r.idle \in Nat
    BY TimeAssumption DEF Run, MaxIdle, StaleThreshold
  <2> QED
    BY <2>1, <2>2, NotFree, JobFacts
<1>2. /\ RunsType(runs') /\ RunsGrow
      /\ runs'[s][k] = IF runs' = runs THEN runs[s][k] ELSE r
      /\ SetJobRun(j, r) => runs'[s][k] = r
  BY <1>1, SameRuns, ReplaceRun DEF SetJobRun, JobRun
<1>3. TypeOK'
  BY <1>1, <1>2 DEF sourceVars, envVars, TypeOK, RunsType
<1>4. Len(runs[s]) \in Nat /\ Len(runs'[s]) \in Nat /\ Len(runs[s]) <= Len(runs'[s])
  BY <1>1, <1>2, TypeOKRuns, RunFacts DEF RunsGrow
<1>5. jobs'[j] = x
  BY <1>1 DEF TypeOK
<1>6. runs'[s][k].idle <= JobRun(j).idle /\ runs'[s][k].idle \in Nat
  BY <1>1, <1>2 DEF JobRun
<1>7. x.beat => runs'[s][k].idle <= jobs[j].age
  <2>1. jobs[j].beat => JobRun(j).idle <= jobs[j].age
    BY <1>1 DEF IInv, JobInv, Working, In
  <2>2. CASE x.beat = jobs[j].beat
    BY <1>1, <1>6, <2>1, <2>2
  <2>3. CASE x.beat /\ SetJobRun(j, r) /\ r.idle = 0
    BY <1>1, <1>2, <2>3
  <2> QED
    BY <2>2, <2>3
<1>8. JobInv(j)'
  BY <1>1, <1>4, <1>5, <1>7 DEF IInv, JobInv, In, Working, Fresh, JobRun
<1>9. Fresh(j)' => Fresh(j)
  BY <1>1, <1>5 DEF Fresh
<1> QED
  BY <1>2, <1>3, <1>5, <1>8, <1>9, OneJobStep DEF sourceVars, envVars

\* Heartbeats, checkpoints and the completion of the run
LEMMA WorkSteps ==
    ASSUME IInv, NEW j \in Slots,
           Heartbeat(j) \/ MarkFile(j) \/ LoseCheckpoint(j) \/ CompleteRun(j)
    PROVE  IInv'
<1> DEFINE o == jobs[j]
<1>1. In(j, {"batch"}) /\ UNCHANGED <<sourceVars, uploads, queue, marks, envVars>>
  BY DEF Heartbeat, MarkFile, LoseCheckpoint, CompleteRun
<1>2. Working(j) /\ o \in Job /\ JobRun(j) \in Run /\ JobRun(j).idle \in Nat
  BY <1>1, NotFree, JobFacts DEF Working, In
<1>3. \A errs \in BOOLEAN :
         LET r == [JobRun(j) EXCEPT !.errs = errs, !.idle = 0]
         IN  r \in Run /\ r.idle = 0
  <2>1. 0 \in 0..MaxIdle
    BY TimeAssumption DEF MaxIdle, StaleThreshold
  <2> QED
    BY <1>2, <2>1 DEF Run
<1>4. CASE Heartbeat(j)
  <2> DEFINE x == [o EXCEPT !.beat = TRUE]
             r == [JobRun(j) EXCEPT !.idle = 0]
  <2>1. r \in Run /\ r.idle = 0 /\ r.idle <= JobRun(j).idle
    BY <1>2, TimeAssumption DEF Run, MaxIdle, StaleThreshold
  <2>2. /\ x \in Job /\ x.phase = "batch" /\ x.src = o.src /\ x.beat
        /\ x.resume = o.resume /\ x.run = o.run /\ x.age = o.age
    BY <1>1, <1>2 DEF In, Job
  <2>3. SetJobRun(j, r) /\ jobs' = [jobs EXCEPT ![j] = x]
    BY <1>4 DEF Heartbeat, Step
  <2> HIDE DEF x, r
  <2> QED
    BY <1>1, <1>2, <2>1, <2>2, <2>3, WorkStep
<1>5. CASE MarkFile(j)
  <2>1. PICK errs \in BOOLEAN, reported \in BOOLEAN :
           /\ SetJobRun(j, [JobRun(j) EXCEPT !.errs = errs, !.idle = 0])
           /\ Step(j, [o EXCEPT !.beat = TRUE, !.failed = @ \/ reported])
    BY <1>5 DEF MarkFile
  <2> DEFINE x == [o EXCEPT !.beat = TRUE, !.failed = @ \/ reported]
             r == [JobRun(j) EXCEPT !.errs = errs, !.idle = 0]
  <2>2. r \in Run /\ r.idle = 0
    BY <1>3
  <2>3. r.idle <= JobRun(j).idle
    BY <1>2, <2>2
  <2>4. /\ x \in Job /\ x.phase = "batch" /\ x.src = o.src /\ x.beat
        /\ x.resume = o.resume /\ x.run = o.run /\ x.age = o.age
    BY <1>1, <1>2 DEF In, Job
  <2>5. SetJobRun(j, r) /\ jobs' = [jobs EXCEPT ![j] = x]
    BY <2>1 DEF Step
  <2> HIDE DEF x, r
  <2> QED
    BY <1>1, <1>2, <2>2, <2>3, <2>4, <2>5, WorkStep
<1>6. CASE LoseCheckpoint(j)
  <2> DEFINE x == [o EXCEPT !.phase = "broken", !.failed = TRUE]
  <2>1. /\ x \in Job /\ x.phase = "broken" /\ x.src = o.src /\ x.beat = o.beat
        /\ x.resume = o.resume /\ x.run = o.run /\ x.age = o.age
    BY <1>1, <1>2 DEF In, Job
  <2>2. runs' = runs /\ jobs' = [jobs EXCEPT ![j] = x]
    BY <1>6 DEF LoseCheckpoint, Step
  <2>3. JobRun(j).idle <= JobRun(j).idle
    BY <1>2
  <2> HIDE DEF x
  <2> QED
    BY <1>1, <1>2, <2>1, <2>2, <2>3, WorkStep
<1>7. CASE CompleteRun(j)
  <2> DEFINE status == IF JobRun(j).errs THEN "completed_with_errors"
                                         ELSE "completed"
             x == [o EXCEPT !.phase = "closing", !.runSeen = status]
             r == [JobRun(j) EXCEPT
                     !.status = IF status = o.runSeen THEN @ ELSE status]
  <2>1. r \in Run /\ r.idle = JobRun(j).idle
    BY <1>2 DEF Run
  <2>2. /\ x \in Job /\ x.phase = "closing" /\ x.src = o.src /\ x.beat = o.beat
        /\ x.resume = o.resume /\ x.run = o.run /\ x.age = o.age
    BY <1>2 DEF Job
  <2>3. SetJobRun(j, r) /\ jobs' = [jobs EXCEPT ![j] = x]
    BY <1>7 DEF CompleteRun, Step
  <2>4. r.idle <= JobRun(j).idle
    BY <1>2, <2>1
  <2> HIDE DEF x, r
  <2> QED
    BY <1>1, <1>2, <2>1, <2>2, <2>3, <2>4, WorkStep
<1> QED
  BY <1>4, <1>5, <1>6, <1>7

-----------------------------------------------------------------------------
(* The endpoints, the uploads and the queue: jobs and marks stay as they are *)

\* A step that moves no job and no mark
LEMMA QuietStep ==
    ASSUME IInv, TypeOK', RunsGrow, UploadsInv', UNCHANGED <<jobs, marks>>
    PROVE  IInv'
<1>1. TypeOK /\ RunsType(runs')
  BY TypeOKRuns DEF IInv, TypeOK, RunsType
<1>2. \A j \in Slots : JobInv(j)'
  BY <1>1, JobKept DEF IInv
<1>3. MarksInv'
  BY <1>1, MarksKept DEF IInv
<1>4. SweepSparesFreshRun'
  BY DEF IInv, SweepSparesFreshRun, Fresh, Working, In
<1> QED
  BY <1>2, <1>3, <1>4 DEF IInv

\* Actions that only queue, drop or count
LEMMA QueueStep ==
    ASSUME IInv, active' \subseteq Sources, queue' \in [Message -> Nat],
           requests' \in 0..MaxRequests,
           UNCHANGED <<ingestStatus, runs, uploads, jobs, marks, crashes>>
    PROVE  IInv'
<1>1. TypeOK /\ TypeOK'
  BY DEF IInv, TypeOK
<1>2. RunsGrow
  BY <1>1, SameRuns
<1>3. UploadsInv'
  BY DEF IInv, UploadsInv
<1> QED
  BY <1>1, <1>2, <1>3, QuietStep

\* The count of requests stays within its bound
LEMMA RequestCounts ==
    ASSUME TypeOK, Request
    PROVE  requests' \in 0..MaxRequests
BY BoundsAssumption DEF TypeOK, Request

\* One more copy of a message still makes a bag
LEMMA EnqueueType ==
    ASSUME TypeOK, NEW m \in Message, Enqueue(m)
    PROVE  queue' \in [Message -> Nat]
BY DEF TypeOK, Enqueue

\* The endpoints that only queue, and the resume that finds no run
LEMMA QueueSteps ==
    ASSUME IInv,
           \/ \E s \in Sources : \/ SetSourceStatus(s)
                                 \/ TriggerIngest(s)
                                 \/ ResumeIngest(s)
           \/ IngestAllSources
           \/ \E j \in Slots, m \in Message : DropResume(j, m)
    PROVE  IInv'
<1>1. TypeOK
  BY DEF IInv
<1>2. ASSUME NEW s \in Sources, SetSourceStatus(s)
      PROVE  IInv'
  BY <1>1, <1>2, RequestCounts, QueueStep DEF SetSourceStatus, TypeOK
<1>3. ASSUME NEW s \in Sources, TriggerIngest(s) \/ ResumeIngest(s)
      PROVE  IInv'
  <2>1. Request /\ UNCHANGED <<sourceVars, runs, uploads, jobs, marks, crashes>>
    BY <1>3 DEF TriggerIngest, ResumeIngest
  <2>2. queue' \in [Message -> Nat]
    <3>1. \A b \in BOOLEAN : [src |-> s, resume |-> b] \in Message
      BY DEF Message
    <3> QED
      BY <1>1, <1>3, <3>1, EnqueueType DEF TriggerIngest, ResumeIngest
  <2> QED
    BY <1>1, <2>1, <2>2, RequestCounts, QueueStep DEF sourceVars, TypeOK
<1>4. CASE IngestAllSources
  <2>1. queue' \in [Message -> Nat]
    BY <1>1, <1>4 DEF IngestAllSources, TypeOK
  <2> QED
    BY <1>1, <1>4, <2>1, RequestCounts, QueueStep
       DEF IngestAllSources, sourceVars, TypeOK
<1>5. ASSUME NEW j \in Slots, NEW m \in Message, DropResume(j, m)
      PROVE  IInv'
  <2>1. queue' \in [Message -> Nat]
    BY <1>1, <1>5 DEF DropResume, Take, TypeOK
  <2> QED
    BY <1>1, <1>5, <2>1, QueueStep DEF DropResume, sourceVars, envVars, TypeOK
<1> QED
  BY <1>2, <1>3, <1>4, <1>5

\* A retry reopens the latest run but does not touch its progress
LEMMA RetryErrorsStep ==
    ASSUME IInv, NEW s \in Sources, RetryErrors(s)
    PROVE  IInv'
<1> DEFINE k == Len(runs[s])
           r == [runs[s][k] EXCEPT !.errs = FALSE, !.status = "running"]
<1>1. TypeOK /\ runs[s] \in Seq(Run) /\ runs[s] # <<>>
  BY DEF IInv, TypeOK, RetryErrors, HasRun
<1>2. k \in 1..Len(runs[s])
  BY <1>1
<1>3. runs[s][k] \in Run /\ runs[s][k].idle \in Nat
  BY <1>1, <1>2, TypeOKRuns, RunFacts
<1>4. r \in Run /\ r.idle = runs[s][k].idle
  BY <1>3 DEF Run
<1>5. runs' = [runs EXCEPT ![s][k] = r]
  BY <1>1 DEF RetryErrors, TypeOK
<1>6. r.idle <= runs[s][k].idle
  BY <1>3, <1>4
<1>7. RunsType(runs') /\ RunsGrow
  <2> HIDE DEF r, k
  <2> QED
    BY <1>1, <1>2, <1>4, <1>5, <1>6, ReplaceRun
<1>8. [src |-> s, resume |-> TRUE] \in Message
  BY DEF Message
<1>9. TypeOK'
  BY <1>1, <1>7, <1>8, RequestCounts, EnqueueType
     DEF RetryErrors, sourceVars, TypeOK, RunsType
<1>10. UploadsInv'
  BY <1>1, <1>7, UploadsKept DEF IInv, RetryErrors
<1> QED
  BY <1>7, <1>9, <1>10, QuietStep DEF RetryErrors

\* An upload appends a run that no job holds
LEMMA UploadStartStep ==
    ASSUME IInv, NEW s \in Sources, UploadStart(s)
    PROVE  IInv'
<1>1. TypeOK
  BY DEF IInv
<1>2. /\ RunsType(runs') /\ RunsGrow
      /\ Len(runs'[s]) = Len(runs[s]) + 1
      /\ Len(runs[s]) \in Nat
  BY <1>1, AppendRun, TypeOKRuns, RunFacts DEF UploadStart
<1>3. TypeOK'
  BY <1>1, <1>2, RequestCounts DEF UploadStart, sourceVars, TypeOK, RunsType
<1>4. UploadsInv'
  <2> SUFFICES ASSUME NEW u \in uploads'
               PROVE  u.run \in 1..Len(runs'[u.src])
    BY DEF UploadsInv
  <2>1. CASE u \in uploads
    BY <1>1, <1>2, <2>1, TypeOKRuns, RunFacts DEF IInv, UploadsInv, RunsGrow, TypeOK
  <2>2. CASE u = [src |-> s, run |-> Len(runs[s]) + 1]
    BY <1>2, <2>2
  <2> QED
    BY <2>1, <2>2 DEF UploadStart
<1> QED
  BY <1>2, <1>3, <1>4, QuietStep DEF UploadStart

\* An upload closes its own run; the progress of none changes
LEMMA UploadEndStep ==
    ASSUME IInv, NEW u \in uploads, UploadEnd(u)
    PROVE  IInv'
<1> DEFINE s == u.src
           k == u.run
<1>1. TypeOK /\ s \in Sources /\ k \in 1..Len(runs[s])
  BY DEF IInv, TypeOK, UploadsInv
<1>2. runs[s][k] \in Run /\ runs[s][k].idle \in Nat
  BY <1>1, TypeOKRuns, RunFacts
<1>3. RunsType(runs') /\ RunsGrow
  <2>1. CASE UNCHANGED runs
    BY <1>1, <2>1, SameRuns
  <2>2. CASE \E st \in RunStatuses \ {"running"} :
                runs' = [runs EXCEPT ![s][k].status = st]
    <3>1. PICK st \in RunStatuses : runs' = [runs EXCEPT ![s][k].status = st]
      BY <2>2
    <3> DEFINE r == [runs[s][k] EXCEPT !.status = st]
    <3>2. r \in Run /\ r.idle = runs[s][k].idle
      BY <1>2 DEF Run
    <3>3. runs' = [runs EXCEPT ![s][k] = r]
      BY <1>1, <3>1 DEF TypeOK
    <3>4. r.idle <= runs[s][k].idle
      BY <1>2, <3>2
    <3> HIDE DEF r, s, k
    <3> QED
      BY <1>1, <3>2, <3>3, <3>4, ReplaceRun
  <2> QED
    BY <2>1, <2>2 DEF UploadEnd
<1>4. TypeOK'
  BY <1>1, <1>3 DEF UploadEnd, sourceVars, TypeOK, RunsType
<1>5. UploadsInv'
  BY <1>1, <1>3, UploadsKept DEF IInv, UploadEnd
<1> QED
  BY <1>3, <1>4, <1>5, QuietStep DEF UploadEnd

-----------------------------------------------------------------------------
(* The worker's death, the sweep and time *)

\* A crash empties every slot
LEMMA CrashWorkerStep ==
    ASSUME IInv, CrashWorker
    PROVE  IInv'
<1>1. TypeOK /\ TypeOK'
  BY BoundsAssumption DEF IInv, CrashWorker, sourceVars, TypeOK
<1>2. \A j \in Slots : jobs'[j] = NoJob
  BY DEF CrashWorker
<1>3. \A j \in Slots : JobInv(j)' /\ ~Fresh(j)'
  BY <1>2 DEF JobInv, Fresh, Working, In, NoJob
<1>4. RunsType(runs') /\ RunsGrow
  BY <1>1, SameRuns DEF CrashWorker
<1>5. UploadsInv' /\ MarksInv'
  BY <1>1, <1>4, UploadsKept, MarksKept DEF IInv, CrashWorker
<1> QED
  BY <1>1, <1>3, <1>5 DEF IInv, SweepSparesFreshRun

(* The sweep never picks a run a working job has made progress on: since     *)
(* that progress less time has passed than the job may live.                 *)
LEMMA LiveNotStale ==
    ASSUME IInv, NEW j \in Slots, Working(j), jobs[j].beat
    PROVE  ~IsRunStale(JobRun(j))
<1>1. jobs[j] \in Job /\ JobRun(j).idle \in Nat /\ In(j, Phases)
  BY JobFacts DEF Working, In, NoJob
<1>2. jobs[j].age \in 0..JobTimeout /\ JobRun(j).idle <= jobs[j].age
  BY <1>1 DEF IInv, JobInv, Job
<1> QED
  BY <1>1, <1>2, TimeAssumption DEF IsRunStale, StaleThreshold

\* What a sweep decides to close is stale, so no fresh job can hold it
LEMMA SweepScanStep ==
    ASSUME IInv, SweepScan
    PROVE  IInv'
<1>1. TypeOK /\ \A s \in Sources : Len(runs[s]) \in Nat
  BY TypeOKRuns, RunFacts DEF IInv
<1>2. \A m \in marks' : /\ m.src \in Doomed /\ m.src \in Sources
                        /\ m.run = Len(runs[m.src])
                        /\ m \in Mark
  <2> TAKE m \in marks'
  <2>1. PICK s \in Doomed :
           m = [src |-> s, run |-> Len(runs[s]),
                close |-> HasRun(s) /\ LatestRun(s).status = "running"]
    BY DEF SweepScan
  <2>2. s \in Sources
    BY DEF Doomed
  <2> QED
    BY <1>1, <2>1, <2>2
<1>3. TypeOK'
  BY <1>1, <1>2 DEF SweepScan, sourceVars, envVars, TypeOK
<1>4. RunsGrow
  BY <1>1, SameRuns DEF SweepScan
<1>5. \A j \in Slots : JobInv(j)'
  BY <1>1, <1>4, SameRuns, JobKept DEF SweepScan, IInv
<1>6. UploadsInv'
  BY DEF SweepScan, IInv, UploadsInv
<1>7. MarksInv'
  BY <1>1, <1>2 DEF SweepScan, MarksInv
<1>8. SweepSparesFreshRun'
  <2> SUFFICES ASSUME NEW m \in marks', NEW j \in Slots, Fresh(j),
                      jobs[j].src = m.src, m.run = jobs[j].run
               PROVE  FALSE
    BY DEF SweepSparesFreshRun, SweepScan, Fresh, Working, In
  <2>1. Working(j) /\ jobs[j].beat /\ jobs[j] # NoJob
    BY DEF Fresh, Working, In, IInv, JobInv, NoJob
  <2>2. jobs[j].run \in 1..Len(runs[m.src])
    BY <2>1, JobFacts
  <2>3. HasRun(m.src) /\ JobRun(j) = LatestRun(m.src)
    BY <1>1, <1>2, <2>2 DEF HasRun, JobRun, LatestRun
  <2> QED
    BY <1>2, <2>1, <2>3, LiveNotStale DEF Doomed
<1> QED
  BY <1>3, <1>5, <1>6, <1>7, <1>8 DEF IInv

\* The commit writes statuses, and the progress of no run
LEMMA SweepCommitStep ==
    ASSUME IInv, SweepCommit
    PROVE  IInv'
<1>1. TypeOK
  BY DEF IInv
<1>2. ASSUME NEW s \in Sources
      PROVE  /\ runs'[s] \in Seq(Run)
             /\ Len(runs'[s]) = Len(runs[s])
             /\ \A k \in 1..Len(runs[s]) : runs'[s][k].idle = runs[s][k].idle
  <2> DEFINE f(k) == IF [src |-> s, run |-> k, close |-> TRUE] \in marks
                     THEN [runs[s][k] EXCEPT !.status = "completed_with_errors"]
                     ELSE runs[s][k]
  <2>1. /\ Len(runs[s]) \in Nat
        /\ \A k \in 1..Len(runs[s]) : runs[s][k] \in Run
    BY <1>1, TypeOKRuns, RunFacts
  <2>2. \A k \in 1..Len(runs[s]) : f(k) \in Run /\ f(k).idle = runs[s][k].idle
    BY <2>1 DEF Run
  <2>3. runs'[s] = [k \in 1..Len(runs[s]) |-> f(k)]
    BY DEF SweepCommit
  <2> HIDE DEF f
  <2> QED
    BY <2>1, <2>2, <2>3
<1>3. RunsType(runs')
  BY <1>2 DEF SweepCommit, RunsType
<1>4. RunsGrow
  BY <1>1, <1>2, TypeOKRuns, RunFacts DEF RunsGrow
<1>5. ingestStatus' \in [Sources -> IngestStatuses]
  BY <1>1 DEF SweepCommit, TypeOK
<1>6. TypeOK'
  BY <1>1, <1>3, <1>5 DEF SweepCommit, envVars, TypeOK, RunsType
<1>7. \A j \in Slots : JobInv(j)'
  BY <1>1, <1>3, <1>4, JobKept DEF SweepCommit, IInv
<1>8. UploadsInv' /\ MarksInv'
  BY <1>1, <1>3, <1>4, UploadsKept, MarksKept DEF SweepCommit, IInv
<1> QED
  BY <1>6, <1>7, <1>8 DEF IInv, SweepSparesFreshRun, SweepCommit

(* A tick ages the jobs and the runs alike, so a job stays at least as old   *)
(* as its last progress.                                                     *)
LEMMA TickStep ==
    ASSUME IInv, Tick
    PROVE  IInv'
<1>1. TypeOK
  BY DEF IInv
<1>2. ASSUME NEW s \in Sources
      PROVE  /\ runs'[s] \in Seq(Run)
             /\ Len(runs'[s]) = Len(runs[s])
             /\ \A k \in 1..Len(runs[s]) :
                   runs'[s][k].idle <= runs[s][k].idle + 1
  <2> DEFINE f(k) == [runs[s][k] EXCEPT !.idle = IF @ < MaxIdle THEN @ + 1 ELSE @]
  <2>1. /\ Len(runs[s]) \in Nat
        /\ \A k \in 1..Len(runs[s]) : runs[s][k] \in Run
    BY <1>1, TypeOKRuns, RunFacts
  <2>2. \A r \in Run :
           LET x == [r EXCEPT !.idle = IF @ < MaxIdle THEN @ + 1 ELSE @]
           IN  x \in Run /\ x.idle <= r.idle + 1
    BY TimeAssumption DEF Run, MaxIdle, StaleThreshold
  <2>3. \A k \in 1..Len(runs[s]) : f(k) \in Run /\ f(k).idle <= runs[s][k].idle + 1
    BY <2>1, <2>2
  <2>4. runs'[s] = [k \in 1..Len(runs[s]) |-> f(k)]
    BY DEF Tick
  <2> HIDE DEF f
  <2> QED
    BY <2>1, <2>3, <2>4
<1>3. RunsType(runs') /\ \A s \in Sources : Len(runs'[s]) = Len(runs[s])
  BY <1>2 DEF Tick, RunsType
<1>4. ASSUME NEW j \in Slots, In(j, Phases)
      PROVE  /\ jobs'[j] = [jobs[j] EXCEPT !.age = @ + 1]
             /\ jobs'[j] \in Job
  <2>1. jobs[j] \in Job /\ jobs[j].age < JobTimeout
    BY <1>4, JobFacts DEF Tick, In, NoJob
  <2>2. jobs'[j] = [jobs[j] EXCEPT !.age = @ + 1]
    BY <1>4 DEF Tick
  <2>3. PICK n \in 0..JobTimeout : n = jobs[j].age + 1
    BY <2>1, TimeAssumption DEF Job
  <2>4. [jobs[j] EXCEPT !.age = n] \in Job
    BY <2>1 DEF Job
  <2> QED
    BY <2>2, <2>3, <2>4
<1>5. \A j \in Slots : ~In(j, Phases) => jobs'[j] = NoJob
  BY DEF Tick
<1>6. TypeOK'
  <2>1. jobs' \in [Slots -> Job \union {NoJob}]
    BY <1>4, <1>5 DEF Tick
  <2> QED
    BY <1>1, <1>3, <2>1 DEF Tick, sourceVars, envVars, TypeOK, RunsType
<1>7. ASSUME NEW j \in Slots
      PROVE  JobInv(j)'
  <2>1. CASE ~In(j, Phases)
    BY <1>5, <2>1 DEF JobInv, In, NoJob
  <2>2. CASE In(j, Phases)
    <3> DEFINE s == jobs[j].src
               k == jobs[j].run
    <3>1. /\ jobs[j] \in Job /\ s \in Sources /\ jobs[j].age \in Nat
          /\ Working(j) => k \in 1..Len(runs[s]) /\ JobRun(j).idle \in Nat
      BY <2>2, JobFacts DEF In, NoJob
    <3>2. /\ jobs'[j].src = s /\ jobs'[j].run = k
          /\ jobs'[j].phase = jobs[j].phase /\ jobs'[j].beat = jobs[j].beat
          /\ jobs'[j].resume = jobs[j].resume
          /\ jobs'[j].age = jobs[j].age + 1
      BY <1>4, <2>2, <3>1 DEF Job
    <3>3. Working(j) => /\ runs'[s][k].idle <= JobRun(j).idle + 1
                        /\ runs'[s][k].idle \in Nat
      BY <1>2, <1>3, <3>1, RunFacts DEF JobRun
    <3>4. Working(j) /\ jobs[j].beat => runs'[s][k].idle <= jobs[j].age + 1
      BY <2>2, <3>1, <3>3 DEF IInv, JobInv
    <3> QED
      BY <1>3, <2>2, <3>1, <3>2, <3>4
         DEF IInv, JobInv, In, Working, Fresh, JobRun
  <2> QED
    BY <2>1, <2>2
<1>8. UploadsInv' /\ MarksInv'
  BY <1>1, <1>3 DEF Tick, IInv, UploadsInv, MarksInv, TypeOK
<1>9. SweepSparesFreshRun'
  <2>1. ASSUME NEW j \in Slots, Fresh(j)'
        PROVE  Fresh(j) /\ jobs'[j].src = jobs[j].src /\ jobs'[j].run = jobs[j].run
    <3>1. In(j, Phases)
      BY <1>5, <2>1 DEF Fresh, Working, In, NoJob
    <3>2. jobs[j] \in Job
      BY <3>1, JobFacts DEF In, NoJob
    <3> QED
      BY <1>4, <2>1, <3>1, <3>2 DEF Fresh, Working, In, Job
  <2> QED
    BY <2>1, SparesKept DEF Tick, IInv
<1> QED
  BY <1>6, <1>7, <1>8, <1>9 DEF IInv

-----------------------------------------------------------------------------
(* The theorems *)

\* The inductive invariant holds at first
LEMMA InitInv == Init => IInv
<1> SUFFICES ASSUME Init PROVE IInv
  OBVIOUS
<1>1. TypeOK
  BY BoundsAssumption DEF Init, TypeOK
<1>2. \A j \in Slots : JobInv(j)
  BY DEF Init, JobInv, In, NoJob
<1>3. UploadsInv /\ MarksInv /\ SweepSparesFreshRun
  BY DEF Init, UploadsInv, MarksInv, SweepSparesFreshRun
<1> QED
  BY <1>1, <1>2, <1>3 DEF IInv

\* It is kept by every step of a job, its start included
LEMMA JobStepInv ==
    ASSUME IInv, NEW j \in Slots, StartJob(j) \/ JobStep(j)
    PROVE  IInv'
<1>1. CASE StartJob(j)
  BY <1>1, LoadJobStep, QueueSteps DEF StartJob
<1>2. CASE \/ RejectSource(j) \/ BeginIngest(j) \/ OpenRun(j)
            \/ TimeoutJob(j) \/ AbandonJob(j)
  BY <1>2, RejectSourceStep, BeginIngestStep, OpenRunStep, TimeoutJobStep
<1>3. CASE NothingToIngest(j) \/ FinishJob(j) \/ FailJob(j)
  BY <1>3, EndingSteps
<1>4. CASE Heartbeat(j) \/ MarkFile(j) \/ LoseCheckpoint(j) \/ CompleteRun(j)
  BY <1>4, WorkSteps
<1> QED
  BY <1>1, <1>2, <1>3, <1>4 DEF JobStep

\* It is kept by every step
LEMMA NextInv == IInv /\ [Next]_vars => IInv'
<1> SUFFICES ASSUME IInv, [Next]_vars PROVE IInv'
  OBVIOUS
<1>1. CASE \E s \in Sources : Endpoint(s)
  BY <1>1, QueueSteps, RetryErrorsStep, UploadStartStep DEF Endpoint
<1>2. CASE IngestAllSources
  BY <1>2, QueueSteps
<1>3. CASE \E u \in uploads : UploadEnd(u)
  BY <1>3, UploadEndStep
<1>4. CASE \E j \in Slots : StartJob(j) \/ JobStep(j)
  BY <1>4, JobStepInv
<1>5. CASE CrashWorker \/ SweepScan \/ SweepCommit \/ Tick
  BY <1>5, CrashWorkerStep, SweepScanStep, SweepCommitStep, TickStep
<1>6. CASE UNCHANGED vars
  BY <1>6 DEF vars, IInv, TypeOK, JobInv, JobRun, In, Working, Fresh, UploadsInv,
              MarksInv, SweepSparesFreshRun
<1> QED
  BY <1>1, <1>2, <1>3, <1>4, <1>5, <1>6 DEF Next

\* The inductive invariant holds in every reachable state
THEOREM Inductive == Spec => []IInv
BY InitInv, NextInv, PTL DEF Spec

\* Every variable keeps its type: no job ever points outside its source's runs
THEOREM TypeCorrect == Spec => []TypeOK
<1>1. IInv => TypeOK
  BY DEF IInv
<1> QED
  BY <1>1, Inductive, PTL

(* recovery.is_run_stale is never true of a run while a job that has made    *)
(* progress on it lives, whatever the timeout and for any grace that is not  *)
(* negative.                                                                 *)
THEOREM LiveRunsAreNotStale == Spec => []LiveRunNotStale
<1>1. IInv => LiveRunNotStale
  BY LiveNotStale DEF LiveRunNotStale
<1> QED
  BY <1>1, Inductive, PTL

\* The sweep never decides to close the run of a live plain ingest
THEOREM SweepSparesFresh == Spec => []SweepSparesFreshRun
<1>1. IInv => SweepSparesFreshRun
  BY DEF IInv
<1> QED
  BY <1>1, Inductive, PTL

(* reset_stale_ingests commits nothing about the run of a live plain ingest, *)
(* although it reads in one moment and commits in a later one.               *)
THEOREM SweepKeepsFresh == Spec => SweepKeepsFreshRuns
<1>1. ASSUME IInv, SweepCommit, NEW j \in Slots, Fresh(j)
      PROVE  JobRun(j)' = JobRun(j)
  <2> DEFINE s == jobs[j].src
             k == jobs[j].run
  <2>1. /\ s \in Sources /\ k \in 1..Len(runs[s]) /\ jobs'[j] = jobs[j]
    <3>1. Working(j) /\ jobs[j] # NoJob
      BY <1>1 DEF Fresh, Working, In, NoJob
    <3> QED
      BY <1>1, <3>1, JobFacts DEF SweepCommit
  <2>2. [src |-> s, run |-> k, close |-> TRUE] \notin marks
    BY <1>1 DEF IInv, SweepSparesFreshRun
  <2>3. runs'[s][k] = runs[s][k]
    BY <1>1, <2>1, <2>2 DEF SweepCommit
  <2> QED
    BY <2>1, <2>3 DEF JobRun
<1>2. IInv /\ [Next]_vars
        => [SweepCommit => \A j \in Slots : Fresh(j) => JobRun(j)' = JobRun(j)]_vars
  BY <1>1
<1> QED
  BY <1>2, Inductive, PTL DEF Spec, SweepKeepsFreshRuns
=============================================================================
