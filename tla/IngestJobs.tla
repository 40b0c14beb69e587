----------------------------- MODULE IngestJobs -----------------------------
(***************************************************************************)
(* The life of an ingest job: the admin endpoints that enqueue it, the arq *)
(* worker that runs it, and the staleness sweep that recovers a source     *)
(* whose job died.                                                         *)
(*                                                                         *)
(* Shared state is what Postgres and Redis hold: the ingest_status of each *)
(* source, the ingest runs of each source NAME (the only link between the  *)
(* two), and the queue.  Every action is one transaction or one await-to-  *)
(* await stretch of the code, so jobs, endpoints and the sweep interleave  *)
(* wherever the code lets them.                                            *)
(*                                                                         *)
(* Abstractions.  Time is a global Tick; a job carries its age and a run   *)
(* the time since it last made progress, both in ticks.  A file is not     *)
(* named here (module BatchIngest does that): of a run's checkpoints only  *)
(* "is there an error checkpoint" is kept.  The queue is a bag, although   *)
(* arq keeps it by enqueue time: up to max_jobs jobs start together and    *)
(* their first queries run in any order.  Sources are neither created,     *)
(* deleted nor renamed.                                                    *)
(***************************************************************************)
EXTENDS Integers, Sequences, FiniteSets

CONSTANTS
    Sources,        \* names of the configured sources
    GithubSources,  \* those whose source_type has a connector
    Slots,          \* the worker's job slots (max_jobs)
    JobTimeout,     \* ingest_job_timeout_seconds, in ticks
    Grace,          \* ingest_stale_grace_seconds, in ticks
    MaxRequests,    \* bound: admin requests that enqueue or upload
    MaxCrashes      \* bound: worker crashes

ASSUME SourcesAssumption == GithubSources \subseteq Sources
ASSUME TimeAssumption    == JobTimeout \in Nat \ {0} /\ Grace \in Nat
ASSUME BoundsAssumption  == MaxRequests \in Nat /\ MaxCrashes \in Nat

VARIABLES
    active,        \* the sources whose status is "active"
    ingestStatus,  \* ingest_status of each source
    runs,          \* runs[s]: the ingest runs named s, oldest first
    uploads,       \* runs a single-file upload request still has open
    queue,         \* queue[m]: how many copies of message m wait in Redis
    jobs,          \* jobs[j]: what the job in slot j holds in memory
    marks,         \* what a sweep has decided to reset but not yet committed
    requests,      \* admin requests so far
    crashes        \* worker crashes so far

sourceVars == <<active, ingestStatus>>
envVars    == <<requests, crashes>>
vars       == <<active, ingestStatus, runs, uploads, queue, jobs, marks,
                requests, crashes>>

-----------------------------------------------------------------------------
(* State *)

IngestStatuses == {"idle", "ingesting", "error"}
RunStatuses    == {"running", "completed", "completed_with_errors", "failed"}
Incomplete     == {"running", "completed_with_errors"}

\* job_timeout + grace: how long without progress before a run is dead
StaleThreshold == JobTimeout + Grace

\* The age at which a run stops being watched more closely
MaxIdle == StaleThreshold + 1

Run == [status : RunStatuses, errs : BOOLEAN, idle : 0..MaxIdle]

NewRun == [status |-> "running", errs |-> FALSE, idle |-> 0]

Message == [src : Sources, resume : BOOLEAN]

RunRef == [src : Sources, run : Nat]

Mark == [src : Sources, run : Nat, close : BOOLEAN]

Phases == {"starting", "listing", "batch", "broken", "closing"}

(* run: the run the job works on, 0 if none.  beat: it has made progress on *)
(* that run.  failed: summary["errors"] is not empty.  seen, runSeen: the   *)
(* values of ingest_status and of the run's status its session last loaded *)
(* (expire_on_commit=False keeps them, and an equal write emits no UPDATE). *)
Job == [phase : Phases, src : Sources, resume : BOOLEAN, run : Nat,
        age : 0..JobTimeout, beat : BOOLEAN, failed : BOOLEAN,
        seen : IngestStatuses, runSeen : RunStatuses]

NoJob == [phase |-> "free"]

TypeOK ==
    /\ active \subseteq Sources
    /\ ingestStatus \in [Sources -> IngestStatuses]
    /\ runs \in [Sources -> Seq(Run)]
    /\ uploads \subseteq RunRef
    /\ queue \in [Message -> Nat]
    /\ jobs \in [Slots -> Job \union {NoJob}]
    /\ marks \subseteq Mark
    /\ requests \in 0..MaxRequests
    /\ crashes \in 0..MaxCrashes

Init ==
    /\ active = Sources
    /\ ingestStatus = [s \in Sources |-> "idle"]
    /\ runs = [s \in Sources |-> <<>>]
    /\ uploads = {}
    /\ queue = [m \in Message |-> 0]
    /\ jobs = [j \in Slots |-> NoJob]
    /\ marks = {}
    /\ requests = 0
    /\ crashes = 0

-----------------------------------------------------------------------------
(* ingest_service: what a run says of itself *)

HasRun(s) == runs[s] # <<>>

LatestRun(s) == runs[s][Len(runs[s])]

\* Mutation of IsRunStale: the job timeout is left out of the threshold
IsRunStaleEarly(r) == r.idle > Grace

\* staleness_exceeded over is_run_stale's last progress
IsRunStale(r) == r.idle > StaleThreshold

\* is_run_resumable, for the source's latest run
FindResumable(s) ==
    /\ HasRun(s)
    /\ \/ LatestRun(s).status \in Incomplete
       \/ ingestStatus[s] \in {"error", "ingesting"}

-----------------------------------------------------------------------------
(* The admin endpoints.  None of them writes ingest_status: until a job     *)
(* starts, nothing tells a second request that one is already queued.       *)

Request == requests < MaxRequests /\ requests' = requests + 1

Enqueue(m) == queue' = [queue EXCEPT ![m] = @ + 1]

\* PUT /{source_id}: the status field
SetSourceStatus(s) ==
    /\ Request
    /\ active' = IF s \in active THEN active \ {s} ELSE active \union {s}
    /\ UNCHANGED <<ingestStatus, runs, uploads, queue, jobs, marks, crashes>>

TriggerIngest(s) ==
    /\ Request
    /\ s \in active
    /\ ingestStatus[s] # "ingesting"
    /\ Enqueue([src |-> s, resume |-> FALSE])
    /\ UNCHANGED <<sourceVars, runs, uploads, jobs, marks, crashes>>

\* POST /ingest: every active source, whatever it is doing
IngestAllSources ==
    /\ Request
    /\ active # {}
    /\ queue' = [m \in Message |->
                    IF m.src \in active /\ ~m.resume THEN queue[m] + 1
                                                     ELSE queue[m]]
    /\ UNCHANGED <<sourceVars, runs, uploads, jobs, marks, crashes>>

ResumeIngest(s) ==
    /\ Request
    /\ ingestStatus[s] # "ingesting"
    /\ FindResumable(s)
    /\ Enqueue([src |-> s, resume |-> TRUE])
    /\ UNCHANGED <<sourceVars, runs, uploads, jobs, marks, crashes>>

RetryErrors(s) ==
    /\ Request
    /\ ingestStatus[s] # "ingesting"
    /\ HasRun(s)
    /\ LatestRun(s).errs
    /\ runs' = [runs EXCEPT ![s][Len(runs[s])].errs = FALSE,
                            ![s][Len(runs[s])].status = "running"]
    /\ Enqueue([src |-> s, resume |-> TRUE])
    /\ UNCHANGED <<sourceVars, uploads, jobs, marks, crashes>>

(* A single-file upload labelled with a source's name opens a run of that   *)
(* name in the web process, and closes it when the request ends; a web      *)
(* process that dies leaves it "running".                                   *)
UploadStart(s) ==
    /\ Request
    /\ runs' = [runs EXCEPT ![s] = Append(@, NewRun)]
    /\ uploads' = uploads \union {[src |-> s, run |-> Len(runs[s]) + 1]}
    /\ UNCHANGED <<sourceVars, queue, jobs, marks, crashes>>

UploadEnd(u) ==
    /\ u \in uploads
    /\ uploads' = uploads \ {u}
    /\ \/ UNCHANGED runs
       \/ \E st \in RunStatuses \ {"running"} :
             runs' = [runs EXCEPT ![u.src][u.run].status = st]
    /\ UNCHANGED <<sourceVars, queue, jobs, marks, requests, crashes>>

-----------------------------------------------------------------------------
(* The job: run_ingest_impl and, inside it, batch_ingest_files.  An action  *)
(* ends where the job commits.                                              *)

In(j, phases) == jobs[j].phase \in phases

\* The run job j works on, as the database has it
JobRun(j) == runs[jobs[j].src][jobs[j].run]

SetJobRun(j, r) == runs' = [runs EXCEPT ![jobs[j].src][jobs[j].run] = r]

Step(j, changed) == jobs' = [jobs EXCEPT ![j] = changed]

\* The job writes the source's final status and returns
EndJob(j, status) ==
    /\ ingestStatus' = [ingestStatus EXCEPT ![jobs[j].src] = status]
    /\ Step(j, NoJob)
    /\ UNCHANGED <<active, uploads, queue, marks, envVars>>

Take(j, m) ==
    /\ jobs[j] = NoJob
    /\ queue[m] > 0
    /\ queue' = [queue EXCEPT ![m] = @ - 1]

\* The job loads its source and, to resume, the run it will go on with
LoadJob(j, m) ==
    /\ Take(j, m)
    /\ m.resume => FindResumable(m.src)
    /\ Step(j, [phase |-> "starting", src |-> m.src, resume |-> m.resume,
                run |-> IF m.resume THEN Len(runs[m.src]) ELSE 0,
                age |-> 0, beat |-> FALSE, failed |-> FALSE,
                seen |-> ingestStatus[m.src],
                runSeen |-> IF m.resume THEN LatestRun(m.src).status
                                        ELSE "running"])
    /\ UNCHANGED <<sourceVars, runs, uploads, marks, envVars>>

\* Nothing to resume any more: the job returns and the source stays as it is
DropResume(j, m) ==
    /\ Take(j, m)
    /\ m.resume /\ ~FindResumable(m.src)
    /\ UNCHANGED <<sourceVars, runs, uploads, jobs, marks, envVars>>

\* No connector for the source's type
RejectSource(j) ==
    /\ In(j, {"starting"})
    /\ jobs[j].src \notin GithubSources
    /\ EndJob(j, IF jobs[j].seen = "error" THEN ingestStatus[jobs[j].src]
                                           ELSE "error")
    /\ UNCHANGED runs

BeginIngest(j) ==
    /\ In(j, {"starting"})
    /\ jobs[j].src \in GithubSources
    /\ ingestStatus' = [ingestStatus EXCEPT ![jobs[j].src] =
                           IF jobs[j].seen = "ingesting" THEN @ ELSE "ingesting"]
    /\ Step(j, [jobs[j] EXCEPT !.phase = "listing"])
    /\ UNCHANGED <<active, runs, uploads, queue, marks, envVars>>

\* No changed file, or none that scores: idle, and no run is opened or closed
NothingToIngest(j) ==
    /\ In(j, {"listing"})
    /\ EndJob(j, "idle")
    /\ UNCHANGED runs

\* A plain ingest opens a run, a resume goes on with the one it loaded
OpenRun(j) ==
    /\ In(j, {"listing"})
    /\ IF jobs[j].resume
       THEN /\ Step(j, [jobs[j] EXCEPT !.phase = "batch"])
            /\ UNCHANGED runs
       ELSE /\ Step(j, [jobs[j] EXCEPT !.phase = "batch", !.beat = TRUE,
                                       !.run = Len(runs[jobs[j].src]) + 1])
            /\ runs' = [runs EXCEPT ![jobs[j].src] = Append(@, NewRun)]
    /\ UNCHANGED <<sourceVars, uploads, queue, marks, envVars>>

\* Mutation of Heartbeat: the poll loop does not record that it is alive
HeartbeatUnrecorded(j) ==
    /\ In(j, {"batch"})
    /\ Step(j, [jobs[j] EXCEPT !.beat = TRUE])
    /\ UNCHANGED <<sourceVars, runs, uploads, queue, marks, envVars>>

\* One turn of the poll loop
Heartbeat(j) ==
    /\ In(j, {"batch"})
    /\ SetJobRun(j, [JobRun(j) EXCEPT !.idle = 0])
    /\ Step(j, [jobs[j] EXCEPT !.beat = TRUE])
    /\ UNCHANGED <<sourceVars, uploads, queue, marks, envVars>>

(* One file's result: "done" (which may clear the run's last error          *)
(* checkpoint), an error that is also reported in the summary, or a result  *)
(* that is neither succeeded nor errored and is not reported.               *)
MarkFile(j) ==
    /\ In(j, {"batch"})
    /\ \E errs, reported \in BOOLEAN :
          /\ reported => errs
          /\ SetJobRun(j, [JobRun(j) EXCEPT !.errs = errs, !.idle = 0])
          /\ Step(j, [jobs[j] EXCEPT !.beat = TRUE, !.failed = @ \/ reported])
    /\ UNCHANGED <<sourceVars, uploads, queue, marks, envVars>>

(* A statement of a file's transaction failed.  The rollback expires the     *)
(* session's objects, and run.id then raises when it is read: neither this   *)
(* file nor a later one of the pass gets its checkpoint.                     *)
LoseCheckpoint(j) ==
    /\ In(j, {"batch"})
    /\ Step(j, [jobs[j] EXCEPT !.phase = "broken", !.failed = TRUE])
    /\ UNCHANGED <<sourceVars, runs, uploads, queue, marks, envVars>>

\* complete_run, with the status the run's checkpoints give it
CompleteRun(j) ==
    /\ In(j, {"batch"})
    /\ LET status == IF JobRun(j).errs THEN "completed_with_errors"
                                       ELSE "completed"
       IN  /\ SetJobRun(j, [JobRun(j) EXCEPT
                 !.status = IF status = jobs[j].runSeen THEN @ ELSE status])
           /\ Step(j, [jobs[j] EXCEPT !.phase = "closing", !.runSeen = status])
    /\ UNCHANGED <<sourceVars, uploads, queue, marks, envVars>>

FinishJob(j) ==
    /\ In(j, {"closing"})
    /\ EndJob(j, IF jobs[j].failed THEN "error" ELSE "idle")
    /\ UNCHANGED runs

\* Mutation of FailJob: the source gets the run's word for failure
FailJobAsRun(j) ==
    /\ In(j, {"listing", "batch", "broken", "closing"})
    /\ EndJob(j, "failed")
    /\ UNCHANGED runs

(* Clone failure, Claude disabled, poll timeout or any other exception: the *)
(* source is left "error" and the run, if any, as the last commit left it.  *)
FailJob(j) ==
    /\ In(j, {"listing", "batch", "broken", "closing"})
    /\ EndJob(j, "error")
    /\ UNCHANGED runs

(* A failed flush has expired src as well: the handler itself raises when it *)
(* reads src.name for its log line, before it writes anything.               *)
AbandonJob(j) ==
    /\ In(j, {"listing", "batch", "broken", "closing"})
    /\ Step(j, NoJob)
    /\ UNCHANGED <<sourceVars, runs, uploads, queue, marks, envVars>>

\* arq cancels the job; CancelledError is no Exception, so nothing is written
TimeoutJob(j) ==
    /\ In(j, Phases)
    /\ jobs[j].age = JobTimeout
    /\ Step(j, NoJob)
    /\ UNCHANGED <<sourceVars, runs, uploads, queue, marks, envVars>>

\* The worker dies and restarts; max_tries = 1 keeps arq from rerunning jobs
CrashWorker ==
    /\ crashes < MaxCrashes
    /\ crashes' = crashes + 1
    /\ jobs' = [j \in Slots |-> NoJob]
    /\ UNCHANGED <<sourceVars, runs, uploads, queue, marks, requests>>

-----------------------------------------------------------------------------
(* The sweep, from the worker's cron and from the web process's startup:    *)
(* the reads of reset_stale_ingests, then its one commit.                   *)

\* Mutation of Doomed: a source that has no run is passed over
DoomedWithRun == {s \in Sources : /\ ingestStatus[s] = "ingesting"
                                  /\ HasRun(s) /\ IsRunStale(LatestRun(s))}

\* "ingesting", and the latest run stale or there is none
Doomed == {s \in Sources : /\ ingestStatus[s] = "ingesting"
                           /\ HasRun(s) => IsRunStale(LatestRun(s))}

SweepScan ==
    /\ marks = {}
    /\ Doomed # {}
    /\ marks' = {[src |-> s, run |-> Len(runs[s]),
                  close |-> HasRun(s) /\ LatestRun(s).status = "running"] :
                 s \in Doomed}
    /\ UNCHANGED <<sourceVars, runs, uploads, queue, jobs, envVars>>

\* Mutation of SweepCommit: it closes the run that is the latest by now
SweepCommitLatest ==
    /\ marks # {}
    /\ marks' = {}
    /\ ingestStatus' = [s \in Sources |->
          IF \E m \in marks : m.src = s THEN "error" ELSE ingestStatus[s]]
    /\ runs' = [s \in Sources |-> [k \in 1..Len(runs[s]) |->
          IF k = Len(runs[s]) /\ \E m \in marks : m.src = s /\ m.close
          THEN [runs[s][k] EXCEPT !.status = "completed_with_errors"]
          ELSE runs[s][k]]]
    /\ UNCHANGED <<active, uploads, queue, jobs, envVars>>

SweepCommit ==
    /\ marks # {}
    /\ marks' = {}
    /\ ingestStatus' = [s \in Sources |->
          IF \E m \in marks : m.src = s THEN "error" ELSE ingestStatus[s]]
    /\ runs' = [s \in Sources |-> [k \in 1..Len(runs[s]) |->
          IF [src |-> s, run |-> k, close |-> TRUE] \in marks
          THEN [runs[s][k] EXCEPT !.status = "completed_with_errors"]
          ELSE runs[s][k]]]
    /\ UNCHANGED <<active, uploads, queue, jobs, envVars>>

-----------------------------------------------------------------------------
\* Time passes, but no job outlives the timeout arq enforces
Tick ==
    /\ \A j \in Slots : In(j, Phases) => jobs[j].age < JobTimeout
    /\ jobs' = [j \in Slots |-> IF In(j, Phases)
                                THEN [jobs[j] EXCEPT !.age = @ + 1]
                                ELSE NoJob]
    /\ runs' = [s \in Sources |-> [k \in 1..Len(runs[s]) |->
          [runs[s][k] EXCEPT !.idle = IF @ < MaxIdle THEN @ + 1 ELSE @]]]
    /\ UNCHANGED <<sourceVars, uploads, queue, marks, envVars>>

Endpoint(s) ==
    \/ SetSourceStatus(s)
    \/ TriggerIngest(s)
    \/ ResumeIngest(s)
    \/ RetryErrors(s)
    \/ UploadStart(s)

JobStep(j) ==
    \/ RejectSource(j)
    \/ BeginIngest(j)
    \/ NothingToIngest(j)
    \/ OpenRun(j)
    \/ Heartbeat(j)
    \/ MarkFile(j)
    \/ LoseCheckpoint(j)
    \/ CompleteRun(j)
    \/ FinishJob(j)
    \/ FailJob(j)
    \/ AbandonJob(j)
    \/ TimeoutJob(j)

StartJob(j) == \E m \in Message : LoadJob(j, m) \/ DropResume(j, m)

Next ==
    \/ \E s \in Sources : Endpoint(s)
    \/ IngestAllSources
    \/ \E u \in uploads : UploadEnd(u)
    \/ \E j \in Slots : StartJob(j) \/ JobStep(j)
    \/ CrashWorker
    \/ SweepScan
    \/ SweepCommit
    \/ Tick

Spec == Init /\ [][Next]_vars

(* Fairness the scheduling gives: time passes, the cron runs the sweep every *)
(* five minutes, arq cancels a job that reaches its timeout.  A job itself   *)
(* is owed nothing: it may hang in a clone or an LLM call until it is         *)
(* cancelled.                                                                *)
Fairness ==
    /\ WF_vars(Tick)
    /\ WF_vars(SweepScan)
    /\ WF_vars(SweepCommit)
    /\ \A j \in Slots : WF_vars(TimeoutJob(j))

FairSpec == Spec /\ Fairness

-----------------------------------------------------------------------------
(* Properties *)

\* Job j is past clone and scoring: it holds a run
Working(j) == In(j, {"batch", "broken", "closing"})

\* A live job whose run the sweep could confuse with no other job's
Fresh(j) == Working(j) /\ ~jobs[j].resume

(* A run is never stale while the job that has made progress on it lives:    *)
(* recovery.is_run_stale cannot be true of it, because arq cancels the job   *)
(* before job_timeout + grace has passed since any of its heartbeats.        *)
LiveRunNotStale ==
    \A j \in Slots : Working(j) /\ jobs[j].beat => ~IsRunStale(JobRun(j))

(* What the sweep has decided to reset between its reads and its commit      *)
(* (reset_stale_ingests) never names the run of a live plain ingest.         *)
SweepSparesFreshRun ==
    \A m \in marks, j \in Slots :
        Fresh(j) /\ jobs[j].src = m.src => m.run # jobs[j].run

(* The sweep's commit leaves the run of every live plain ingest as it is,    *)
(* whatever crashed, was queued twice or was uploaded before.                *)
SweepKeepsFreshRuns ==
    [][SweepCommit => \A j \in Slots : Fresh(j) => JobRun(j)' = JobRun(j)]_vars

(* worker._sweep_stale: "the sweep cannot race a still-running job", so no   *)
(* source is taken from a job that has begun and is still running.           *)
SweepSparesLiveJob ==
    [][SweepCommit => \A j \in Slots : In(j, Phases \ {"starting"})
          => ingestStatus'[jobs[j].src] = ingestStatus[jobs[j].src]]_vars

(* ingest_job's handler rolls back first because "the session may be in a DB *)
(* error state from a failed flush": a job that an error ends, and nobody    *)
(* killed, does not leave its source "ingesting".                            *)
ErrorsAreRecorded ==
    [][\A j \in Slots : AbandonJob(j)
          => ingestStatus'[jobs[j].src] # "ingesting"]_vars

(* A source does not stay "ingesting" for ever, whatever its jobs do: each   *)
(* of them ends or is cancelled, and once no run of the source makes         *)
(* progress the sweep resets it.                                             *)
NoStuckIngesting ==
    \A s \in Sources :
        ingestStatus[s] = "ingesting" ~> ingestStatus[s] # "ingesting"

=============================================================================
