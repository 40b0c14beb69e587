----------------------------- MODULE BatchIngest -----------------------------
(***************************************************************************)
(* What an ingest does with files: the connector lists those that changed  *)
(* since last_commit_sha, the pipeline sends them to the Batches API (or,   *)
(* behind a proxy, one by one), stores each result's rules, checkpoints the *)
(* file on the run, and last_commit_sha moves when no error was reported.   *)
(* Crashes, poll timeouts, Resume and Retry may come between any two        *)
(* commits, and the repository may be pushed to at any time.                *)
(*                                                                         *)
(* Abstractions.  One source, one job at a time, request and start in one   *)
(* step (IngestJobs has the queue and the concurrent jobs).  A commit is    *)
(* its tree, the version of every file; version 0 is a file not added yet,  *)
(* and no file is deleted (the diff takes added and modified files only).   *)
(* Files are numbered in the order the walk of a clone yields them.  The    *)
(* rules of a file are kept as the contents they were extracted from: one   *)
(* when all were stored together, more after a store that left some out.  A *)
(* rule that is not extracted any more stays in the table and is not kept.  *)
(* Only the latest run is kept, because no code reads an older one.  That   *)
(* a run goes stale is a step of its own: IngestJobs shows that it does not *)
(* happen while its job makes progress.                                     *)
(***************************************************************************)
EXTENDS Integers, Sequences, FiniteSets

CONSTANTS
    NumFiles,     \* files 1..NumFiles
    Logic,        \* those with business logic (complexity above 0)
    Modes,        \* ways to process the files: "batch", "sequential" (proxy)
    Outcomes,     \* the result types the API and the LLM may give
    FetchFails,   \* the fetch of the last commit for the diff may fail
    PushAnytime,  \* pushes also come while there is something to resume
    ButtonOnly,   \* Resume is only requested with the page's button
    MaxPushes,    \* bound: pushes to the repository
    MaxJobs       \* bound: ingests, resumes and retries

Files == 1..NumFiles

ASSUME FilesAssumption == NumFiles \in Nat /\ Logic \subseteq Files
ASSUME OutcomesAssumption ==
    /\ Modes \subseteq {"batch", "sequential"}
    /\ Outcomes \subseteq {"succeeded", "garbled", "errored", "expired"}
ASSUME EnvironmentAssumption ==
    /\ {FetchFails, PushAnytime, ButtonOnly} \subseteq BOOLEAN
    /\ MaxPushes \in Nat /\ MaxJobs \in Nat

VARIABLES
    head,     \* the tree of the branch's HEAD
    sha,      \* last_commit_sha: the tree it names, NoTree if it is null
    stored,   \* stored[f]: the contents the rules under f were extracted from
    status,   \* the source's ingest_status
    run,      \* the latest ingest run of the source
    stale,    \* is_run_stale(run)
    job,      \* what the running job holds in memory
    batches,  \* the batches submitted to the API
    pushes,   \* pushes so far
    started   \* jobs so far

envVars == <<head, pushes>>
vars == <<head, sha, stored, status, run, stale, job, batches, pushes, started>>

-----------------------------------------------------------------------------
(* State *)

Versions == 0..MaxPushes + 1

Trees  == [Files -> Versions]
NoTree == [f \in Files |-> 0]

Content   == [file : Files, version : Versions]
NoContent == [file |-> 0, version |-> 0]  \* of rules that were never stored

\* An entry of requests_map; its id is the file's place in the listing
Request == [id : Files, file : Files, version : Versions]

Statuses    == {"idle", "ingesting", "error"}
RunStatuses == {"none", "running", "completed", "completed_with_errors"}
Incomplete  == {"running", "completed_with_errors"}
Checkpoints == {"none", "pending", "done", "error"}

(* cps: a file's checkpoint, "none" if it has no row.  batch: batch_id, 0 if *)
(* null.  ended: batch_status is "ended".  done, errored: the tallies.       *)
Run == [status : RunStatuses, cps : [Files -> Checkpoints],
        batch : 0..MaxJobs, ended : BOOLEAN,
        done : 0..NumFiles, errored : 0..NumFiles]

NewRun == [status |-> "running", cps |-> [f \in Files |-> "none"],
           batch |-> 0, ended |-> FALSE, done |-> 0, errored |-> 0]

NoRun == [NewRun EXCEPT !.status = "none"]

Phases == {"none", "listing", "open", "created", "polling", "stream",
           "sequential", "broken", "closing"}

(* tree: the clone's HEAD.  todo: what is left of requests_map.  failed:     *)
(* summary["errors"] is not empty.                                           *)
Job == [phase : Phases, resume : BOOLEAN, tree : Trees, todo : SUBSET Request,
        batch : 0..MaxJobs, failed : BOOLEAN]

NoJob == [phase |-> "none", resume |-> FALSE, tree |-> NoTree, todo |-> {},
          batch |-> 0, failed |-> FALSE]

Batch == [reqs : SUBSET Request, ended : BOOLEAN]

TypeOK ==
    /\ head \in Trees
    /\ sha \in Trees
    /\ stored \in [Files -> SUBSET (Content \union {NoContent})]
    /\ status \in Statuses
    /\ run \in Run
    /\ stale \in BOOLEAN
    /\ job \in Job
    /\ batches \in Seq(Batch)
    /\ Len(batches) <= started
    /\ pushes \in 0..MaxPushes
    /\ started \in 0..MaxJobs

Init ==
    /\ head \in [Files -> {0, 1}]
    /\ sha = NoTree
    /\ stored = [f \in Files |-> {NoContent}]
    /\ status = "idle"
    /\ run = NoRun
    /\ stale = FALSE
    /\ job = NoJob
    /\ batches = <<>>
    /\ pushes = 0
    /\ started = 0

-----------------------------------------------------------------------------
(* What the run's checkpoints say *)

With(cp) == {f \in Files : run.cps[f] = cp}

DoneFiles == With("done")

\* is_run_resumable
Resumable ==
    /\ run.status # "none"
    /\ run.status \in Incomplete \/ status \in {"error", "ingesting"}

\* can_resume: resumable, and fewer files done than have a checkpoint
CanResume == Resumable /\ With("pending") \union With("error") # {}

\* What POST /resume accepts
ResumeAccepted == status # "ingesting" /\ Resumable

\* When the page enables its Resume button
ButtonEnabled == CanResume /\ (status # "ingesting" \/ stale)

-----------------------------------------------------------------------------
(* The repository and the Batches API *)

Push(f) ==
    /\ pushes < MaxPushes
    /\ PushAnytime \/ (job = NoJob /\ ~CanResume)
    /\ pushes' = pushes + 1
    /\ head' = [head EXCEPT ![f] = @ + 1]
    /\ UNCHANGED <<sha, stored, status, run, stale, job, batches, started>>

EndBatch(b) ==
    /\ ~batches[b].ended
    /\ batches' = [batches EXCEPT ![b].ended = TRUE]
    /\ UNCHANGED <<envVars, sha, stored, status, run, stale, job, started>>

-----------------------------------------------------------------------------
(* Starting a job: the endpoint's checks, then the job's first commit *)

Start(resume) ==
    /\ started < MaxJobs
    /\ job = NoJob
    /\ started' = started + 1
    /\ status' = "ingesting"
    /\ job' = [NoJob EXCEPT !.phase = "listing", !.resume = resume]

TriggerIngest ==
    /\ status # "ingesting"
    /\ Start(FALSE)
    /\ UNCHANGED <<envVars, sha, stored, run, stale, batches>>

ResumeIngest ==
    /\ ResumeAccepted
    /\ ButtonOnly => ButtonEnabled
    /\ Start(TRUE)
    /\ UNCHANGED <<envVars, sha, stored, run, stale, batches>>

RetryErrors ==
    /\ status # "ingesting"
    /\ With("error") # {}
    /\ Start(TRUE)
    /\ run' = [run EXCEPT !.status = "running",
                          !.cps = [f \in Files |-> IF @[f] = "error"
                                                   THEN "pending" ELSE @[f]]]
    /\ UNCHANGED <<envVars, sha, stored, stale, batches>>

-----------------------------------------------------------------------------
(* Listing *)

\* What differs between the last ingested commit and HEAD
Changed == {f \in Files : sha[f] # head[f]}

\* Mutation of Collect: a resume lists the files it is done with
CollectDone(paths) == {f \in paths : head[f] > 0}

\* Mutation of Collect: a resume also skips the files that failed
CollectUntried(paths) ==
    {f \in paths : head[f] > 0}
        \ (IF job.resume THEN DoneFiles \union With("error") ELSE {})

\* Files of the clone the listing keeps; paths are those git says changed
Collect(paths) ==
    {f \in paths : head[f] > 0} \ (IF job.resume THEN DoneFiles ELSE {})

(* All files, without a last commit or when its fetch failed; otherwise the  *)
(* changed ones, and none when HEAD has not moved.                           *)
Listings ==
    IF sha = NoTree THEN {Collect(Files)}
    ELSE IF sha = head THEN {{}}
    ELSE {Collect(Changed)} \union
         (IF FetchFails THEN {Collect(Files)} ELSE {})

\* enumerate(files), less those that score 0
Place(listed, f) == Cardinality({g \in listed : g <= f})

RequestsFor(listed) ==
    {[id |-> Place(listed, f), file |-> f, version |-> head[f]] :
        f \in listed \cap Logic}

\* No file to process: sha moves to HEAD and no run is opened or closed
NothingToIngest ==
    /\ job.phase = "listing"
    /\ \E listed \in Listings : RequestsFor(listed) = {}
    /\ sha' = head
    /\ status' = "idle"
    /\ job' = NoJob
    /\ UNCHANGED <<envVars, stored, run, stale, batches, started>>

\* A plain ingest opens a run, a resume goes on with the latest
OpenRun ==
    /\ job.phase = "listing"
    /\ \E listed \in Listings :
          /\ RequestsFor(listed) # {}
          /\ job' = [job EXCEPT !.phase = "open", !.tree = head,
                                !.todo = RequestsFor(listed)]
    /\ IF job.resume THEN UNCHANGED <<run, stale>>
                     ELSE run' = NewRun /\ stale' = FALSE
    /\ UNCHANGED <<envVars, sha, stored, status, batches, started>>

-----------------------------------------------------------------------------
(* Submitting and polling *)

ReattachBatch ==
    /\ job.phase = "open"
    /\ "batch" \in Modes
    /\ job.resume /\ run.batch # 0 /\ ~run.ended
    /\ LET ended == batches[run.batch].ended
       IN  /\ run' = [run EXCEPT !.ended = ended]
           /\ job' = [job EXCEPT !.batch = run.batch,
                                 !.phase = IF ended THEN "stream"
                                                    ELSE "polling"]
    /\ UNCHANGED <<envVars, sha, stored, status, stale, batches, started>>

(* No batch to go back to, or its retrieval failed.  Until RecordBatch the   *)
(* id is in memory only.                                                     *)
CreateBatch ==
    /\ job.phase = "open"
    /\ "batch" \in Modes
    /\ batches' = Append(batches, [reqs |-> job.todo, ended |-> FALSE])
    /\ job' = [job EXCEPT !.phase = "created", !.batch = Len(batches) + 1]
    /\ UNCHANGED <<envVars, sha, stored, status, run, stale, started>>

RecordBatch ==
    /\ job.phase = "created"
    /\ run' = [run EXCEPT !.batch = job.batch, !.ended = FALSE]
    /\ job' = [job EXCEPT !.phase = "polling"]
    /\ UNCHANGED <<envVars, sha, stored, status, stale, batches, started>>

\* One turn of the poll loop: record the batch's status, with a heartbeat
Poll ==
    /\ job.phase = "polling"
    /\ run' = [run EXCEPT !.ended = batches[job.batch].ended]
    /\ stale' = FALSE
    /\ job' = [job EXCEPT !.phase = IF batches[job.batch].ended
                                    THEN "stream" ELSE @]
    /\ UNCHANGED <<envVars, sha, stored, status, batches, started>>

\* A proxy is configured: files one by one
GoSequential ==
    /\ job.phase = "open"
    /\ "sequential" \in Modes
    /\ job' = [job EXCEPT !.phase = "sequential"]
    /\ UNCHANGED <<envVars, sha, stored, status, run, stale, batches, started>>

-----------------------------------------------------------------------------
(* Results, one commit per file.  The API returns a batch's results in any   *)
(* order, each under the id of its request; an id that is not in             *)
(* requests_map is skipped.  A batch is streamed by one job only, so its     *)
(* result types are chosen as they are read.                                 *)

\* <<t, q>>: the file to attribute a result to, the request it answers
Results ==
    IF job.phase = "stream"
    THEN {r \in job.todo \X batches[job.batch].reqs : r[1].id = r[2].id}
    ELSE IF job.phase = "sequential"
    THEN {r \in job.todo \X job.todo :
             r[1] = r[2] /\ \A u \in job.todo : r[1].id <= u.id}
    ELSE {}

\* The result for t is dealt with, and its checkpoint is cp
Mark(t, cp, failed) ==
    /\ run' = [run EXCEPT !.cps[t.file] = cp]
    /\ stale' = FALSE
    /\ job' = [job EXCEPT !.todo = @ \ {t}, !.failed = @ \/ failed]
    /\ UNCHANGED <<envVars, sha, status, batches, started>>

\* What the request q sent to be read
Sent(q) == [file |-> q.file, version |-> q.version]

StoreFile(t, q) ==
    /\ "succeeded" \in Outcomes
    /\ stored' = [stored EXCEPT ![t.file] = {Sent(q)}]
    /\ Mark(t, "done", FALSE)

\* Mutation of StorePart: done although some of its rules were not stored
StorePartAsDone(t, q) ==
    /\ "errored" \in Outcomes
    /\ stored' = [stored EXCEPT ![t.file] = @ \union {Sent(q)}]
    /\ Mark(t, "done", TRUE)

(* store_rule raised for some of the rules and left the transaction usable:  *)
(* the loop goes on, and the file's other rules are committed with its       *)
(* "error" checkpoint.                                                       *)
StorePart(t, q) ==
    /\ "errored" \in Outcomes
    /\ stored' = [stored EXCEPT ![t.file] = @ \union {Sent(q)}]
    /\ Mark(t, "error", TRUE)

\* A text that is no JSON is parsed as no rules, which all persist
StoreNoRules(t) ==
    /\ "garbled" \in Outcomes
    /\ Mark(t, "done", FALSE)
    /\ UNCHANGED stored

\* An API error, an exception, or a file none of whose rules could be stored
FailFile(t) ==
    /\ "errored" \in Outcomes
    /\ Mark(t, "error", TRUE)
    /\ UNCHANGED stored

\* Neither succeeded nor errored: checkpointed, not reported; batches only
ExpireFile(t) ==
    /\ "expired" \in Outcomes
    /\ job.phase = "stream"
    /\ Mark(t, "error", FALSE)
    /\ UNCHANGED stored

(* A statement of the file's transaction failed.  The rollback expires the   *)
(* session's objects, and run.id then raises when it is read: neither this   *)
(* file nor a later one of the pass gets its checkpoint.                     *)
LoseCheckpoint ==
    /\ "errored" \in Outcomes
    /\ Results # {}
    /\ job' = [job EXCEPT !.phase = "broken", !.todo = {}]
    /\ UNCHANGED <<envVars, sha, stored, status, run, stale, batches, started>>

\* Mutation of CompleteRun: the tallies of the passes are added up
CompleteRunAdding ==
    /\ job.phase \in {"stream", "sequential"}
    /\ Results = {}
    /\ run' = [run EXCEPT
                  !.status = IF With("error") = {} THEN "completed"
                                                   ELSE "completed_with_errors",
                  !.done = @ + Cardinality(DoneFiles),
                  !.errored = @ + Cardinality(With("error"))]
    /\ job' = [job EXCEPT !.phase = "closing"]
    /\ UNCHANGED <<envVars, sha, stored, status, stale, batches, started>>

\* Mutation of CompleteRun: only a first pass writes the tallies
CompleteRunOnce ==
    /\ job.phase \in {"stream", "sequential"}
    /\ Results = {}
    /\ run' = [run EXCEPT
                  !.status = IF With("error") = {} THEN "completed"
                                                   ELSE "completed_with_errors",
                  !.done = IF job.resume THEN @ ELSE Cardinality(DoneFiles),
                  !.errored = IF job.resume THEN @
                                            ELSE Cardinality(With("error"))]
    /\ job' = [job EXCEPT !.phase = "closing"]
    /\ UNCHANGED <<envVars, sha, stored, status, stale, batches, started>>

CompleteRun ==
    /\ job.phase \in {"stream", "sequential"}
    /\ Results = {}
    /\ run' = [run EXCEPT
                  !.status = IF With("error") = {} THEN "completed"
                                                   ELSE "completed_with_errors",
                  !.done = Cardinality(DoneFiles),
                  !.errored = Cardinality(With("error"))]
    /\ job' = [job EXCEPT !.phase = "closing"]
    /\ UNCHANGED <<envVars, sha, stored, status, stale, batches, started>>

\* Mutation of FinishJob: sha moves although files failed
FinishJobAnyway ==
    /\ job.phase = "closing"
    /\ status' = IF job.failed THEN "error" ELSE "idle"
    /\ sha' = job.tree
    /\ job' = NoJob
    /\ UNCHANGED <<envVars, stored, run, stale, batches, started>>

FinishJob ==
    /\ job.phase = "closing"
    /\ IF job.failed THEN status' = "error" /\ UNCHANGED sha
                     ELSE status' = "idle" /\ sha' = job.tree
    /\ job' = NoJob
    /\ UNCHANGED <<envVars, stored, run, stale, batches, started>>

-----------------------------------------------------------------------------
(* What ends a job early *)

\* Clone failed, Claude disabled, poll budget spent, any other exception
FailJob ==
    /\ job # NoJob
    /\ status' = "error"
    /\ job' = NoJob
    /\ UNCHANGED <<envVars, sha, stored, run, stale, batches, started>>

\* The worker dies, arq cancels the job, or a failed flush breaks the handler
Crash ==
    /\ job # NoJob
    /\ job' = NoJob
    /\ UNCHANGED <<envVars, sha, stored, status, run, stale, batches, started>>

GoStale ==
    /\ job = NoJob /\ run # NoRun /\ ~stale
    /\ stale' = TRUE
    /\ UNCHANGED <<envVars, sha, stored, status, run, job, batches, started>>

Sweep ==
    /\ job = NoJob
    /\ status = "ingesting"
    /\ run # NoRun => stale
    /\ status' = "error"
    /\ run' = [run EXCEPT !.status = IF @ = "running"
                                     THEN "completed_with_errors" ELSE @]
    /\ UNCHANGED <<envVars, sha, stored, stale, job, batches, started>>

-----------------------------------------------------------------------------
Result(t, q) ==
    \/ StoreFile(t, q)
    \/ StorePart(t, q)
    \/ StoreNoRules(t)
    \/ FailFile(t)
    \/ ExpireFile(t)

Next ==
    \/ \E f \in Files : Push(f)
    \/ \E b \in DOMAIN batches : EndBatch(b)
    \/ TriggerIngest
    \/ ResumeIngest
    \/ RetryErrors
    \/ NothingToIngest
    \/ OpenRun
    \/ ReattachBatch
    \/ CreateBatch
    \/ RecordBatch
    \/ Poll
    \/ GoSequential
    \/ \E r \in Results : Result(r[1], r[2])
    \/ LoseCheckpoint
    \/ CompleteRun
    \/ FinishJob
    \/ FailJob
    \/ Crash
    \/ GoStale
    \/ Sweep

Spec == Init /\ [][Next]_vars

-----------------------------------------------------------------------------
(* Properties *)

(* A file checkpointed "done" stays done for as long as its run is the       *)
(* latest: no resume, retry, re-attached batch or late result of the run     *)
(* processes it again (get_done_files, skip_paths, mark_file_checkpoint).    *)
DoneIsFinal ==
    [][run' # NewRun =>
         \A f \in Files : run.cps[f] = "done" => run'.cps[f] = "done"]_vars

(* Rules stored in full are never taken back: once all of a file's rules are *)
(* of some version or newer ones, no store, in full or in part, brings in a  *)
(* rule of an older version, although a resume may re-attach to a batch of   *)
(* an older commit.  (Only a file that was stored in part, and so is not     *)
(* done, may see the new rules it has got replaced by such a batch's.)       *)
RulesNeverGoBack ==
    [][\A f \in Files : \A c \in stored'[f] :
         c.file = f => \E d \in stored[f] : d.file = f => d.version <= c.version]_vars

\* All rules of f were stored, from its version v
StoredAt(f, v) == stored[f] = {[file |-> f, version |-> v]}

(* What the incremental diff leaves out is up to date: the rules of every   *)
(* file that is the same in last_commit_sha and HEAD were all extracted from *)
(* that version.  This is what lets run_ingest_impl advance last_commit_sha. *)
ShaVouches ==
    sha # NoTree => \A f \in Logic \ Changed : head[f] > 0 => StoredAt(f, head[f])

(* ingest_job: "the failed files must remain inside the incremental diff     *)
(* window so a later plain re-trigger still re-lists them", unless an        *)
(* earlier ingest has all rules of that very version.                        *)
FailedStayInWindow ==
    job = NoJob =>
        {f \in With("error") : ~StoredAt(f, head[f])} \subseteq Changed

(* batch_pipeline: a file is checkpointed "done" only when the file's rules  *)
(* actually persisted, all of them, and its own and not another file's.      *)
DoneMeansStored ==
    \A f \in DoneFiles : \E v \in Versions : StoredAt(f, v)

(* count_checkpoint_tallies: a run that completed, over any number of        *)
(* attempts, counts every file done on it, has no error left, and the rules  *)
(* of its files are those of the commit the source says it ingested.         *)
TalliesAreTotals ==
    status = "idle" /\ run.status = "completed"
        => /\ run.done = Cardinality(DoneFiles)
           /\ run.errored = 0 /\ With("error") = {}
           /\ \A f \in Files : run.cps[f] # "none" => StoredAt(f, sha[f])

(* Incremental ingestion keeps its promise: seen through HEAD, sha and the   *)
(* stored rules alone, every step is a push, a file processed at HEAD's      *)
(* version, in full or in part, or sha moving to HEAD when all of its files'  *)
(* rules are stored.                                                         *)
Sync == INSTANCE IncrementalSync WITH MaxVersion <- MaxPushes + 1

KeepsInSync == Sync!Spec

=============================================================================
