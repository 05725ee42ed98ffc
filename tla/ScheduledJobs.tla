---------------------------- MODULE ScheduledJobs ----------------------------
(***************************************************************************)
(* The scheduled jobs of one session: the job file in its artifact         *)
(* directory (core/cron-jobs.ts), the scheduler of the worker that hosts   *)
(* the session, the supervisor that edits the file and wakes a worker when *)
(* no worker hosts the session, and the workers that follow each other.    *)
(* Two processes share the file while a worker that has given the session  *)
(* up is still finishing its last dispatch.                                *)
(***************************************************************************)
EXTENDS Naturals, Sequences, FiniteSets, FiniteSetsExt, SequencesExt

CONSTANTS
  Jobs,        \* job ids
  Once,        \* the one-shot jobs among them, the others repeat
  Period,      \* interval of a repeating job
  MaxTime,     \* bound: the clock stops here
  MaxWorkers,  \* bound: worker processes, one after the other
  MaxEdits,    \* bound: schedule commands
  MaxUpdates   \* bound: update restarts that are prepared

ASSUME JobsAssumption ==
  /\ IsFiniteSet(Jobs) /\ Once \subseteq Jobs
  /\ Period \in Nat \ {0}
  /\ MaxTime \in Nat /\ MaxWorkers \in Nat \ {0} /\ MaxEdits \in Nat /\ MaxUpdates \in Nat

Workers    == 1..MaxWorkers
Supervisor == 0                       \* as the author of an edit
Never      == MaxTime + Period + 1    \* no nextRunAt, no timer
Times      == 0..Never
Absent     == [status |-> "absent", next |-> Never, stamp |-> 0]
NoEdit     == [by |-> MaxWorkers + 1]

VARIABLES
  now,
  (* scheduled-jobs.json *)
  jobs,       \* status, nextRunAt and updatedAt of each job
  claims,     \* the dispatch records
  (* the workers *)
  worker,     \* life of each worker process
  timer,      \* when its scheduler looks for due jobs
  lane,       \* its claimed dispatches, the first one in progress
  call,       \* how far runJob is with the first one
  (* the supervisor *)
  owner,      \* the worker registered for the session, 0 for none
  parked,     \* that registration is failed: its process is gone
  wake,       \* the scheduled wake timer
  recompute,  \* a recomputation of the wake timer is due
  updating,   \* updateRestartPhase is set
  (* an edit between its read of the file and its write *)
  edit,
  (* bookkeeping *)
  used,       \* edits and updates so far
  forgotten,  \* the registration was dropped and nothing recomputed the wake
  runs        \* how often each tick of a job was delivered to the session

fileVars       == <<jobs, claims>>
workerVars     == <<worker, timer, lane, call>>
supervisorVars == <<owner, parked, wake, recompute, updating, forgotten>>
vars == <<now, fileVars, workerVars, supervisorVars, edit, used, runs>>

JobRecords == [status : {"absent", "active", "paused", "cancelled", "completed"},
               next : Times, stamp : 0..MaxTime]
Dispatches == [job : Jobs, tick : Times, by : Workers]

TypeOK ==
  /\ now \in 0..MaxTime
  /\ jobs \in [Jobs -> JobRecords]
  /\ claims \subseteq Dispatches
  /\ worker \in [Workers -> {"unborn", "live", "held", "stopping", "released", "dead"}]
  /\ timer \in [Workers -> Times]
  /\ \A i \in Workers : lane[i] \in Seq(Dispatches)
  /\ call \in [Workers -> {"idle", "opening", "ran", "skipped"}]
  /\ owner \in 0..MaxWorkers
  /\ parked \in BOOLEAN /\ recompute \in BOOLEAN /\ updating \in BOOLEAN
  /\ wake \in Times
  /\ forgotten \in BOOLEAN
  /\ edit # NoEdit => /\ edit.by \in 0..MaxWorkers /\ edit.read \in [Jobs -> JobRecords]
                      /\ edit.job \in Jobs /\ edit.new \in JobRecords
  /\ used.edits \in 0..MaxEdits /\ used.updates \in 0..MaxUpdates
  /\ runs \in [Jobs -> [Times -> 0..2]]

Init ==
  /\ now = 0
  /\ jobs = [j \in Jobs |-> Absent] /\ claims = {}
  /\ worker = [i \in Workers |-> IF i = 1 THEN "live" ELSE "unborn"]
  /\ timer = [i \in Workers |-> Never]
  /\ lane = [i \in Workers |-> <<>>]
  /\ call = [i \in Workers |-> "idle"]
  /\ owner = 1 /\ parked = FALSE
  /\ wake = Never /\ recompute = FALSE /\ updating = FALSE
  /\ edit = NoEdit
  /\ used = [edits |-> 0, updates |-> 0]
  /\ forgotten = FALSE
  /\ runs = [j \in Jobs |-> [t \in Times |-> 0]]

-------------------------------------------------------------------------------
(* The job file *)

\* Mutant: the next tick is counted from the end of the interval.
NextRunTwice(j, after) == IF j \in Once THEN Never ELSE after + 2 * Period

\* nextRunAtForSchedule
NextRun(j, after) == IF j \in Once THEN Never ELSE after + Period

Claimed(j)  == \E d \in claims : d.job = j
IsDue(j)    == jobs[j].status = "active" /\ jobs[j].next <= now

\* getRunnableCronJob: the claim is still there, or the job is due again.
Runnable(j) == jobs[j].status = "active" /\ (Claimed(j) \/ IsDue(j))

\* nextActiveRunAt
Earliest(file) == Min({file[j].next : j \in {k \in Jobs : file[k].status = "active"}} \cup {Never})

\* Mutant: the schedule is advanced when the dispatch is recorded, not when it is claimed.
AdvancedLater == jobs

\* claimDueInState: every due job is advanced, and claimed unless it still is.
Advanced == [j \in Jobs |-> IF IsDue(j)
                            THEN [jobs[j] EXCEPT !.next = NextRun(j, now), !.stamp = now]
                            ELSE jobs[j]]

\* Mutant: a missed tick of a job that is still claimed is claimed as well.
NewClaimsAgain(i) ==
  {[job |-> j, tick |-> jobs[j].next, by |-> i] : j \in {k \in Jobs : IsDue(k)}}

NewClaims(i) == {[job |-> j, tick |-> jobs[j].next, by |-> i] :
                   j \in {k \in Jobs : IsDue(k) /\ ~Claimed(k)}}

\* The end of a one-shot job, whatever became of its dispatch.
Finished(j) == IF j \in Once THEN "completed" ELSE jobs[j].status

\* Mutant: the result is recorded without another look at the status.
RecordedBlind(d, outcome) ==
  [jobs EXCEPT ![d.job] =
     IF d \notin claims THEN @
     ELSE [status |-> IF d.job \in Once THEN "completed" ELSE "active", stamp |-> now,
           next |-> IF outcome = "skipped" THEN NextRun(d.job, now) ELSE @.next]]

\* recordDispatchResult: nothing when another process has recovered the claim, and
\* the job is left alone when it was paused or cancelled meanwhile.
Recorded(d, outcome) ==
  [jobs EXCEPT ![d.job] =
     IF d \notin claims \/ @.status # "active" THEN @
     ELSE [status |-> Finished(d.job), stamp |-> now,
           next |-> IF outcome = "skipped" THEN NextRun(d.job, now) ELSE @.next]]

\* Mutant: recovery drops the claims and leaves the jobs.
RecoveredClaimsOnly == jobs

\* recoverInterruptedInState over all dispatches: the schedule stays advanced.
Recovered ==
  [j \in Jobs |-> IF Claimed(j) /\ jobs[j].status = "active"
                  THEN [jobs[j] EXCEPT !.status = Finished(j), !.stamp = now]
                  ELSE jobs[j]]

\* mergeFreshJobs: a job that was read before stays unless the file has a newer one.
Merged(current, incoming) ==
  [j \in Jobs |->
     IF /\ incoming[j].status # "absent"
        /\ current[j].status = "absent" \/ incoming[j].stamp >= current[j].stamp
     THEN incoming[j] ELSE current[j]]
-------------------------------------------------------------------------------
(* Schedule commands: the store reads the file without the lock, and merges what *)
(* it read under the lock.  A process does nothing else in between.              *)

Free(by) == edit.by # by

\* create, cancel and the pause and resume of manageHeartbeat, which refuse the
\* jobs they cannot apply to.
Changes(j) ==
  LET job == jobs[j] IN
  (IF job.status = "absent"
     THEN {[status |-> "active", next |-> now + (IF j \in Once THEN 1 ELSE Period), stamp |-> now]}
     ELSE {}) \cup
  (IF job.status \in {"active", "paused", "completed"}
     THEN {[status |-> "cancelled", next |-> Never, stamp |-> now]}
     ELSE {}) \cup
  (IF job.status \in {"active", "paused"} /\ j \notin Once
     THEN {[status |-> "paused", next |-> Never, stamp |-> now],
           [status |-> "active", next |-> NextRun(j, now), stamp |-> now]}
     ELSE {})

ReadForEdit(by, j, new) ==
  /\ edit = NoEdit /\ used.edits < MaxEdits
  /\ new \in Changes(j)
  /\ edit' = [by |-> by, job |-> j, new |-> new, read |-> jobs]
  /\ used' = [used EXCEPT !.edits = @ + 1]
  /\ UNCHANGED <<now, fileVars, workerVars, supervisorVars, runs>>

\* The worker serves the commands of its session.
WorkerEdit(i, j, new) ==
  /\ owner = i /\ worker[i] \in {"live", "held"}
  /\ ReadForEdit(i, j, new)

\* The supervisor edits the file itself when no worker is registered.
PassiveEdit(j, new) ==
  /\ owner = 0 /\ ~updating
  /\ jobs[j].status # "absent"
  /\ ReadForEdit(Supervisor, j, new)

\* writeJobs; a worker then wakes its scheduler, the supervisor recomputes its wake.
WriteEdit ==
  /\ edit # NoEdit
  /\ jobs' = Merged(jobs, [edit.read EXCEPT ![edit.job] = edit.new])
  /\ edit' = NoEdit
  /\ IF edit.by = Supervisor
     THEN recompute' = TRUE /\ UNCHANGED timer
     ELSE /\ timer' = IF worker[edit.by] = "live" THEN [timer EXCEPT ![edit.by] = now] ELSE timer
          /\ UNCHANGED recompute
  /\ UNCHANGED <<now, claims, worker, lane, call, owner, parked, wake, updating, forgotten, used, runs>>
-------------------------------------------------------------------------------
(* The scheduler of a worker *)

\* runDue: claim, queue, and arm the timer for the next job.
RunDue(i) ==
  /\ worker[i] = "live" /\ Free(i)
  /\ timer[i] <= now
  /\ jobs' = Advanced
  /\ claims' = claims \cup NewClaims(i)
  /\ lane' = [lane EXCEPT ![i] = @ \o SetToSeq(NewClaims(i))]
  /\ timer' = [timer EXCEPT ![i] = Earliest(jobs')]
  /\ UNCHANGED <<now, worker, call, supervisorVars, edit, used, runs>>

\* queueDispatch reaches a dispatch: getClaimedJob and the first look of runCronJob.
Begin(i) ==
  /\ worker[i] \notin {"unborn", "dead"} /\ Free(i)
  /\ call[i] = "idle" /\ lane[i] # <<>>
  /\ LET j == Head(lane[i]).job IN
     call' = [call EXCEPT ![i] = IF Claimed(j) /\ Runnable(j) THEN "opening" ELSE "skipped"]
  /\ UNCHANGED <<now, fileVars, worker, timer, lane, supervisorVars, edit, used, runs>>

\* runCronJob once the session is open: the prompt is handed over if the job may
\* still run and the session is not closing.
Deliver(i) ==
  /\ worker[i] \in {"live", "held", "stopping"} /\ Free(i)
  /\ call[i] = "opening"
  /\ Runnable(Head(lane[i]).job)
  /\ call' = [call EXCEPT ![i] = "ran"]
  /\ runs' = [runs EXCEPT ![Head(lane[i]).job][Head(lane[i]).tick] = IF @ = 2 THEN 2 ELSE @ + 1]
  /\ UNCHANGED <<now, fileVars, worker, timer, lane, supervisorVars, edit, used>>

\* A busy session, one that is closed, a job that may not run any more; or an error.
Decline(i) ==
  /\ worker[i] \notin {"unborn", "dead"} /\ Free(i)
  /\ call[i] = "opening"
  /\ \E outcome \in {"skipped", "ran"} : call' = [call EXCEPT ![i] = outcome]
  /\ UNCHANGED <<now, fileVars, worker, timer, lane, supervisorVars, edit, used, runs>>

Record(i) ==
  /\ worker[i] \notin {"unborn", "dead"} /\ Free(i)
  /\ call[i] \in {"ran", "skipped"}
  /\ jobs' = Recorded(Head(lane[i]), call[i])
  /\ claims' = claims \ {Head(lane[i])}
  /\ lane' = [lane EXCEPT ![i] = Tail(@)]
  /\ call' = [call EXCEPT ![i] = "idle"]
  /\ UNCHANGED <<now, worker, timer, supervisorVars, edit, used, runs>>
-------------------------------------------------------------------------------
(* Workers come and go *)

\* The worker opens the session, which needs its lease, recovers the claims of a
\* worker before it, and wakes its scheduler.
Launch(i) ==
  /\ worker[i] = "unborn" /\ (i > 1 => worker[i - 1] \in {"released", "dead"})
  /\ Free(Supervisor)
  /\ jobs' = Recovered /\ claims' = {}
  /\ worker' = [worker EXCEPT ![i] = "live"]
  /\ timer' = [timer EXCEPT ![i] = now]
  /\ owner' = i /\ parked' = FALSE /\ forgotten' = FALSE
  /\ recompute' = TRUE
  /\ UNCHANGED <<now, lane, call, updating, edit, used, runs>>

\* A client opens the session; only this replaces a failed registration.
Open(i) ==
  /\ owner = 0 \/ parked
  /\ ~updating
  /\ Launch(i)
  /\ UNCHANGED wake

\* wakeDueScheduledSessions
Wake(i) ==
  /\ wake <= now /\ ~updating
  /\ owner = 0 /\ \E j \in Jobs : IsDue(j)
  /\ Launch(i)
  /\ wake' = Never

\* The wake timer fires while it is disarmed, or for nothing.
WakeInVain ==
  /\ wake <= now
  /\ updating \/ owner # 0 \/ \A j \in Jobs : ~IsDue(j)
  /\ wake' = Never
  /\ recompute' = (recompute \/ ~updating)
  /\ UNCHANGED <<now, fileVars, workerVars, owner, parked, updating, forgotten, edit, used, runs>>

\* recomputeScheduledSessionWake: registered sessions are left to their worker.
Recompute ==
  /\ recompute /\ Free(Supervisor)
  /\ recompute' = FALSE
  /\ wake' = IF updating THEN wake ELSE IF owner = 0 THEN Earliest(jobs) ELSE Never
  /\ forgotten' = (forgotten /\ updating)
  /\ UNCHANGED <<now, fileVars, workerVars, owner, parked, updating, edit, used, runs>>

\* shutdown of the worker: its scheduler stops first.
Stop(i) ==
  /\ worker[i] \in {"live", "held"} /\ Free(i)
  /\ i < MaxWorkers
  /\ worker' = [worker EXCEPT ![i] = "stopping"]
  /\ timer' = [timer EXCEPT ![i] = Never]
  /\ UNCHANGED <<now, fileVars, lane, call, supervisorVars, edit, used, runs>>

\* The session is closed and its lease free.  When the worker stops by itself, the
\* supervisor drops the registration on the closing event of the root session.
\* Assumption: closing takes longer than the millisecond that updatedAt resolves,
\* so a claim of the worker is older than what another process then writes.
Release(i) ==
  /\ worker[i] = "stopping"
  /\ \A d \in claims : jobs[d.job].stamp < now
  /\ worker' = [worker EXCEPT ![i] = "released"]
  /\ \/ UNCHANGED supervisorVars
     \/ /\ owner' = 0 /\ forgotten' = TRUE
        /\ UNCHANGED <<parked, wake, recompute, updating>>
  /\ UNCHANGED <<now, fileVars, timer, lane, call, edit, used, runs>>

\* Mutant: a stop ends without a look at the jobs that nobody schedules any more.
ExitUnseen(i) ==
  /\ worker[i] = "released"
  /\ worker' = [worker EXCEPT ![i] = "dead"]
  /\ lane' = [lane EXCEPT ![i] = <<>>] /\ call' = [call EXCEPT ![i] = "idle"]
  /\ IF owner = i
     THEN owner' = 0 /\ updating' = FALSE
     ELSE UNCHANGED <<owner, updating>>
  /\ UNCHANGED <<now, fileVars, timer, parked, wake, recompute, forgotten, edit, used, runs>>

\* The process is gone.  A stop that the supervisor asked for ends here.
Exit(i) ==
  /\ worker[i] = "released"
  /\ worker' = [worker EXCEPT ![i] = "dead"]
  /\ lane' = [lane EXCEPT ![i] = <<>>] /\ call' = [call EXCEPT ![i] = "idle"]
  /\ IF owner = i
     THEN owner' = 0 /\ updating' = FALSE /\ recompute' = TRUE
     ELSE UNCHANGED <<owner, updating, recompute>>
  /\ UNCHANGED <<now, fileVars, timer, parked, wake, forgotten, edit, used, runs>>

\* The worker dies at any point, or exits on a claim that threw.  recoverWorker has
\* no runtime context to start another one with and parks the registration.
Crash(i) ==
  /\ worker[i] \in {"live", "held"} /\ i < MaxWorkers
  /\ worker' = [worker EXCEPT ![i] = "dead"]
  /\ timer' = [timer EXCEPT ![i] = Never]
  /\ lane' = [lane EXCEPT ![i] = <<>>] /\ call' = [call EXCEPT ![i] = "idle"]
  /\ edit' = IF edit.by = i THEN NoEdit ELSE edit
  /\ parked' = TRUE /\ updating' = FALSE
  /\ recompute' = (recompute \/ updating)
  /\ UNCHANGED <<now, fileVars, owner, wake, forgotten, used, runs>>

\* prepare_update_restart stops the scheduler of the worker.
Hold(i) ==
  /\ owner = i /\ worker[i] = "live" /\ Free(i)
  /\ ~updating /\ used.updates < MaxUpdates
  /\ used' = [used EXCEPT !.updates = @ + 1]
  /\ updating' = TRUE
  /\ worker' = [worker EXCEPT ![i] = "held"]
  /\ timer' = [timer EXCEPT ![i] = Never]
  /\ UNCHANGED <<now, fileVars, lane, call, owner, parked, wake, recompute, forgotten, edit, runs>>

\* The preparation is given up: the scheduler starts again without recovering.
Resume(i) ==
  /\ worker[i] = "held" /\ Free(i)
  /\ worker' = [worker EXCEPT ![i] = "live"]
  /\ timer' = [timer EXCEPT ![i] = Earliest(jobs)]
  /\ updating' = FALSE /\ recompute' = TRUE
  /\ UNCHANGED <<now, fileVars, lane, call, owner, parked, wake, forgotten, edit, used, runs>>

PassTime ==
  /\ now < MaxTime
  /\ now' = now + 1
  /\ UNCHANGED <<fileVars, workerVars, supervisorVars, edit, used, runs>>

Scheduler(i) == RunDue(i) \/ Begin(i) \/ Deliver(i) \/ Decline(i) \/ Record(i)

Next ==
  \/ \E j \in Jobs : \E new \in Changes(j) :
       PassiveEdit(j, new) \/ \E i \in Workers : WorkerEdit(i, j, new)
  \/ WriteEdit
  \/ \E i \in Workers : Scheduler(i)
  \/ \E i \in Workers : Open(i) \/ Wake(i)
  \/ WakeInVain \/ Recompute
  \/ \E i \in Workers : Stop(i) \/ Release(i) \/ Exit(i) \/ Crash(i) \/ Hold(i) \/ Resume(i)
  \/ PassTime

Spec == Init /\ [][Next]_vars

\* The worker's own steps, the clock, the two timers of the supervisor and the end
\* of what has begun; not the user, a shutdown or a crash.
Fairness ==
  /\ WF_vars(PassTime) /\ WF_vars(WriteEdit)
  /\ WF_vars(WakeInVain) /\ WF_vars(Recompute)
  /\ \A i \in Workers :
       /\ WF_vars(Scheduler(i)) /\ WF_vars(RunDue(i))
       /\ WF_vars(Wake(i)) /\ WF_vars(Resume(i))
       /\ WF_vars(Release(i)) /\ WF_vars(Exit(i))

FairSpec == Spec /\ Fairness

-------------------------------------------------------------------------------
(* Properties *)

\* docs/daemon.md:72: a crash does not replay an uncertain prompt.  A tick is handed
\* to the session at most once, whatever crashes, stops, restarts, recoveries,
\* coalesced ticks and merged edits happen around it.
NoReplay == \A j \in Jobs : \A t \in Times : runs[j][t] <= 1

\* docs/daemon.md:72: a still-active claim coalesces later ticks.  A worker that
\* schedules holds at most one dispatch of a job, and the file knows each of them,
\* also after another worker recovered the file.
Coalesced ==
  /\ \A c, d \in claims : c.job = d.job => c = d
  /\ \A i \in Workers : worker[i] \in {"live", "held"} =>
       /\ ToSet(lane[i]) \subseteq claims
       /\ \A k, l \in DOMAIN lane[i] : lane[i][k].job = lane[i][l].job => k = l

\* A cancelled or completed job stays that way and delivers nothing more, even when
\* a dispatch of it is under way and two processes write the file.
EndedIsQuiet ==
  [][\A j \in Jobs : jobs[j].status \in {"cancelled", "completed"} =>
        /\ jobs'[j].status \in {"cancelled", jobs[j].status}
        /\ runs'[j] = runs[j]]_vars

\* A repeating job that is active has a next tick, and a one-shot job without one is
\* claimed: no crash or merge leaves a job that is listed as active and never runs.
ActiveWillRun ==
  \A j \in Jobs : jobs[j].status = "active" /\ jobs[j].next = Never => j \in Once /\ Claimed(j)

\* Nobody is left who would look at the job: the registration is failed, or was
\* dropped without a recomputation, or the clock of the model ended during a stop.
Stranded == \/ parked \/ forgotten
            \/ now = MaxTime /\ \E i \in Workers : worker[i] = "stopping"

\* A job that is due is claimed, or stopped, with or without a worker at that time,
\* unless its worker crashed or dropped out on its own.
DueIsClaimed == \A j \in Jobs : IsDue(j) ~> ~IsDue(j) \/ Stranded
===============================================================================
