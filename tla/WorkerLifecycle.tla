--------------------------- MODULE WorkerLifecycle ---------------------------
(***************************************************************************)
(* The life of one session worker under the daemon supervisor              *)
(* (daemon-supervisor.ts): its process, its registration in the            *)
(* supervisor's memory, its descriptor file, and the tasks that end,       *)
(* recover, relaunch and clean up a worker and await in the midst of it:   *)
(* stops that a user, a timer or a successor of the supervisor asks for,   *)
(* the finalizer of a stop that timed out, the recovery of a lost worker,  *)
(* and the commands that rescind a stop.                                   *)
(*                                                                         *)
(* The worker has been created; a later launch replaces its process.  The  *)
(* start time of every process is known, so an identity is either current  *)
(* or gone.  assertRecoveryAllowed, which reads the ownership record, is   *)
(* taken as part of the step it follows.                                   *)
(***************************************************************************)
EXTENDS Naturals, FiniteSets

CONSTANTS
  MaxPids,      \* processes
  MaxFaults,    \* bound: crashes, lost connections, failed calls
  MaxRestarts,  \* bound: supervisor restarts
  MaxCommands,  \* bound: commands that stop, rescind or reclaim
  Tries,        \* attempts of one recovery
  MaxRounds,    \* deferred recoveries before the worker is given up
  SlowCancel    \* cancelling a worker's schedules may outlast a launch or an attach

ASSUME LifecycleAssumption ==
  /\ MaxPids \in Nat \ {0} /\ Tries \in Nat \ {0}
  /\ MaxFaults \in Nat /\ MaxRestarts \in Nat /\ MaxCommands \in Nat /\ MaxRounds \in Nat
  /\ SlowCancel \in BOOLEAN

Pids     == 1..MaxPids
NoClient == 0

\* Who calls stopWorker: a kill, the timers and commands that end an owned or idle
\* worker, the finalizer, a create that reclaims, a new supervisor, a failed launch.
Stoppers == {"kill", "timer", "final", "create", "adopt", "launch"}
Forced   == {"final", "create", "adopt", "launch"}
Removing == Stoppers \ {"launch"}

VARIABLES
  file,       \* the descriptor file
  reg,        \* the registration in the supervisor's memory
  owned,      \* the worker belongs to a client
  proc,       \* the worker's processes
  stops,      \* the calls of stopWorker under way
  finalizer,  \* the finalizer of a stop that timed out
  recovery,   \* recoverWorker
  deferred,   \* a deferred recovery is scheduled
  reclaim,    \* a create is reclaiming the registration of a dead worker
  up,         \* the supervisor: adopting its workers, or serving
  spent       \* faults, restarts and commands so far

vars == <<file, reg, owned, proc, stops, finalizer, recovery, deferred, reclaim, up, spent>>

NoFile     == [pid |-> 0]
NoStop     == [at |-> "off", entry |-> 0]
NoRecovery == [at |-> "off", try |-> 0, park |-> FALSE, bumped |-> FALSE, resume |-> FALSE, child |-> 0]
Idle       == [at |-> "off", pid |-> 0, bumped |-> FALSE]

TypeOK ==
  /\ file = NoFile \/ file \in [pid : Pids, stop : BOOLEAN, archive : BOOLEAN]
  /\ reg \in [present : BOOLEAN, pid : Pids, stop : BOOLEAN, archive : BOOLEAN, intent : BOOLEAN,
              client : {NoClient} \cup Pids, life : {"ready", "starting", "recovering", "failed"},
              ctx : BOOLEAN, rounds : 0..MaxRounds + 1]
  /\ owned \in BOOLEAN
  /\ proc \in [Pids -> {"none", "gated", "live", "closing", "dead"}]
  /\ stops \in [Stoppers -> [at : {"off", "forwarding", "asking", "waiting", "archiving", "cancelling"},
                             entry : {0} \cup Pids]]
  /\ finalizer \in [at : {"off", "watching", "retrying"}, pid : {0} \cup Pids, bumped : BOOLEAN]
  /\ recovery \in [at : {"off", "delay", "connecting", "subscribing", "marking", "spawning", "gating",
                         "starting", "creating", "cleanup"},
                   try : 0..Tries, park : BOOLEAN, bumped : BOOLEAN, resume : BOOLEAN,
                   child : {0} \cup Pids]
  /\ deferred \in BOOLEAN /\ reclaim \in BOOLEAN
  /\ up \in {"adopting", "settling", "serving"}
  /\ spent \in [faults : 0..MaxFaults, restarts : 0..MaxRestarts, commands : 0..MaxCommands]

Init ==
  /\ file = [pid |-> 1, stop |-> FALSE, archive |-> FALSE]
  /\ owned \in BOOLEAN
  /\ reg = [present |-> TRUE, pid |-> 1, stop |-> FALSE, archive |-> FALSE, intent |-> FALSE,
            client |-> 1, life |-> "ready", ctx |-> owned, rounds |-> 0]
  /\ proc = [i \in Pids |-> IF i = 1 THEN "live" ELSE "none"]
  /\ stops = [s \in Stoppers |-> NoStop]
  /\ finalizer = Idle /\ recovery = NoRecovery /\ deferred = FALSE /\ reclaim = FALSE
  /\ up = "serving"
  /\ spent = [faults |-> 0, restarts |-> 0, commands |-> 0]

-------------------------------------------------------------------------------
Alive(i) == i \in Pids /\ proc[i] \in {"gated", "live", "closing"}

\* SIGTERM: a worker closes its sessions first, a child at the startup gate ends.
Terminated(i) ==
  [proc EXCEPT ![i] = CASE @ = "live" -> "closing" [] @ = "gated" -> "dead" [] OTHER -> @]

Killed(i) == [proc EXCEPT ![i] = IF Alive(i) THEN "dead" ELSE @]

\* isWorkerRecoveryCancelled and isWorkerRecoveryCandidate
Cancelled(r) == ~r.present \/ r.intent \/ r.stop
Candidate(r) == ~Cancelled(r) /\ r.client = NoClient

\* workerStopCounts
StopOwned == \E s \in Stoppers : stops[s].at # "off"

Persist(r) == file' = [pid |-> r.pid, stop |-> r.stop, archive |-> r.archive]

\* persistWorkerStopTombstone
Tombstoned(r, archive) ==
  [r EXCEPT !.intent = TRUE, !.stop = TRUE, !.archive = @ \/ archive]

\* Assumption, unless SlowCancel: nothing replaces the process or rescinds the stop
\* while a stop cancels the schedules of its worker.
Undisturbed == SlowCancel \/ \A s \in Stoppers : stops[s].at # "cancelling"

Command == spent.commands < MaxCommands /\ spent' = [spent EXCEPT !.commands = @ + 1]
Fault   == spent.faults < MaxFaults /\ spent' = [spent EXCEPT !.faults = @ + 1]

-------------------------------------------------------------------------------
(* recoverWorker *)

\* Its synchronous beginning: nothing, wait for the owner, join or start a recovery.
Recover(r) ==
  LET parks  == ~Cancelled(r) /\ owned /\ ~r.ctx /\ ~Alive(r.pid)
      parked == IF parks THEN [r EXCEPT !.life = "failed"] ELSE r
  IN /\ reg' = parked
     /\ Persist(parked)
     /\ recovery' = IF Cancelled(r) \/ parks \/ recovery.at # "off" THEN recovery
                    ELSE [NoRecovery EXCEPT !.at = "delay", !.try = 1]

\* Mutant of Last: one attempt more than there are delays for.
LastBeyond == recovery.try > Tries

Last == recovery.try = Tries

\* The end of an attempt that failed: another one, a deferred recovery, or none.
NextTry(r, probing) ==
  LET failed == [r EXCEPT !.client = NoClient]
      later == Last /\ probing /\ ~deferred
  IN IF Cancelled(r)
     THEN reg' = r /\ recovery' = NoRecovery /\ UNCHANGED <<file, deferred>>
     ELSE /\ reg' = CASE ~Last -> failed
                      [] Last /\ ~probing -> [failed EXCEPT !.life = "failed"]
                      [] later /\ r.rounds >= MaxRounds ->
                           [failed EXCEPT !.life = "failed", !.rounds = MaxRounds + 1]
                      [] later /\ r.rounds < MaxRounds ->
                           [failed EXCEPT !.life = "recovering", !.rounds = @ + 1]
                      [] OTHER -> [failed EXCEPT !.life = "recovering"]
          /\ Persist(reg')
          /\ recovery' = IF Last THEN NoRecovery
                         ELSE [NoRecovery EXCEPT !.at = "delay", !.try = recovery.try + 1]
          /\ deferred' = (deferred \/ (later /\ r.rounds < MaxRounds))

\* Mutant of Attempt: a worker whose owner asks again is replaced without a look at it.
AttemptUnprobed ==
  /\ recovery.at = "delay"
  /\ recovery' = CASE Cancelled(reg) -> NoRecovery
                   [] ~Cancelled(reg) /\ Alive(reg.pid) /\ ~(owned /\ reg.ctx) ->
                        [recovery EXCEPT !.at = "connecting"]
                   [] OTHER -> [recovery EXCEPT !.at = "marking", !.park = ~(owned /\ reg.ctx)]
  /\ UNCHANGED <<file, reg, owned, proc, stops, finalizer, deferred, reclaim, up, spent>>

\* The delay before an attempt is over.  A process that is gone is replaced if the
\* supervisor still has what its owner launched it with.
Attempt ==
  /\ recovery.at = "delay"
  /\ recovery' = CASE Cancelled(reg) -> NoRecovery
                   [] ~Cancelled(reg) /\ Alive(reg.pid) -> [recovery EXCEPT !.at = "connecting"]
                   [] OTHER -> [recovery EXCEPT !.at = "marking", !.park = ~(owned /\ reg.ctx)]
  /\ UNCHANGED <<file, reg, owned, proc, stops, finalizer, deferred, reclaim, up, spent>>

Connect ==
  /\ recovery.at = "connecting"
  /\ proc[reg.pid] \in {"live", "closing"}
  /\ reg' = [reg EXCEPT !.client = reg.pid]
  /\ recovery' = [recovery EXCEPT !.at = "subscribing"]
  /\ UNCHANGED <<file, owned, proc, stops, finalizer, deferred, reclaim, up, spent>>

Reconnected ==
  /\ recovery.at = "subscribing"
  /\ reg.client # NoClient /\ Alive(reg.client)
  /\ IF Cancelled(reg)
     THEN UNCHANGED <<file, reg>>
     ELSE reg' = [reg EXCEPT !.life = "ready", !.rounds = 0] /\ Persist(reg')
  /\ recovery' = NoRecovery
  /\ UNCHANGED <<owned, proc, stops, finalizer, deferred, reclaim, up, spent>>

\* The worker does not answer in time, or its connection is lost.  The connection is
\* closed before anything else is looked at.
ProbeFails ==
  /\ recovery.at \in {"connecting", "subscribing"}
  /\ \/ Fault
     \/ /\ ~Alive(reg.pid) \/ (recovery.at = "subscribing" /\ reg.client = NoClient)
        /\ UNCHANGED spent
  /\ \E probing \in BOOLEAN : NextTry([reg EXCEPT !.client = NoClient], probing)
  /\ UNCHANGED <<owned, proc, stops, finalizer, reclaim, up>>

\* recoverUncertainWorkerOperations has marked what was interrupted: without a
\* launch context the worker waits for a client, otherwise launchWorker spawns.
Marked ==
  /\ recovery.at = "marking"
  /\ IF Cancelled(reg)
     THEN recovery' = NoRecovery /\ UNCHANGED <<file, reg, proc>>
     ELSE IF recovery.park
     THEN /\ reg' = [reg EXCEPT !.life = "failed"] /\ Persist(reg')
          /\ recovery' = NoRecovery
          /\ UNCHANGED proc
     ELSE /\ \E i \in Pids :
               /\ proc[i] = "none" /\ \A j \in 1..i - 1 : proc[j] # "none"
               /\ proc' = [proc EXCEPT ![i] = "gated"]
               /\ recovery' = [recovery EXCEPT !.at = "spawning", !.bumped = FALSE, !.child = i]
          /\ UNCHANGED <<file, reg>>
  /\ UNCHANGED <<owned, stops, finalizer, deferred, reclaim, up, spent>>

\* The spawn has settled: the registration gets a descriptor of its own, without the
\* tombstone of the one before, and is entered in the map again.
Assign ==
  /\ recovery.at = "spawning" /\ Alive(recovery.child)
  /\ Undisturbed
  /\ reg' = [reg EXCEPT !.present = TRUE, !.pid = recovery.child, !.stop = FALSE, !.archive = FALSE,
                        !.intent = FALSE, !.life = "starting"]
  /\ Persist(reg')
  /\ recovery' = [recovery EXCEPT !.at = "gating"]
  /\ UNCHANGED <<owned, proc, stops, finalizer, deferred, reclaim, up, spent>>

SpawnFails ==
  /\ recovery.at = "spawning"
  /\ Fault
  /\ proc' = Killed(recovery.child)
  /\ NextTry(reg, FALSE)
  /\ UNCHANGED <<owned, stops, finalizer, reclaim, up>>

\* Mutant of OpenGate: the gate is opened before the descriptor names the process.
OpenGateEarly ==
  /\ recovery.at \in {"spawning", "gating"} /\ proc[recovery.child] = "gated"
  /\ proc' = [proc EXCEPT ![recovery.child] = "live"]
  /\ recovery' = IF recovery.at = "gating" THEN [recovery EXCEPT !.at = "starting"] ELSE recovery
  /\ UNCHANGED <<file, reg, owned, stops, finalizer, deferred, reclaim, up, spent>>

\* commitWorkerStartupGate: only now does the child become a worker.
OpenGate ==
  /\ recovery.at = "gating" /\ proc[recovery.child] = "gated"
  /\ proc' = [proc EXCEPT ![recovery.child] = "live"]
  /\ recovery' = [recovery EXCEPT !.at = "starting"]
  /\ UNCHANGED <<file, reg, owned, stops, finalizer, deferred, reclaim, up, spent>>

ConnectLaunched ==
  /\ recovery.at = "starting"
  /\ proc[reg.pid] \in {"live", "closing"}
  /\ reg' = [reg EXCEPT !.client = reg.pid]
  /\ recovery' = [recovery EXCEPT !.at = "creating"]
  /\ UNCHANGED <<file, owned, proc, stops, finalizer, deferred, reclaim, up, spent>>

\* The worker has opened the session, and no stop came in since the launch began.
Launched ==
  /\ recovery.at = "creating"
  /\ reg.client # NoClient /\ Alive(reg.client)
  /\ ~Cancelled(reg) /\ ~recovery.bumped
  /\ reg' = [reg EXCEPT !.life = "ready", !.rounds = 0, !.ctx = @ /\ owned]
  /\ Persist(reg')
  /\ recovery' = NoRecovery
  /\ UNCHANGED <<owned, proc, stops, finalizer, deferred, reclaim, up, spent>>

\* The launch fails or is cancelled: the new process is stopped by force.
LaunchFails ==
  /\ recovery.at \in {"gating", "starting", "creating"}
  /\ \/ Fault
     \/ /\ \/ ~Alive(reg.pid)
           \/ /\ recovery.at = "creating"
              /\ reg.client = NoClient \/ Cancelled(reg) \/ recovery.bumped
        /\ UNCHANGED spent
  /\ recovery' = [recovery EXCEPT !.at = "cleanup", !.resume = ~reg.stop /\ ~recovery.bumped]
  /\ reg' = [reg EXCEPT !.intent = TRUE, !.life = "recovering"]
  /\ Persist(reg')
  /\ stops' = [stops EXCEPT !["launch"] =
                 [at |-> IF reg.client # NoClient THEN "asking" ELSE "waiting", entry |-> reg.pid]]
  /\ proc' = IF reg.client # NoClient THEN proc ELSE Terminated(reg.pid)
  /\ UNCHANGED <<owned, finalizer, deferred, reclaim, up>>

LaunchCleaned ==
  /\ recovery.at = "cleanup" /\ stops["launch"].at = "off"
  /\ LET resumed == recovery.resume /\ ~reg.stop /\ ~recovery.bumped
         r == IF resumed
              THEN [reg EXCEPT !.intent = FALSE, !.life = "recovering", !.present = TRUE]
              ELSE reg
     IN NextTry(r, FALSE)
  /\ UNCHANGED <<owned, proc, stops, finalizer, reclaim, up, spent>>

\* resumeDeferredWorkerRecovery, every few seconds
Resume ==
  /\ deferred
  /\ IF ~Candidate(reg)
     THEN deferred' = FALSE /\ UNCHANGED <<file, reg, recovery>>
     ELSE /\ recovery.at = "off"
          /\ deferred' = FALSE
          /\ Recover([reg EXCEPT !.life = "recovering"])
  /\ UNCHANGED <<owned, proc, stops, finalizer, reclaim, up, spent>>

-------------------------------------------------------------------------------
(* stopWorker *)

\* Its synchronous beginning: the tombstone is durable before the worker is asked,
\* and a recovery or finalizer under way can see that another stop began.
StopWorker(s, r, archive) ==
  LET stone == Tombstoned(r, archive) IN
  /\ reg' = stone
  /\ Persist(stone)
  /\ stops' = [stops EXCEPT ![s] = [at |-> IF r.client # NoClient THEN "asking" ELSE "waiting",
                                    entry |-> r.pid]]
  /\ proc' = IF r.client # NoClient THEN proc ELSE Terminated(r.pid)
  /\ recovery' = [recovery EXCEPT !.bumped = TRUE]

\* A kill is first forwarded to the worker, when it can be.
Kill ==
  /\ up = "serving" /\ reg.present /\ stops["kill"].at = "off"
  /\ Command
  /\ IF reg.client # NoClient /\ reg.life = "ready"
     THEN /\ reg' = Tombstoned(reg, TRUE) /\ Persist(reg')
          /\ stops' = [stops EXCEPT !["kill"].at = "forwarding"]
          /\ UNCHANGED <<proc, recovery, finalizer>>
     ELSE /\ StopWorker("kill", reg, TRUE)
          /\ finalizer' = [finalizer EXCEPT !.bumped = TRUE]
  /\ UNCHANGED <<owned, deferred, reclaim, up>>

\* The worker has closed the session, or its connection is lost.
KillForwarded ==
  /\ stops["kill"].at = "forwarding"
  /\ reg.client = NoClient \/ Alive(reg.client)
  /\ StopWorker("kill", reg, TRUE)
  /\ finalizer' = [finalizer EXCEPT !.bumped = TRUE]
  /\ UNCHANGED <<owned, deferred, reclaim, up, spent>>

\* complete_owned_session, the grace period of an owner that left, an idle eviction.
EndWorker ==
  /\ up = "serving" /\ reg.present /\ stops["timer"].at = "off"
  /\ Command
  /\ StopWorker("timer", reg, FALSE)
  /\ finalizer' = [finalizer EXCEPT !.bumped = TRUE]
  /\ UNCHANGED <<owned, deferred, reclaim, up>>

Ended(s) == stops' = [stops EXCEPT ![s] = NoStop]

\* The worker has answered the shutdown request or let it time out.  When its
\* connection was lost instead, handleWorkerClose has taken the client away and the
\* close() of it throws: nobody goes on with this stop.
Asked(s) ==
  /\ stops[s].at = "asking"
  /\ IF reg.client = NoClient
     THEN Ended(s) /\ UNCHANGED <<reg, proc>>
     ELSE /\ Alive(reg.client)
          /\ reg' = [reg EXCEPT !.client = NoClient]
          /\ stops' = [stops EXCEPT ![s].at = "waiting"]
          /\ proc' = Terminated(reg.client)
  /\ UNCHANGED <<file, owned, finalizer, recovery, deferred, reclaim, up, spent>>

\* assertStopStillApplies
Applies(s) == reg.pid = stops[s].entry /\ (s \in Removing => reg.stop)

\* The registration leaves the map, and the descriptor the disk.  Cancelling the
\* schedules of a client-owned worker may fail, which leaves the tombstone behind.
Finish(s, settled) ==
  /\ reg' = [reg EXCEPT !.present = FALSE]
  /\ file' = IF s \in Removing /\ settled THEN NoFile ELSE file
  /\ Ended(s)

\* The process is gone.
Gone(s) ==
  /\ stops[s].at = "waiting" /\ ~Alive(stops[s].entry)
  /\ CASE ~Applies(s) -> Ended(s) /\ UNCHANGED <<file, reg>>
       [] Applies(s) /\ s \in Removing /\ reg.archive ->
            stops' = [stops EXCEPT ![s].at = "archiving"] /\ UNCHANGED <<file, reg>>
       [] Applies(s) /\ s \in Removing /\ ~reg.archive /\ owned ->
            stops' = [stops EXCEPT ![s].at = "cancelling"] /\ UNCHANGED <<file, reg>>
       [] OTHER -> Finish(s, TRUE)
  /\ UNCHANGED <<owned, proc, finalizer, recovery, deferred, reclaim, up, spent>>

Archived(s) ==
  /\ stops[s].at = "archiving"
  /\ CASE ~Applies(s) -> Ended(s) /\ UNCHANGED <<file, reg>>
       [] Applies(s) /\ owned ->
            stops' = [stops EXCEPT ![s].at = "cancelling"] /\ UNCHANGED <<file, reg>>
       [] OTHER -> Finish(s, TRUE)
  /\ UNCHANGED <<owned, proc, finalizer, recovery, deferred, reclaim, up, spent>>

\* The catalog cannot archive the session: the stop ends with that error.
ArchiveFails(s) ==
  /\ stops[s].at = "archiving"
  /\ Fault
  /\ Ended(s)
  /\ UNCHANGED <<file, reg, owned, proc, finalizer, recovery, deferred, reclaim, up>>

\* cancelEphemeralWorkerScheduledJobs returns; what applies is not asked once more.
CancelJobs(s) ==
  /\ stops[s].at = "cancelling"
  /\ \/ Finish(s, TRUE) /\ UNCHANGED spent
     \/ Fault /\ Finish(s, ~owned)
  /\ UNCHANGED <<owned, proc, finalizer, recovery, deferred, reclaim, up>>

\* A forced stop kills the process when the graceful deadline has passed.
ForceKill(s) ==
  /\ s \in Forced /\ stops[s].at = "waiting" /\ Alive(stops[s].entry)
  /\ proc' = Killed(stops[s].entry)
  /\ UNCHANGED <<file, reg, owned, stops, finalizer, recovery, deferred, reclaim, up, spent>>

\* Assumption: the finalizer, which looks every 250 ms, has seen that another stop began
\* before that stop times out after 1.5 seconds or more.
Unread == finalizer.at = "watching" /\ finalizer.bumped

\* The process outlives the deadline (under SIGKILL, only by a fault): the finalizer
\* takes over.
TimesOut(s) ==
  /\ stops[s].at = "waiting" /\ Alive(stops[s].entry) /\ ~Unread
  /\ s \in Forced => spent.faults < MaxFaults
  /\ spent' = IF s \in Forced THEN [spent EXCEPT !.faults = @ + 1] ELSE spent
  /\ reg' = [reg EXCEPT !.intent = reg.stop]
  /\ finalizer' = IF s \in Removing /\ finalizer.at = "off"
                  THEN [at |-> "watching", pid |-> reg.pid, bumped |-> FALSE] ELSE finalizer
  /\ Ended(s)
  /\ UNCHANGED <<file, owned, proc, recovery, deferred, reclaim, up>>

-------------------------------------------------------------------------------
(* finalizeTimedOutWorkerStop *)

\* isStopGenerationCurrent and isCleanupStillWanted
Wanted == reg.present /\ reg.stop /\ reg.pid = finalizer.pid

\* Mutant of Watch: the finalizer waits for the process and never kills it.
WatchOnly ==
  /\ finalizer.at = "watching"
  /\ IF ~Wanted \/ finalizer.bumped
     THEN finalizer' = Idle
     ELSE ~Alive(finalizer.pid) /\ finalizer' = [finalizer EXCEPT !.at = "retrying"]
  /\ UNCHANGED <<file, reg, owned, proc, stops, recovery, deferred, reclaim, up, spent>>

\* Every check of the waiting phase; the SIGKILL comes after a grace period.
Watch ==
  /\ finalizer.at = "watching"
  /\ IF ~Wanted \/ finalizer.bumped
     THEN finalizer' = Idle /\ UNCHANGED proc
     ELSE IF Alive(finalizer.pid)
     THEN proc' = Killed(finalizer.pid) /\ UNCHANGED finalizer
     ELSE finalizer' = [finalizer EXCEPT !.at = "retrying"] /\ UNCHANGED proc
  /\ UNCHANGED <<file, reg, owned, stops, recovery, deferred, reclaim, up, spent>>

\* One attempt of the cleanup, whose outcome is seen by the next one.
Clean ==
  /\ finalizer.at = "retrying" /\ stops["final"].at = "off"
  /\ IF Wanted
     THEN StopWorker("final", reg, reg.archive) /\ UNCHANGED finalizer
     ELSE finalizer' = Idle /\ UNCHANGED <<file, reg, proc, stops, recovery>>
  /\ UNCHANGED <<owned, deferred, reclaim, up, spent>>

-------------------------------------------------------------------------------
(* The worker and its connection *)

\* A worker dies, or ends when it was told to.
Exit(i) ==
  /\ Alive(i)
  /\ IF proc[i] = "closing" THEN UNCHANGED spent ELSE proc[i] = "live" /\ Fault
  /\ proc' = [proc EXCEPT ![i] = "dead"]
  /\ UNCHANGED <<file, reg, owned, stops, finalizer, recovery, deferred, reclaim, up>>

\* A session or a signal shuts the worker down.
ShutsDown(i) ==
  /\ proc[i] = "live"
  /\ Fault
  /\ proc' = [proc EXCEPT ![i] = "closing"]
  /\ UNCHANGED <<file, reg, owned, stops, finalizer, recovery, deferred, reclaim, up>>

\* handleWorkerFrame: the root session says that it closes for a shutdown.  Only a
\* stop under way keeps the registration and the descriptor.
RootCloses ==
  /\ reg.client # NoClient /\ proc[reg.client] = "closing"
  /\ ~reg.intent \/ (reg.present /\ ~StopOwned)
  /\ reg' = [reg EXCEPT !.intent = TRUE, !.present = @ /\ StopOwned]
  /\ file' = IF StopOwned THEN file ELSE NoFile
  /\ UNCHANGED <<owned, proc, stops, finalizer, recovery, deferred, reclaim, up, spent>>

\* handleWorkerClose: the process is gone or the connection is lost.
Close ==
  /\ reg.client # NoClient
  /\ IF Alive(reg.client) THEN Fault ELSE UNCHANGED spent
  /\ LET r == [reg EXCEPT !.client = NoClient] IN
     IF Candidate(r) /\ recovery.at = "off"
     THEN Recover([r EXCEPT !.life = "recovering"])
     ELSE reg' = r /\ UNCHANGED <<file, recovery>>
  /\ UNCHANGED <<owned, proc, stops, finalizer, deferred, reclaim, up>>

-------------------------------------------------------------------------------
(* Commands that rescind a stop or reclaim a registration *)

Rescinded(r) ==
  [r EXCEPT !.intent = FALSE, !.stop = FALSE, !.archive = FALSE, !.life = "recovering", !.rounds = 0]

\* attach of the owner, with its launch environment
Attach ==
  /\ up = "serving" /\ reg.present /\ owned
  /\ Undisturbed
  /\ Command
  /\ IF reg.client = NoClient \/ reg.life # "ready"
     THEN Recover(Rescinded([reg EXCEPT !.ctx = TRUE]))
     ELSE reg' = [reg EXCEPT !.ctx = TRUE] /\ UNCHANGED <<file, recovery>>
  /\ UNCHANGED <<owned, proc, stops, finalizer, deferred, reclaim, up>>

RetryWorker ==
  /\ up = "serving" /\ reg.present /\ ~StopOwned
  /\ Command
  /\ Recover(Rescinded(reg))
  /\ UNCHANGED <<owned, proc, stops, finalizer, deferred, reclaim, up>>

Promote ==
  /\ up = "serving" /\ reg.present /\ owned
  /\ Command
  /\ owned' = FALSE
  /\ reg' = [reg EXCEPT !.ctx = FALSE]
  /\ Persist(reg)
  /\ UNCHANGED <<proc, stops, finalizer, recovery, deferred, reclaim, up>>

\* reclaimStaleWorkerRegistration, for a create of the same session
Reclaim ==
  /\ up = "serving" /\ reg.present /\ reg.client = NoClient /\ recovery.at = "off" /\ ~reclaim
  /\ Command
  /\ CASE reg.stop /\ ~Alive(reg.pid) ->
            /\ finalizer' = IF finalizer.at # "off" THEN finalizer
                            ELSE [at |-> "watching", pid |-> reg.pid, bumped |-> FALSE]
            /\ UNCHANGED <<file, reg, proc, stops, recovery, reclaim>>
       [] ~reg.stop /\ reg.life = "failed" /\ ~owned /\ Alive(reg.pid) /\ stops["create"].at = "off" ->
            /\ StopWorker("create", reg, FALSE)
            /\ finalizer' = [finalizer EXCEPT !.bumped = TRUE]
            /\ UNCHANGED reclaim
       [] ~reg.stop /\ reg.life = "failed" /\ ~owned /\ ~Alive(reg.pid) ->
            /\ reg' = [reg EXCEPT !.intent = TRUE]
            /\ reclaim' = TRUE
            /\ UNCHANGED <<file, proc, stops, recovery, finalizer>>
       [] OTHER -> FALSE
  /\ UNCHANGED <<owned, deferred, up>>

\* Its recoverUncertainWorkerOperations throws when a stop came in.
Reclaimed ==
  /\ reclaim
  /\ reclaim' = FALSE
  /\ IF reg.stop \/ ~reg.present
     THEN UNCHANGED <<file, reg>>
     ELSE reg' = [reg EXCEPT !.present = FALSE] /\ file' = NoFile
  /\ UNCHANGED <<owned, proc, stops, finalizer, recovery, deferred, up, spent>>

-------------------------------------------------------------------------------
(* The supervisor *)

\* The supervisor ends; its successor knows what is on disk.  A child that waits at
\* its startup gate ends with the supervisor that spawned it.
Restart ==
  /\ spent.restarts < MaxRestarts
  /\ spent' = [spent EXCEPT !.restarts = @ + 1]
  /\ proc' = [i \in Pids |-> IF proc[i] = "gated" THEN "dead" ELSE proc[i]]
  /\ reg' = IF file = NoFile THEN [reg EXCEPT !.present = FALSE, !.client = NoClient]
            ELSE [present |-> TRUE, pid |-> file.pid, stop |-> file.stop, archive |-> file.archive,
                  intent |-> file.stop, client |-> NoClient, life |-> "recovering", ctx |-> FALSE,
                  rounds |-> 0]
  /\ stops' = [s \in Stoppers |-> NoStop]
  /\ finalizer' = Idle /\ recovery' = NoRecovery /\ deferred' = FALSE /\ reclaim' = FALSE
  /\ up' = IF file = NoFile THEN "serving" ELSE "adopting"
  /\ UNCHANGED <<file, owned>>

\* adoptOrRecoverWorker: finish a stop, find the worker again, or recover it.
Adopt ==
  /\ up = "adopting"
  /\ up' = "settling"
  /\ IF reg.stop
     THEN StopWorker("adopt", reg, FALSE) /\ UNCHANGED spent
     ELSE /\ \/ /\ proc[reg.pid] \in {"live", "closing"}
                /\ reg' = [reg EXCEPT !.client = reg.pid, !.life = "ready"]
                /\ Persist(reg')
                /\ UNCHANGED <<recovery, spent>>
             \/ /\ IF Alive(reg.pid) THEN Fault ELSE UNCHANGED spent
                /\ Recover(reg)
          /\ UNCHANGED <<proc, stops>>
  /\ UNCHANGED <<owned, finalizer, deferred, reclaim>>

\* Only a recovery that probes a live worker is not waited for.
Serve ==
  /\ up = "settling"
  /\ stops["adopt"].at = "off"
  /\ recovery.at = "off" \/ Alive(reg.pid)
  /\ up' = "serving"
  /\ reg' = IF reg.present /\ reg.stop THEN [reg EXCEPT !.life = "failed"] ELSE reg
  /\ UNCHANGED <<file, owned, proc, stops, finalizer, recovery, deferred, reclaim, spent>>

-------------------------------------------------------------------------------
RecoveryStep ==
  \/ Attempt \/ Connect \/ Reconnected \/ ProbeFails \/ Marked
  \/ Assign \/ SpawnFails \/ OpenGate \/ ConnectLaunched \/ Launched \/ LaunchFails \/ LaunchCleaned

StopStep(s) ==
  Asked(s) \/ Gone(s) \/ Archived(s) \/ ArchiveFails(s) \/ CancelJobs(s) \/ ForceKill(s) \/ TimesOut(s)

Next ==
  \/ RecoveryStep \/ Resume
  \/ \E s \in Stoppers : StopStep(s)
  \/ Kill \/ KillForwarded \/ EndWorker
  \/ Watch \/ Clean
  \/ \E i \in Pids : Exit(i) \/ ShutsDown(i)
  \/ RootCloses \/ Close
  \/ Attach \/ RetryWorker \/ Promote \/ Reclaim \/ Reclaimed
  \/ Restart \/ Adopt \/ Serve

Spec == Init /\ [][Next]_vars

\* The supervisor's tasks go on: every await of the code ends, by an answer or by its
\* deadline.  A worker that closes may hang, and nobody has to enter a command.
Fairness ==
  /\ WF_vars(RecoveryStep) /\ WF_vars(Resume) /\ WF_vars(Close) /\ WF_vars(KillForwarded)
  /\ \A s \in Stoppers : WF_vars(StopStep(s))
  /\ WF_vars(Watch) /\ WF_vars(Clean) /\ WF_vars(Reclaimed)
  /\ WF_vars(Adopt) /\ WF_vars(Serve)

FairSpec == Spec /\ Fairness

-------------------------------------------------------------------------------
(* Properties *)

\* A session never has two worker processes that write its transcript: a recovery, the
\* retry of a user and the successor of the supervisor replace a worker only when its
\* process is gone, whatever was awaited since.
OneProcess == Cardinality({i \in Pids : proc[i] \in {"live", "closing"}}) <= 1

\* A worker that runs can be found after a crash of the supervisor: no stop, launch or
\* reclaim leaves it without the descriptor that names it.
KnownProcess == \A i \in Pids : proc[i] = "live" => file # NoFile /\ file.pid = i

\* A stop that timed out is brought to its end in the background (the worker is gone, or
\* the stop was rescinded), however often its cleanup fails and whatever is relaunched
\* in between, unless another stop or another supervisor takes over.
TimedOutStopEnds ==
  finalizer.at # "off" ~>
    \/ finalizer.at = "off" /\ (~reg.stop \/ ~reg.present)
    \/ finalizer.bumped
    \/ up # "serving"
==============================================================================
