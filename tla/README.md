# TLA+ specifications of the Andy-Agent daemon

Andy-Agent is a monorepo (4064 files, about a million lines, more than half of
them the vendored `packages/andy-code`). Its own core logic is the coding agent and the
daemon that keeps agent sessions alive: `packages/coding-agent/src`. This
directory models the parts of that daemon whose correctness depends on the order
of things: crashes, reconnects, locks, fences and callbacks.

Paths below are relative to `packages/coding-agent/`.

    client ---- socket ----> supervisor ---- socket ----> worker (one per root session)
    (TUI, CLI)                 |   |                         |    |
                  command journal  ownership record   session lease  scheduled jobs
                               (files shared by processes)

## Inventory

**Command boundary** (`src/modes/daemon/daemon-client.ts`, `handleLine` in
`daemon-supervisor.ts`, `command-recovery-journal.ts`).
State: the client's pending requests; the journal's map of entries and the
append-only file behind it; the handlers in flight. Operations: request, response,
acknowledgement, timeout, park, reconnect and resend; begin, recordResult,
acknowledge, load, compact. Hard: the supervisor may die between any two of
them, a reconnect resends a request whose first copy may still be running, and
compaction rewrites the file under handlers in flight. Correct when no command is
dispatched twice, the file is the memory, a client is told the truth, and every
request ends.

**Session lease** (`src/core/session-lease.ts`).
State: a lease directory with an owner file, a guard directory, in a file system
shared by all workers and one-shot clients. Operations: acquire, reclaim, release.
Hard: processes die anywhere, pids are reused, guards look stale. Correct
when at most one process believes it may write a transcript, that belief is on
disk, and calls end.

**Mutation gate** (`src/modes/daemon/mutation-drain-latch.ts`;
`handleLine`, `withEvictionFence`, `runIdleEvictionSweep`,
`evictEmptySessionOnLastDetach` and `prepareUpdateRestart` in
`daemon-supervisor.ts`).
State: a counter of mutations in flight with its waiters, one promise that is the
eviction fence, the phase of an update restart. Hard: every `await` lets others
run, and which microtask runs first decides. Correct when one evictor at a time is
past the fence, nobody misses a wake-up, and a restart captures its
manifest with no mutation running and no worker being stopped.

**Scheduled jobs** (`src/core/cron-jobs.ts`, `runScheduledJob` in
`daemon-mode.ts`, the wakes and passive edits in `daemon-supervisor.ts`). State: a job
file per session, a timer, claims, a queue of claimed dispatches. Operations: create,
cancel, pause, resume, claim, dispatch, record the result, recover. Hard: jobs are read
without the lock and merged under it by `updatedAt` while the supervisor edits the jobs
of sessions that seem passive; a worker dies between a claim and its dispatch. Correct
when a tick is delivered at most once, a cancel sticks, and a due job is claimed.

**Supervisor ownership** (`src/modes/daemon/daemon-supervisor-ownership.ts`,
`daemon-socket.ts`). State: owner records, a shutdown admission and a startup fence in a
registry directory behind a guard; a lease on the socket path. Hard: two
supervisors start at once, a stalled process loses the guard between its reads and
writes. Correct when one supervisor at a time owns the daemon, and none comes
to own it while daemons are being shut down.

**Worker recovery** (`launchWorker`, `recoverWorker`, `stopWorker`,
`finalizeTimedOutWorkerStop`, `adoptOrRecoverWorker` in `daemon-supervisor.ts`;
`worker-recovery-journal.ts`, `daemon-worker-client.ts`,
`src/core/orphan-process-journal.ts`). State: worker descriptors on disk and
in memory, tombstones, retry rounds, stop counts. Hard: a retry rescinds a stop that
waits for a process to exit, a supervisor is replaced during a recovery. Correct when a
session has at most one worker process, one that runs is named by its
descriptor, and a stop comes to an end.

**Update restart** (`prepareUpdateRestartFenced`, the `worker_prepare_update` and
commit requests). State: per worker prepared or committed checkpoints. Hard:
commit succeeds at some workers only. Correct when a prepare either covers
all workers or is rolled back.

**Event streaming** (`queueCatchup`, `catchUpClient`, `cacheLoadedSnapshot` in
`daemon-supervisor.ts`, the worker's stream in `daemon-mode.ts`,
`compact-session-stream.ts`, `snapshot-transcript-cache.ts`,
`modes/agent-connection/daemon-agent-connection.ts`). State: sequence numbers,
cached snapshots and shared loads, one socket buffer per client, the adapter's
cursor. Hard: events are dropped under backpressure and during a snapshot, at two hops,
and a fresh snapshot must take their place. Correct when every event
reaches a follower, by itself or in a snapshot, in order, and none is taken back.

**Prompt admission and session actions** (`src/core/prompt-admission.ts`,
`session-action-store.ts`). State: waiting, owned and cancelled prompts. Hard: a
cancel races the hand-over to the worker.

**Session worker, agent session, agent loop** (`daemon-mode.ts`,
`src/core/agent-session.ts`, `packages/agent/src/agent-loop.ts`). State: the turn
in progress, steering and follow-up queues, the transcript. Hard: aborts between
tool calls, queues drained at turn boundaries.

**Kernel and REPL** (`src/core/kernel`, `andy-agent-runtime`), **RLM ledger**
(`rlm-ledger.ts`), **OpenAI bridge** (`packages/openai-bridge`), **credential
storage** (`auth-storage.ts`), **catalog process**, **model providers**
(`packages/ai`), **terminal and web interfaces**: listed in `PROJECT.json` with
the reason each is not modelled. `packages/andy-code` is a vendored editor
extension that shares no code with the daemon.

Interactions: a client's command passes the restart phase, the fence and the
journal before its handler runs (`handleLine`); the handler talks to a worker; a
worker takes a session lease before it opens a transcript, and its scheduler
claims jobs from files other processes edit. A scheduled wake asks the supervisor
for a worker without being a command. All of `PROJECT.json` "hazards" lies on
these edges.

## Modules

| module | models | state and actions |
|---|---|---|
| `CommandContract` | what `docs/daemon.md`, "Idempotency and Crash Recovery", promises a client | `dispatches`, `result`, `outcome`; dispatch once, tell once, tell the truth |
| `CommandJournal` | client, `handleLine`, journal and its file | one action per client operation, per return of `handleLine`, per journal call, per way a process ends |
| `CommandJournalProofs` | theorems about it | |
| `SessionLease` | acquire and release on one lease directory | one action per file-system call; `pc` is the call to come |
| `SessionLeaseProofs` | theorems about it | |
| `MutationGate` | the latch, the fence, the restart phases | one action per event or microtask; `pc` is the `await` an actor is parked at |
| `MutationGateProofs` | theorems about it | |
| `EventFeed` | what `docs/daemon.md`, "Reconnect, Replay, and Snapshots" and "Backpressure", promises a follower | `emitted`, `shown`, `following`; a live event, a catch-up, nothing taken back |
| `EventCatchup` | worker, supervisor and client adapter on the way of an event | one action per frame, response continuation, socket read and drain |
| `EventCatchupProofs` | theorems about it | |
| `ScheduledJobs` | job file, scheduler, passive edits, scheduled wakes | one action per locked write, timer and step of a dispatch |
| `ScheduledJobsProofs` | theorems about it | |
| `WorkerLifecycle` | process, registration and descriptor of one worker, and the tasks that end or replace it | one action per stretch between two awaits |
| `WorkerLifecycleProofs` | theorems about it | |
| `SupervisorOwnership` | owner records, shutdown admission, registry guard, socket lease | one action per guarded read and write, and per step of a supervisor's start and end |
| `SupervisorOwnershipProofs` | theorems about it | |
| `MC...` | instances and symmetry for the runs | |

### CommandJournal

A command stands for one idempotency key. `entries` is the journal's map: absent,
received, or the stored response. The file is `snapshot` (what a compaction wrote),
`log` (records appended since) and `tail` (how the last append ended). `Load`
is what a new process reads from them. A record carries what `load()` looks at;
keys, timestamps and payloads are not modelled, and a response is `ok` or `error`.

`handleLine` before the journal awaits only promises that are already settled
(`assertCurrent` reads a file synchronously), so from the read of a line to
`begin` it is one action: `AnswerFromJournal`, `AnswerUncertain`, `Refuse` or `Begin`.
The fence that may lie in between is MutationGate's subject; `begin` looks the key
up again after it, which is what `Begin` and `AnswerUncertain` then stand for. `Execute`
is the handler's effect, `Record` and `FailRecord` what follows it. A supervisor
that is `stopping` refuses lines and still records results; one that is `retired`
lost its ownership record and cannot. `ProcessEnds` loses memory, handlers and
unread lines; `CrashInAppend` ends a process inside a journal call with the
record whole, without its newline, or cut short.

Choices a reader should know. `toSupervisor` is a set, so lines may overtake each
other, except that an acknowledgement is not handled while an older copy of its
request is unread (`CanAcknowledge`: the client sent it after a full round trip on
a newer connection, Node reads the older socket no later). `GiveUp` lets the client
reconnect later, which the code does not: more behaviours, no fewer. A hello whose
capabilities no longer suffice rejects a request instead of resending it; that is
`failed` without the resend and is covered by `GiveUp`. One client is
modelled: keys contain the client id, so clients meet only in `recordCount`. A
successor supervisor starts when its predecessor is gone, which is what the
ownership registry is for.

### SessionLease

`lease` is the directory at the lease's path: nothing, a directory that lost its
`owner.json`, or an owner (pid slot and start time, which stand for the token: a
process holds one lease on a path at a time). Placing a lease is a rename, so a
directory appears with its owner. `guard` is the directory that `lockSync` of
`proper-lockfile` makes; `SeeStaleGuard`, `BreakGuard` and `MakeGuard` are its
take-over of a stale one, modelled from how the code uses it. `AgeGuard` is the
passing of five seconds. Two constants say what the environment may do:
`Stalls`, whether a live process may outlast the five seconds of its own guard, and
`Races`, whether two processes may break the same stale guard. The code excludes
neither; the safety results are stated for both excluded, and `lease_stall` shows
what happens otherwise. A run with `Races = TRUE` and no stalls ends the same way:
the second take-over removes the guard the first has just made.
`SeenAlive` lets the start time of a pid be unreadable, in which case its owner
counts as alive.

### MutationGate

JavaScript runs one job to its next `await`. An action is either an event (a
line arrives, a worker answers, a timer fires), allowed only when the microtask
queue `jobs` is empty, or the job at the head of the queue. `Hops` are the awaits
inside `assertServingCurrentOwnership`, which settle at once but cost a turn of the
queue each. `fenceWaiters` keeps the promises apart: whoever awaits a fence awaits
the one that was in the slot when it looked. `prepareUpdateRestart` drains to one,
since it is counted itself. Not modelled: shutdown; abort and end chains inside one
event; a sweep that stops several workers (each evictor has one); leaving the
prepared phase, which the code never does.

### EventCatchup

An event is its number, a snapshot the number of the last event in it. The worker
(`worker`) emits, holds events back while it streams a snapshot, and owes a snapshot of
its own afterwards (`catchup`). Its frames are in `pipe`, its answers to attach requests are
`loads`; `Receive` takes one frame, and `Loaded` is the continuation of a
response, which runs after all frames of the same socket read: that `resolved` may wait
while `Receive` goes on is finding 4. `cached` is the supervisor's snapshot cache
with its transcript generations. `conn[c].stage` is where `attachClient` or
`catchUpClient` stands for client `c`, `out` its socket buffer, `blocked` and
`needDrain` its backpressure. `ui[c]` is the adapter: the events its view reflects, its
cursor, whether it follows. `InSocket`, `Reaches` and `Gap` only serve the properties.

Two history variables exempt what the code is known to do. `late` holds snapshots that
a load ended with although they were behind (finding 4; a load that meets another
generation than it observed returns that one, older or not, 5165), and
`missed` the clients that were served one of these or whose catch-up threw, which
is logged and forgotten (6023). Neither is ever read by an action's guard.

Left out: clients without chunked snapshots, the contents of chunks and transfers that
fail half-way, compact deltas, replacement snapshots, direct peers, backpressure between
worker and supervisor.

### ScheduledJobs

One session. A job record keeps status, `nextRunAt` and `updatedAt`; the file is
`jobs` and `claims`. A worker is unborn, live, held by an update preparation,
stopping (its scheduler has ended, its last dispatch has not), released (the
session is given up) or dead. `RunDue` claims, `Begin` opens the session, `Deliver` or
`Decline` is the prompt, `Record` the result, merged by freshness with what another
process wrote since (`Recorded`). An edit reads the file in `PassiveEdit` (supervisor) or
`WorkerEdit` and merges under the lock in `WriteEdit`; the window between them is the
hazard. `Wake`, `WakeInVain` and `Recompute` are the supervisor's timer. `runs` counts
deliveries.

`DueIsClaimed` exempts a session that is `Stranded`: its registration is parked as
failed after a crash, or was dropped without a recomputation of the wakes; a client has
to open it. `docs/daemon.md:74` says that recovery "resumes future ticks only", which
such a session does not until then. Assumption: closing a session takes longer than
one tick of `updatedAt`, a millisecond (`Release`).

Left out: a wake whose launch fails and its 60 s retry, the lock of a dead process (a
claim then fails with an unhandled rejection, cron-jobs.ts:1067, until the lock is
stale), several lanes and sessions, a `beginDispatch` that throws, rebinding, the
migration of old files.

### WorkerLifecycle

One worker that has been created. `file` is its descriptor, `reg` its
registration, `proc` the state of each process it ever had: `gated` is a child waiting at
its startup gate, `closing` one that closes its sessions. `stops` holds the calls of
`stopWorker` by caller, `finalizer` the background end of a stop that timed out,
`recovery` the one `recoverWorker`, from its delay over probe and spawn to the
creation of the session. `Restart` is a supervisor that dies and its successor
that loads the descriptor; `Adopt` and `Serve` are the rest of its start.

Assumptions: process start times can be read, so an identity is current or gone; the
finalizer's 250 ms poll sees a dead pid before the 1.5 s deadline of a new launch lets
another take its place in the same registration (`Unread`); unless `SlowCancel`, nothing
replaces the process while a stop cancels its schedules (`Undisturbed`);
`assertRecoveryAllowed`, which only reads the ownership record, belongs to the step
before it.

Left out: the first create, workers from before the roster, stops for an update restart,
shutdown admissions, a supervisor that shuts down its workers, the retry of an
ephemeral session's cancelled schedules.

### SupervisorOwnership

Every supervisor wants the same socket path, so any two owner records conflict. `owners`
are the records, `guard` is the directory `.guard`, `socket` the lease on the path; `at` is how far a
process is in `withDaemonSupervisorRegistryGuard`: `Lock`, first check and
read (`Read`), `Write`, last check and unlock (`Done`). A suspension (`Stall`) makes the locks
of a process stale; another one takes the guard over, and the suspended one resumes at
its read, its write or its last check. `Stolen` is `guardStolen()`: with
`InodesReused` it sees a missing guard only. `Close`, `LeaveSocket`, `DropOwner` and
`Exit` follow the order of `cleanupSupervisorResources` and `shutdown`: the
socket first, then the ownership. A shutdown (`Shutters`) acquires the admission, renews it
before each step (`assertOrRenew`) and releases it; a renewal by its timer is not
told apart from one that a step asks for.

Assumptions: the few synchronous writes of one section are not torn apart by the
suspension, and a stale guard is broken by one process at a time (the race that
`SessionLease` calls `Races`). Left out: the startup fence, `updatePhase`, the legacy
registry, the checks by workers, daemons with different socket paths.

## Runs

| run | instance | shows |
|---|---|---|
| `journal_safe` | 2 commands, 2 connections, 2 crashes, compaction after 3 records | `AtMostOnce`, `FileMatchesMemory`, `DispatchedIsRemembered`, the inductive `JournalInv`, and `CommandContract` as a refinement (`KeepsContract`) |
| `journal_live` | 1 command, 3 connections, 2 crashes, 1 torn append | `EveryRequestSettles` |
| `journal_torn` | the same without fairness | finding 1: `AtMostOnce` fails |
| `lease_guarded` | 3 processes, 2 crashes | `SingleWriter`, `HeldLeaseOnDisk`, `RoundsSuffice`, the inductive `LeaseInv`, `CallsEnd` |
| `lease_stall` | 3 processes, stalls | finding 2: `SingleWriter` fails |
| `gate` | 1 mutation, 1 abort, 2 restarts, 1 sweep, 1 detach eviction | `OneFence`, `NoLostWakeup`, `RestartCapturesAlone`, `NoEvictionDuringRestart`, `EveryoneEnds` |
| `gate_fence` | 1 mutation, 2 evictors | finding 3: `EvictionDecidesAlone` fails |
| `feed` | 1 client, 3 events, 1 disconnect, sockets that block at 2 records | `NoSilentGap`, `CatchesUp`, and `EventFeed` as a refinement (`ImplementsFeed`) |
| `stale` | the same without a disconnect | finding 4: `CatchupIsFresh` fails |
| `jobs` | a repeating and a one-shot job, 2 workers, 2 edits, 1 update, clock up to 4 with period 2 | `NoReplay`, `Coalesced`, `ActiveWillRun`, `EndedIsQuiet`, `DueIsClaimed` |
| `lifecycle` | 3 processes, 3 faults, 2 restarts, 2 commands, 2 tries, 1 deferred round | `OneProcess`, `KnownProcess`, `TimedOutStopEnds` |
| `registry` | 3 supervisors, 1 shutdown, 2 stalls, 1 crash | `OneOwner`, `ShutdownHoldsOff` |

Every passing run but `journal_live` also checks its module's `TypeOK`. `EventCatchup`'s
says as well that a blocked client's socket holds no growing queue of events and that
whoever waits for a load is known to it.

Bounds. Two commands are what one compaction needs to drop or keep the wrong one;
commands do not interact otherwise. `CompactAfter` (4096 in the code) is small
enough that a compaction happens with one command in flight and the other
answered. The first crash makes a command uncertain, the second tests what its
successor wrote. Three processes are an owner, a contender and one that breaks a
guard; two crashes let a pid be reused under a lease and under a guard. In the
gate two restarts, two evictors and an abort let each queue hold two actors; two
mutations with two detach evictions keep the safety properties as well. In the
feed one event can be shown, one held back and one emitted during the
catch-up; clients meet only in the cache and in shared loads, which one client that
reconnects also shares with its former self. In `jobs` a tick can be claimed by one
worker, missed by it and recovered by the next, with an edit on each side of the
claim. In `lifecycle` a relaunched process can be lost as well; three commands with one restart
hold too. In the registry the three processes are one that is suspended, its successor,
and one that comes when both are done; two shutdowns beside three supervisors hold too
(7 million states). The theorems below remove these bounds for every safety property.
`CHECK_DEADLOCK FALSE`: every request may be settled, every command ended, and the bounds
used up.

Fairness. `journal_live`: a readable socket is read and a handler runs to its end
(Node's event loop); whoever needs the daemon starts it again (`recoverDaemon`);
a client whose socket closed leaves `autoReconnect` through the hello or its
deadline. The request timers are left out on purpose, since with them every
request ends whatever the supervisor does. `lease_guarded`: a process inside a call
goes on (there is no other await in it) and five seconds pass. `gate`:
the queue is run to its end, answers or timeouts come, drains time out; strong
fairness because an event that is ready stays ready while microtasks run in between
and the loop serves it in the end. `feed`: worker and supervisor run what they have queued,
and clients read their sockets; nobody has to attach or emit. `jobs`: a worker's own steps,
the clock, the supervisor's timers, and the end of what has begun; no user, shutdown or
crash is owed. `lifecycle`: every await of the supervisor ends, by an answer or its
deadline; a worker that closes may hang, and nobody has to enter a command.

## Findings

1. **A torn line loses the next receipt** (`command-recovery-journal.ts:174`).
   `append` never repairs the end of the file and `load` skips what does not
   parse, so the record after a torn one is lost with it. Two crashes dispatch a command
   twice, which the class comment (48-52) excludes.
2. **A guard is no match for a stall** (`session-lease.ts:203`). The critical
   section is synchronous, so neither the refresh of the guard nor `onCompromised`
   runs in it; after five seconds a second process is let in and both end up with
   the session.
3. **The fence is awaited once** (`daemon-supervisor.ts:1833`). A mutation that waited
   for one evictor runs beside the next one, after that one has drained.
4. **A snapshot is cached behind a newer event** (`daemon-supervisor.ts:5203`). When
   the response to an attach request and a live event arrive in one read of the worker's socket
   (`private-framing.ts:169-179`), the event has been forwarded before the
   snapshot without it is cached; the next catch-up takes the event back.

Two assumptions of the models name what the code does not exclude:

* `SlowCancel` (`daemon-supervisor.ts:6432`). The last await of a stop, the cancelling
  of schedules, is not followed by another look at whether the stop still applies, which
  the comment at 6299 promises. With `SlowCancel = TRUE` (two processes, one
  fault, one command) TLC finds `KnownProcess` violated: a process launched meanwhile
  loses registration and descriptor. The launch notices (3270) and kills it, unless
  the supervisor dies first.
* `InodesReused` (`daemon-supervisor-ownership.ts:388`). The comment at 378 calls the
  inode of the guard directory its identity, but a file system may give a new
  directory the inode of the one just removed (ext4 does). With `InodesReused = TRUE` (two
  supervisors, one shutdown, one stall) TLC finds `OneOwner` violated: the stalled
  process takes its successor's guard for its own.

Met while modelling, with no run of their own: a lease release that cannot lock the guard
of a dead process is swallowed and leaves the lease behind (`session-lease.ts:57`);
`mergeFreshJobs` drops the cancel or pause of a passive job when a dying worker's
record is fresher; a root session that closes during a shutdown drops its
registration without a recomputation of the wakes (5865); a stop that loses the
connection in its request (6361) or fails to archive (6424) leaves a tombstoned
registration until a create reclaims it; a launch replaces a tombstone (3215); a request
that timed out is never acknowledged (`daemon-client.ts:407`).

`MutationGate` also shows what protects the rest: a mutation that waited at the
fence does not read the restart phase again, yet no restart can capture beside it
(`RestartCapturesAlone`), because waiters of one fence are admitted in
the same run of the queue, before a restart behind it can pass its drain.

## Proofs

`tlapm <module>Proofs.tla` checks, for every value of the constants that satisfies the
module's named assumption (`JournalAssumption` and so on: bounds are natural numbers, sets
that are counted or listed are finite), every safety invariant and every action property of
the passing runs, and both refinements:

| module | inductive invariant | theorems | assumed beyond that |
|---|---|---|---|
| `CommandJournalProofs` | `JournalInv` | `TypeOK` | nothing |
| | | `AtMostOnce`, `FileMatchesMemory`, `DispatchedIsRemembered`, implements `CommandContract` | `MaxTornWrites = 0` (finding 1) |
| `SessionLeaseProofs` | `LeaseInv` | `TypeOK` | nothing |
| | | `SingleWriter`, `HeldLeaseOnDisk`, `RoundsSuffice` | `Stalls = FALSE`, `Races = FALSE` (finding 2) |
| `MutationGateProofs` | `GateInv` | `TypeOK`, `OneFence`, `NoLostWakeup`, `RestartCapturesAlone`, `NoEvictionDuringRestart` | nothing |
| `EventCatchupProofs` | `CatchupInv`, `CursorInv` | `TypeOK`, `NoSilentGap`, implements `EventFeed` | nothing |
| `ScheduledJobsProofs` | `JobsInv` | `TypeOK`, `NoReplay`, `Coalesced`, `ActiveWillRun`, `EndedIsQuiet` | nothing |
| `WorkerLifecycleProofs` | `LifeInv` | `TypeOK`, `OneProcess` | nothing |
| | | `KnownProcess` | `SlowCancel = FALSE` |
| `SupervisorOwnershipProofs` | `OwnershipInv` | `TypeOK` | nothing |
| | | `OneOwner`, `ShutdownHoldsOff` | `InodesReused = FALSE` |

Where a property needs one of these assumptions, TLC finds it violated without (Findings).
They exclude something of the environment (a torn write, a stall, an inode used again) or
of its timing (a worker launched during one particular await); none changes what the code does. What
the models themselves assume is said above, module by module.

**Journal.** `AtMostOnce` is not inductive: one has to know that a
command whose request may still arrive (`MayArrive`: not settled, or a copy is on
the wire) is known to the file once it was dispatched, and that a handler, a reply or
an acknowledgement excludes the copy of the request on its connection
(`SocketInv`). `KnowledgeInv` says the first, together with `entries = Load`, for which
lemmas about `Load` are needed: appending a receipt, a result or an
acknowledgement changes the entry of its command as the map does and no other
entry; compaction changes none. `TruthInv` adds that a stored, travelling or
reported response is the handler's, which is what the refinement needs.

**Lease.** The process in the critical section is the creator of the
guard, and a guard looks stale only if its creator is gone (`GuardInv`); so a guard is
broken only over a dead process, and only one process is critical. A holder is
alive, and its lease is on disk, so that whoever inspects it sees it alive
(`SeenAlive` never errs in that direction); only a lease nobody holds is reclaimed
(`RoundInv`), and the round after a reclaim succeeds.

**Gate.** An actor is in the microtask queue, among the waiters of the latch, or among
those of the held fence, exactly as long as its place says so, and once (`QueueInv`,
`WaiterInv`, `FenceInv`); the latch counts the commands in flight (`CountInv`). The order of
the queue does the rest: commands that passed an open fence hop in step (`Lockstep`), and
while one of them hops, or a restart prepares, nobody waits at a fence and no worker is
being stopped (`PhaseInv`). So when a restart has drained, whoever was admitted beside
it is in front of it (`DrainedLast`) and has run before it captures (`RestartInv`).

**Event streaming.** What the supervisor knows of, by an event it heard or the snapshot
it caches (`Knows`), only grows. An event that it does not know is on its way or owed by
a catch-up of the worker whose end is still to come (`Covered`), and such an end either
finds its own snapshot current or a later catch-up is owed. The order of frames
(`Ordered`, `Matched`, `Alternating`) says that a snapshot's end finds its generation open.
On the client's side, everything in a socket or a view is known to the supervisor
(`Shown`), a snapshot under way holds all that was shown before it (`Complete`), and
a client with nothing queued has, or will read, every event that is not on its way
(`Follows`); the last two except for clients that are `missed`. `LoadInv` balances requests,
responses and loads, and says that whoever waits for a load is in exactly one. For the
refinement, a view also stays behind its cursor (`CursorInv`); a step of `EventCatchup`
is then a `Follow`, `Resync`, `Join` or `Drift` when a client reads, a `Leave` when a load
ends or a socket breaks, an `Emit`, or a stutter.

**Scheduled jobs.** The workers follow each other (`WorkerInv`), so the claims in the file
belong to the one that serves the session (`ClaimInv`). A tick that was queued or delivered
is below the next one of its job, in the file and in an edit that is about to be
merged (`Passed`, `RunInv`), and it is queued at one place. What an edit has read of a job is
still there, or a dispatch has ended since, with a newer `updatedAt` (`EditInv`): a stale
merge can neither bring a tick back nor revive a job.

**Worker recovery.** Only the process that the registration names writes (`PidInv`); a
launch begins when that one is dead (`LaunchInv`), a stop ends with a process it has seen
gone (`StopInv`), and the descriptor never names another one than the
registration (`FileInv`). A worker whose registration is reclaimed has no owner, and is
not launched again (`ReclaimInv`).

**Ownership.** A process under its own guard that has decided to become the owner meets
no owner (`DecidesAlone`) and no admission in force (`DecidesInPeace`), for its writes
land only while the guard is its own; one that was taken over notices at its last check.

The proofs changed the models in a few places. `NextTry` of `WorkerLifecycle` had
overlapping CASE arms, of which TLC takes the first and TLA+ any; they
exclude each other now. `ScheduledJobs` assumes its set of jobs finite, without which
`SetToSeq` means nothing. `MutationGate` and `EventCatchup` had definitions the provers
cannot read, which say the same in another form.

Only model-checked: all liveness properties (`EveryRequestSettles`, `CallsEnd`,
`EveryoneEnds`, `CatchesUp`, `DueIsClaimed`, `TimedOutStopEnds`), since fairness and ENABLED
are out of the prover's reach. The properties that findings refute have no theorem, of course.

## Not modelled

Prompt admission, the two-phase update restart, the startup fence, input pauses, the
roster and direct peers are in the plan. The agent session and the agent loop are
twelve thousand lines of sequential session logic of which only the interfaces to the daemon
appear here. Kernel and REPL, the RLM ledger, the OpenAI bridge and the credential
file have disciplines of their own and are left for later. Model providers, the catalog
process, terminal and web interfaces and the vendored extension hold no
state that the daemon depends on. `PROJECT.json` lists each with its reason, and names the
hazards that no property covers.

## Plan

1. Proofs: for `CommandJournal` and `SessionLease`, what still holds with torn writes,
   stalls and races (at most one dispatch per torn line, the lease on disk names
   a process that acquired it); for `EventCatchup`, what a
   client that is `missed` may still rely on.
2. `UpdateRestart`: the two-phase checkpoint of the workers behind `CaptureEnds`, with a
   client that goes away after the preparation.
3. The startup fence beside `SupervisorOwnership`, composed with `CommandJournal` through
   `Retire` and `Restart`.
4. `PromptAdmission`, the agent loop's queues, and the RLM ledger.
