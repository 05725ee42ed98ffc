----------------------------- MODULE MutationGate -----------------------------
(***************************************************************************)
(* Who may run next to whom in the daemon supervisor: mutating commands    *)
(* (DaemonSupervisor.handleLine), evictions of idle workers under the      *)
(* eviction fence (withEvictionFence), and the preparation of an update    *)
(* restart (prepareUpdateRestart), all counted by one MutationDrainLatch.  *)
(*                                                                         *)
(* The supervisor is one JavaScript thread.  A macro-step is an event (a   *)
(* line, a worker's response, a timer) and runs only when the microtask    *)
(* queue is empty; a micro-step runs the continuation at the head of that  *)
(* queue up to its next await.  The pc of an actor names the await it is   *)
(* parked at or the continuation it has in the queue.                      *)
(***************************************************************************)
EXTENDS Naturals, Sequences, FiniteSets

CONSTANTS
  Mutations,   \* mutating commands that the fence and a restart hold off
  Aborts,      \* commands of UPDATE_RESTART_DRAIN_COMMANDS
  Restarts,    \* prepare_update_restart commands
  Sweeps,      \* idle-eviction sweeps
  Detaches     \* empty-session evictions on the last detach

Commands == Mutations \cup Aborts \cup Restarts
Evictors == Sweeps \cup Detaches
Actors   == Commands \cup Evictors

ASSUME GateAssumption ==
  /\ IsFiniteSet(Actors)
  /\ "none" \notin Actors
  /\ Commands \cap Evictors = {}
  /\ Sweeps \cap Detaches = {}
  /\ Mutations \cap Aborts = {}
  /\ Restarts \cap (Mutations \cup Aborts) = {}

VARIABLES
  phase,         \* updateRestartPhase, "none" for undefined
  fence,         \* idleEvictionFence: the evictor that created it, or "none"
  fenceWaiters,  \* who awaits the fence an evictor created, in order
  active,        \* MutationDrainLatch.active
  latchWaiters,  \* MutationDrainLatch.waiters
  jobs,          \* the microtask queue
  pc

gateVars == <<phase, fence, fenceWaiters, active, latchWaiters, jobs, pc>>

\* What assertServingCurrentOwnership takes, awaits that are already settled.
Hops == [fenceOpen |-> "owned", owned |-> "serving", serving |-> "admitting"]

Parked   == {"fenced", "waiting", "draining"}
Queued   == DOMAIN Hops \cup {"admitting", "woken", "acquired", "recheck", "drained"}
Working  == {"running", "capturing", "refreshing", "stopping"}
Holding  == {"acquired", "draining", "recheck", "drained", "refreshing", "stopping"}

TypeOK ==
  /\ phase \in {"none", "draining", "fencing", "prepared"}
  /\ fence \in Evictors \cup {"none"}
  /\ fenceWaiters \in [Evictors -> Seq(Actors)]
  /\ active \in 0..Cardinality(Commands)
  /\ latchWaiters \in Seq(Actors)
  /\ jobs \in Seq(Actors)
  /\ pc \in [Actors -> {"idle", "refused", "done"} \cup Parked \cup Queued \cup Working]
  /\ \A a \in Actors : pc[a] \in Queued <=> \E i \in DOMAIN jobs : jobs[i] = a

Init ==
  /\ phase = "none"
  /\ fence = "none"
  /\ fenceWaiters = [e \in Evictors |-> <<>>]
  /\ active = 0
  /\ latchWaiters = <<>>
  /\ jobs = <<>>
  /\ pc = [a \in Actors |-> "idle"]

-------------------------------------------------------------------------------
(* Events and microtasks *)

Event(a, at) == jobs = <<>> /\ pc[a] = at
Job(a, at)   == jobs # <<>> /\ Head(jobs) = a /\ pc[a] = at
Others       == IF jobs = <<>> THEN <<>> ELSE Tail(jobs)

GoTo(a, s) == pc' = [pc EXCEPT ![a] = s]

\* What is in the queue behind the running job, and then a's next continuation.
Continue(a, s) == jobs' = Append(Others, a) /\ GoTo(a, s)

-------------------------------------------------------------------------------
(* MutationDrainLatch *)

Remaining(a) == IF a \in Evictors THEN 0 ELSE 1

\* waitForDrain's loop, with n mutations in flight.
WaitForDrain(a, n) ==
  IF n > Remaining(a)
  THEN /\ latchWaiters' = Append(latchWaiters, a)
       /\ jobs' = Others
       /\ GoTo(a, "draining")
  ELSE /\ Continue(a, "drained")
       /\ UNCHANGED latchWaiters

Listed(s) == {s[i] : i \in DOMAIN s}

\* Mutant of EndAs: waiters are resolved once nothing is in flight.
EndAtZero(c, s, waiters) ==
  /\ active' = active - 1
  /\ IF active = 1
     THEN /\ latchWaiters' = <<>>
          /\ jobs' = waiters
          /\ pc' = [a \in Actors |-> CASE a = c -> s
                                       [] a \in Listed(waiters) -> "recheck"
                                       [] OTHER -> pc[a]]
     ELSE /\ latchWaiters' = waiters
          /\ jobs' = <<>>
          /\ GoTo(c, s)

\* end() in c's event, with these waiters: each of them checks the count again.
EndAs(c, s, waiters) ==
  /\ active' = active - 1
  /\ latchWaiters' = <<>>
  /\ jobs' = waiters
  /\ pc' = [a \in Actors |-> CASE a = c -> s
                               [] a \in Listed(waiters) -> "recheck"
                               [] OTHER -> pc[a]]

\* A resolved waiter runs.
Recheck(a) ==
  /\ Job(a, "recheck")
  /\ WaitForDrain(a, active)
  /\ UNCHANGED <<phase, fence, fenceWaiters, active>>

-------------------------------------------------------------------------------
(* handleLine *)

\* Mutant of HeldOff: the fencing phase is forgotten.
HeldOffUnlessFencing(c) ==
  IF phase = "draining" THEN c \notin Aborts ELSE phase = "prepared"

HeldOff(c) == IF phase = "draining" THEN c \notin Aborts ELSE phase # "none"

Refuse(c) ==
  /\ Event(c, "idle")
  /\ HeldOff(c)
  /\ GoTo(c, "refused")
  /\ UNCHANGED <<phase, fence, fenceWaiters, active, latchWaiters, jobs>>

WaitAtFence(c) ==
  /\ Event(c, "idle")
  /\ ~HeldOff(c)
  /\ c \notin Aborts
  /\ fence # "none"
  /\ fenceWaiters' = [fenceWaiters EXCEPT ![fence] = Append(@, c)]
  /\ GoTo(c, "fenced")
  /\ UNCHANGED <<phase, fence, active, latchWaiters, jobs>>

\* Mutant of Admit: begin() is forgotten and end() is not.
AdmitUncounted(c) ==
  /\ IF c \in Restarts /\ phase = "none"
     THEN phase' = "draining" /\ WaitForDrain(c, active + 1)
     ELSE jobs' = Others /\ GoTo(c, "running") /\ UNCHANGED <<phase, latchWaiters>>
  /\ UNCHANGED <<fence, fenceWaiters, active>>

\* begin(), and handleCommand up to its first await.  prepareUpdateRestart throws
\* when another one has set the phase; the handler then answers with the error.
Admit(c) ==
  /\ active' = active + 1
  /\ IF c \in Restarts /\ phase = "none"
     THEN phase' = "draining" /\ WaitForDrain(c, active + 1)
     ELSE jobs' = Others /\ GoTo(c, "running") /\ UNCHANGED <<phase, latchWaiters>>
  /\ UNCHANGED <<fence, fenceWaiters>>

AdmitAtOnce(c) ==
  /\ Event(c, "idle")
  /\ ~HeldOff(c)
  /\ c \in Aborts \/ fence = "none"
  /\ Admit(c)

\* The fence is open: ownership is asserted once more, the phase is not read again.
PassFence(c) ==
  /\ pc[c] \in DOMAIN Hops
  /\ Job(c, pc[c])
  /\ Continue(c, Hops[pc[c]])
  /\ UNCHANGED <<phase, fence, fenceWaiters, active, latchWaiters>>

AdmitAfterFence(c) == Job(c, "admitting") /\ Admit(c)

EndCommand(c) ==
  /\ Event(c, "running")
  /\ EndAs(c, "done", latchWaiters)
  /\ UNCHANGED <<phase, fence, fenceWaiters>>

-------------------------------------------------------------------------------
(* prepareUpdateRestart *)

\* The first drain ends the draining phase, the second one waits for the commands
\* admitted meanwhile.
RestartDrained(p) ==
  /\ Job(p, "drained")
  /\ IF phase = "draining"
     THEN phase' = "fencing" /\ WaitForDrain(p, active)
     ELSE jobs' = Others /\ GoTo(p, "capturing") /\ UNCHANGED <<phase, latchWaiters>>
  /\ UNCHANGED <<fence, fenceWaiters, active>>

\* prepareUpdateRestartFenced returns its manifest, or throws.
CaptureEnds(p) ==
  /\ Event(p, "capturing")
  /\ phase' \in {"prepared", "none"}
  /\ EndAs(p, "done", latchWaiters)
  /\ UNCHANGED <<fence, fenceWaiters>>

Unlisted(s, a) ==
  IF a \in Listed(s)
  THEN LET i == CHOOSE i \in DOMAIN s : s[i] = a
       IN SubSeq(s, 1, i - 1) \o SubSeq(s, i + 1, Len(s))
  ELSE s

RestartTimesOut(p) ==
  /\ Event(p, "draining")
  /\ phase' = "none"
  /\ EndAs(p, "done", Unlisted(latchWaiters, p))
  /\ UNCHANGED <<fence, fenceWaiters>>

-------------------------------------------------------------------------------
(* withEvictionFence and what it protects *)

\* Mutant of AcquireFence: the slot is taken without looking again.
OverwriteFence(e) ==
  /\ fence' = e
  /\ Continue(e, "acquired")
  /\ UNCHANGED fenceWaiters

\* acquireIdleEvictionFence: while a fence is held, await it; then take the slot.
AcquireFence(e) ==
  IF fence = "none"
  THEN /\ fence' = e
       /\ Continue(e, "acquired")
       /\ UNCHANGED fenceWaiters
  ELSE /\ fenceWaiters' = [fenceWaiters EXCEPT ![fence] = Append(@, e)]
       /\ jobs' = Others
       /\ GoTo(e, "waiting")
       /\ UNCHANGED fence

\* Mutant of ReleaseFence: the slot is cleared and the promise is not resolved.
ReleaseSlotOnly(e) ==
  /\ fence' = IF fence = e THEN "none" ELSE fence
  /\ jobs' = Others
  /\ GoTo(e, "idle")
  /\ UNCHANGED fenceWaiters

ReleaseFence(e) ==
  /\ fence' = IF fence = e THEN "none" ELSE fence
  /\ fenceWaiters' = [fenceWaiters EXCEPT ![e] = <<>>]
  /\ jobs' = Others \o fenceWaiters[e]
  /\ pc' = [a \in Actors |-> CASE a = e -> "idle"
                               [] a \in Listed(fenceWaiters[e]) ->
                                    IF a \in Evictors THEN "woken" ELSE "fenceOpen"
                               [] OTHER -> pc[a]]

\* The last check before withEvictionFence.
StartEviction(e) ==
  /\ Event(e, "idle")
  /\ phase = "none"
  /\ AcquireFence(e)
  /\ UNCHANGED <<phase, active, latchWaiters>>

Woken(e) ==
  /\ Job(e, "woken")
  /\ AcquireFence(e)
  /\ UNCHANGED <<phase, active, latchWaiters>>

Acquired(e) ==
  /\ Job(e, "acquired")
  /\ WaitForDrain(e, active)
  /\ UNCHANGED <<phase, fence, fenceWaiters, active>>

EvictionTimesOut(e) ==
  /\ Event(e, "draining")
  /\ latchWaiters' = Unlisted(latchWaiters, e)
  /\ ReleaseFence(e)
  /\ UNCHANGED <<phase, active>>

\* The worker's summaries are asked for again; a sweep first looks at the phase.
Decide(e) ==
  /\ Job(e, "drained")
  /\ IF e \in Sweeps /\ phase # "none"
     THEN ReleaseFence(e)
     ELSE jobs' = Others /\ GoTo(e, "refreshing") /\ UNCHANGED <<fence, fenceWaiters>>
  /\ UNCHANGED <<phase, active, latchWaiters>>

\* Mutant of StopWorker: the phase is not read after the refresh.
StopWorkerAnyway(e) ==
  /\ Event(e, "refreshing")
  /\ GoTo(e, "stopping")
  /\ UNCHANGED <<phase, fence, fenceWaiters, active, latchWaiters, jobs>>

\* The refreshed summaries still allow it.
StopWorker(e) ==
  /\ Event(e, "refreshing")
  /\ phase = "none"
  /\ GoTo(e, "stopping")
  /\ UNCHANGED <<phase, fence, fenceWaiters, active, latchWaiters, jobs>>

\* They do not, the refresh failed, or the worker is gone.
EndEviction(e) ==
  /\ Event(e, "refreshing") \/ Event(e, "stopping")
  /\ ReleaseFence(e)
  /\ UNCHANGED <<phase, active, latchWaiters>>

-------------------------------------------------------------------------------
Arrive(c) == Refuse(c) \/ WaitAtFence(c) \/ AdmitAtOnce(c)

Microtask ==
  \/ \E a \in Actors : Recheck(a)
  \/ \E c \in Commands : PassFence(c) \/ AdmitAfterFence(c)
  \/ \E p \in Restarts : RestartDrained(p)
  \/ \E e \in Evictors : Woken(e) \/ Acquired(e) \/ Decide(e)

\* An answer or a timer that comes for certain.
CommandEvent(c)  == EndCommand(c) \/ (c \in Restarts /\ (CaptureEnds(c) \/ RestartTimesOut(c)))
EvictionEvent(e) == EvictionTimesOut(e) \/ StopWorker(e) \/ EndEviction(e)

Next ==
  \/ Microtask
  \/ \E c \in Commands : Arrive(c) \/ CommandEvent(c)
  \/ \E e \in Evictors : StartEviction(e) \/ EvictionEvent(e)

Spec == Init /\ [][Next]_gateVars

\* The microtask queue is run to its end; handlers answer, workers answer or their
\* requests time out, drains time out, and the event loop serves every ready event.
FairSpec ==
  /\ Spec
  /\ WF_gateVars(Microtask)
  /\ \A c \in Commands : SF_gateVars(CommandEvent(c))
  /\ \A e \in Evictors : SF_gateVars(EvictionEvent(e))

-------------------------------------------------------------------------------
(* Properties *)

\* acquireIdleEvictionFence: one evictor at a time is past the fence, and the slot
\* names it, so that new mutations wait for it.
OneFence == \A e \in Evictors : pc[e] \in Holding => fence = e

\* Whoever is parked in waitForDrain waits for a mutation that is still in flight.
NoLostWakeup == \A a \in Actors : pc[a] = "draining" => active > Remaining(a)

\* The update manifest is captured, and kept, while no other mutation runs: also none
\* that read the phase before the restart began and waited at the fence since.
RestartCapturesAlone ==
  (phase = "prepared" \/ \E p \in Restarts : pc[p] = "capturing")
    => \A c \in Commands : pc[c] \notin {"running", "admitting"} \cup DOMAIN Hops

\* No idle worker is being stopped while its checkpoint may be captured.
NoEvictionDuringRestart == phase # "none" => \A e \in Evictors : pc[e] # "stopping"

\* Held-off commands and evictions get their turn and end.
EveryoneEnds ==
  /\ \A c \in Commands : pc[c] # "idle" ~> pc[c] \in {"done", "refused"}
  /\ \A e \in Evictors : pc[e] # "idle" ~> pc[e] = "idle"

\* "Runs a passivation decision under the eviction fence after draining admitted
\* mutations": nothing reaches the worker between the re-read of its state and the stop.
EvictionDecidesAlone ==
  \A e \in Evictors, c \in Mutations :
    ~ (pc[e] \in {"refreshing", "stopping"} /\ pc[c] = "running")
===============================================================================
