------------------------ MODULE WorkerLifecycleProofs ------------------------
(***************************************************************************)
(* Proofs about WorkerLifecycle for every number of processes, faults,     *)
(* restarts and commands.  The argument: a process is replaced only when   *)
(* the one the registration names is dead, the descriptor on disk never    *)
(* names another process than the registration, and whoever removes it has *)
(* seen the process gone and can trust that it stays so.                   *)
(***************************************************************************)
EXTENDS WorkerLifecycle, FiniteSetTheorems, TLAPS

USE LifecycleAssumption DEF Pids, NoClient

ProcStates == {"none", "gated", "live", "closing", "dead"}
Files      == [pid : Pids, stop : BOOLEAN, archive : BOOLEAN]
Registrations ==
  [present : BOOLEAN, pid : Pids, stop : BOOLEAN, archive : BOOLEAN, intent : BOOLEAN,
   client : {NoClient} \cup Pids, life : {"ready", "starting", "recovering", "failed"},
   ctx : BOOLEAN, rounds : 0..MaxRounds + 1]
StopCalls == [at : {"off", "forwarding", "asking", "waiting", "archiving", "cancelling"},
              entry : {0} \cup Pids]
Finalizers == [at : {"off", "watching", "retrying"}, pid : {0} \cup Pids, bumped : BOOLEAN]
Recoveries ==
  [at : {"off", "delay", "connecting", "subscribing", "marking", "spawning", "gating",
         "starting", "creating", "cleanup"},
   try : 0..Tries, park : BOOLEAN, bumped : BOOLEAN, resume : BOOLEAN, child : {0} \cup Pids]
Budgets == [faults : 0..MaxFaults, restarts : 0..MaxRestarts, commands : 0..MaxCommands]

\* The type invariant with its record types named.
Typed ==
  /\ file = NoFile \/ file \in Files
  /\ reg \in Registrations
  /\ owned \in BOOLEAN
  /\ proc \in [Pids -> ProcStates]
  /\ stops \in [Stoppers -> StopCalls]
  /\ finalizer \in Finalizers
  /\ recovery \in Recoveries
  /\ deferred \in BOOLEAN /\ reclaim \in BOOLEAN
  /\ up \in {"adopting", "settling", "serving"}
  /\ spent \in Budgets

LEMMA TypedIsTypeOK == Typed => TypeOK
BY DEF Typed, TypeOK, Files, Registrations, ProcStates, StopCalls, Finalizers, Recoveries, Budgets

-------------------------------------------------------------------------------
(* What the helpers of the actions do *)

\* What becomes of the processes in a step that starts none: some end.
Ages(q) ==
  /\ q \in [Pids -> ProcStates]
  /\ \A i \in Pids : \/ q[i] = proc[i]
                     \/ proc[i] = "live" /\ q[i] = "closing"
                     \/ proc[i] \in {"gated", "live", "closing"} /\ q[i] = "dead"

LEMMA AgesUnchanged == ASSUME Typed PROVE Ages(proc)
BY DEF Typed, Ages

LEMMA TerminatedAges == ASSUME Typed, NEW i \in Pids PROVE Ages(Terminated(i))
BY DEF Typed, Ages, Terminated, ProcStates

LEMMA KilledAges == ASSUME Typed, NEW i \in {0} \cup Pids PROVE Ages(Killed(i))
BY DEF Typed, Ages, Killed, Alive, ProcStates

LEMMA PersistWrites ==
  ASSUME NEW r \in Registrations, Persist(r)
  PROVE  file' \in Files /\ file'.pid = r.pid
BY DEF Persist, Files, Registrations

LEMMA NoFileIsNone == NoFile \notin Files
BY DEF NoFile, Files

LEMMA CommandTyped == ASSUME Typed, Command PROVE spent' \in Budgets
BY DEF Typed, Command, Budgets

LEMMA FaultTyped == ASSUME Typed, Fault PROVE spent' \in Budgets
BY DEF Typed, Fault, Budgets

LEMMA TombstonedTyped ==
  ASSUME NEW r \in Registrations, NEW archive \in BOOLEAN
  PROVE  Tombstoned(r, archive) \in Registrations /\ Tombstoned(r, archive).pid = r.pid
BY DEF Tombstoned, Registrations

\* The provers cannot mix literals of several kinds in one EXCEPT: where a proof
\* hides the definition of a number or a string, this is the reason.
LEMMA RescindedTyped ==
  ASSUME NEW r \in Registrations
  PROVE  Rescinded(r) \in Registrations /\ Rescinded(r).pid = r.pid
<1> DEFINE n == 0
           life == "recovering"
           new == [r EXCEPT !.intent = FALSE, !.stop = FALSE, !.archive = FALSE, !.life = life,
                            !.rounds = n]
<1>1. n \in 0..MaxRounds + 1 /\ life \in {"ready", "starting", "recovering", "failed"}
  OBVIOUS
<1> HIDE DEF n, life
<1>2. new \in Registrations /\ new.pid = r.pid
  BY <1>1 DEF Registrations
<1> QED
  BY <1>2 DEF n, life, Rescinded

LEMMA NoRecoveryTyped == NoRecovery \in Recoveries /\ NoRecovery.at = "off"
BY DEF NoRecovery, Recoveries

LEMMA DelayTyped ==
  ASSUME NEW n \in 0..Tries
  PROVE  /\ [NoRecovery EXCEPT !.at = "delay", !.try = n] \in Recoveries
         /\ [NoRecovery EXCEPT !.at = "delay", !.try = n].at = "delay"
BY NoRecoveryTyped DEF Recoveries

\* A recovery that has not begun to replace the process.
Probing == {"off", "delay", "connecting", "subscribing"}

LEMMA RecoverEffect ==
  ASSUME Typed, NEW r \in Registrations, Recover(r)
  PROVE  /\ reg' \in Registrations /\ reg'.pid = r.pid
         /\ file' \in Files /\ file'.pid = r.pid
         /\ recovery' \in Recoveries
         /\ recovery' = recovery \/ recovery'.at \in Probing
<1> DEFINE parks  == ~Cancelled(r) /\ owned /\ ~r.ctx /\ ~Alive(r.pid)
           parked == IF parks THEN [r EXCEPT !.life = "failed"] ELSE r
           begun  == [NoRecovery EXCEPT !.at = "delay", !.try = 1]
<1>1. parked \in Registrations /\ parked.pid = r.pid
  BY DEF Registrations
<1>2. reg' = parked /\ Persist(parked) /\ (recovery' = recovery \/ recovery' = begun)
  BY DEF Recover
<1>3. begun \in Recoveries /\ begun.at = "delay"
  <2> DEFINE n == 1
  <2>1. n \in 0..Tries
    OBVIOUS
  <2> HIDE DEF n
  <2>2. /\ [NoRecovery EXCEPT !.at = "delay", !.try = n] \in Recoveries
        /\ [NoRecovery EXCEPT !.at = "delay", !.try = n].at = "delay"
    BY <2>1, DelayTyped
  <2> QED
    BY <2>2 DEF n
<1>4. recovery \in Recoveries
  BY DEF Typed
<1> QED
  BY <1>1, <1>2, <1>3, <1>4, PersistWrites DEF Probing

LEMMA NextTryEffect ==
  ASSUME Typed, NEW r \in Registrations, NEW probing \in BOOLEAN, NextTry(r, probing)
  PROVE  /\ reg' \in Registrations /\ reg'.pid = r.pid
         /\ file' = file \/ (file' \in Files /\ file'.pid = r.pid)
         /\ recovery' \in Recoveries /\ recovery'.at \in Probing
         /\ deferred' \in BOOLEAN
<1> DEFINE failed == [r EXCEPT !.client = NoClient]
           later  == Last /\ probing /\ ~deferred
<1>2. CASE Cancelled(r)
  BY <1>2, NoRecoveryTyped DEF Typed, NextTry, Probing
<1>3. CASE ~Cancelled(r)
  <2> DEFINE n    == failed.rounds + 1
             most == MaxRounds + 1
             one  == "recovering"
             two  == "failed"
  <2>1. /\ failed \in Registrations /\ failed.pid = r.pid /\ failed.rounds = r.rounds
        /\ [failed EXCEPT !.life = "failed"] \in Registrations
        /\ [failed EXCEPT !.life = "failed"].pid = r.pid
        /\ [failed EXCEPT !.life = "recovering"] \in Registrations
        /\ [failed EXCEPT !.life = "recovering"].pid = r.pid
    BY DEF Registrations
  <2>2. /\ r.rounds < MaxRounds => n \in 0..MaxRounds + 1
        /\ most \in 0..MaxRounds + 1
        /\ one \in {"ready", "starting", "recovering", "failed"}
        /\ two \in {"ready", "starting", "recovering", "failed"}
    BY <2>1 DEF Registrations
  <2> HIDE DEF n, most, one, two, failed
  <2>3. r.rounds < MaxRounds =>
          /\ [failed EXCEPT !.life = one, !.rounds = n] \in Registrations
          /\ [failed EXCEPT !.life = one, !.rounds = n].pid = failed.pid
    BY <2>1, <2>2 DEF Registrations
  <2>4. /\ [failed EXCEPT !.life = two, !.rounds = most] \in Registrations
        /\ [failed EXCEPT !.life = two, !.rounds = most].pid = failed.pid
    BY <2>1, <2>2 DEF Registrations
  <2>5. reg' = CASE ~Last -> failed
                 [] Last /\ ~probing -> [failed EXCEPT !.life = "failed"]
                 [] later /\ r.rounds >= MaxRounds -> [failed EXCEPT !.life = two, !.rounds = most]
                 [] later /\ r.rounds < MaxRounds -> [failed EXCEPT !.life = one, !.rounds = n]
                 [] OTHER -> [failed EXCEPT !.life = "recovering"]
    BY <1>3, Zenon DEF NextTry, failed, n, most, one, two
  <2>6. reg' \in Registrations /\ reg'.pid = r.pid
    <3> DEFINE A == [failed EXCEPT !.life = "failed"]
               B == [failed EXCEPT !.life = two, !.rounds = most]
               C == [failed EXCEPT !.life = one, !.rounds = n]
               D == [failed EXCEPT !.life = "recovering"]
    <3>1. reg' = CASE ~Last -> failed [] Last /\ ~probing -> A [] later /\ r.rounds >= MaxRounds -> B
                   [] later /\ r.rounds < MaxRounds -> C [] OTHER -> D
      BY <2>5
    <3>2. /\ A \in Registrations /\ A.pid = r.pid
          /\ B \in Registrations /\ B.pid = r.pid
          /\ r.rounds < MaxRounds => C \in Registrations /\ C.pid = r.pid
          /\ D \in Registrations /\ D.pid = r.pid
      BY <2>1, <2>3, <2>4
    <3> HIDE DEF A, B, C, D
    <3> QED
      BY <3>1, <3>2, <2>1
  <2>7. file' \in Files /\ file'.pid = r.pid
    BY <1>3, <2>6, PersistWrites DEF NextTry
  <2>8. recovery' \in Recoveries /\ recovery'.at \in Probing
    <3> DEFINE next == recovery.try + 1
    <3>1. ~Last => next \in 0..Tries
      BY DEF Typed, Last, Recoveries
    <3>2. recovery' = IF Last THEN NoRecovery ELSE [NoRecovery EXCEPT !.at = "delay", !.try = next]
      BY <1>3 DEF NextTry
    <3> HIDE DEF next
    <3> QED
      BY <3>1, <3>2, DelayTyped, NoRecoveryTyped DEF Probing
  <2>9. deferred' = (deferred \/ (later /\ r.rounds < MaxRounds))
    BY <1>3 DEF NextTry
  <2> QED
    BY <2>6, <2>7, <2>8, <2>9
<1> QED
  BY <1>2, <1>3
-------------------------------------------------------------------------------
(* The inductive invariant *)

\* Only the process that the registration names writes the session.
PidInv ==
  /\ proc[reg.pid] # "none"
  /\ \A i \in Pids : proc[i] \in {"live", "closing"} => i = reg.pid

\* The descriptor names the registered process, and is there as long as that process
\* may go on.  A slow cancellation of schedules is the one thing that can remove it.
FileInv ==
  /\ file # NoFile => file.pid = reg.pid
  /\ ~SlowCancel /\ proc[reg.pid] \in {"gated", "live"} => file # NoFile

\* A launch begins when the process before it is dead.
LaunchInv ==
  /\ recovery.at \in {"marking", "spawning"} => proc[reg.pid] = "dead"
  /\ recovery.at = "spawning" =>
       recovery.child \in Pids /\ proc[recovery.child] \in {"gated", "dead"}
  /\ recovery.at = "gating" => recovery.child = reg.pid

\* A stop ends with a process that it has seen gone.
StopInv ==
  \A s \in Stoppers :
    /\ stops[s].at \in {"asking", "waiting"} =>
         stops[s].entry \in Pids /\ proc[stops[s].entry] # "none"
    /\ stops[s].at \in {"archiving", "cancelling"} =>
         /\ stops[s].entry \in Pids /\ proc[stops[s].entry] = "dead"
    /\ ~SlowCancel /\ stops[s].at = "cancelling" => stops[s].entry = reg.pid

\* A worker whose registration is reclaimed is not launched again, for it has no owner.
ReclaimInv ==
  reclaim => /\ proc[reg.pid] = "dead" /\ ~owned
             /\ recovery.at \in Probing \cup {"marking"}
             /\ recovery.at = "marking" => recovery.park

LifeInv == Typed /\ PidInv /\ FileInv /\ LaunchInv /\ StopInv /\ ReclaimInv

-------------------------------------------------------------------------------
(* A step that neither starts nor registers a process *)

StopMoves(q) ==
  \A s \in Stoppers :
    \/ q[s] = stops[s]
    \/ q[s].at \in {"off", "forwarding"}
    \/ q[s].at \in {"asking", "waiting"} /\ q[s].entry = reg.pid
    \/ /\ q[s].at = "waiting"
       /\ stops[s].at = "asking" /\ q[s].entry = stops[s].entry
    \/ /\ q[s].at \in {"archiving", "cancelling"}
       /\ q[s].entry = reg.pid /\ proc[reg.pid] = "dead"

SameTask ==
  /\ recovery'.at = recovery.at /\ recovery'.child = recovery.child
  /\ recovery'.park = recovery.park

RecoveryMoves ==
  \/ SameTask
  \/ recovery'.at \in Probing
  \/ /\ recovery'.at \in {"starting", "creating", "cleanup"}
     /\ recovery.at \in {"gating", "starting", "creating"}
  \/ recovery'.at = "marking" /\ ~Alive(reg.pid) /\ (~owned => recovery'.park)

FileMoves ==
  \/ file' = file
  \/ file' # NoFile /\ file'.pid = reg.pid
  \/ file' = NoFile /\ (SlowCancel \/ proc'[reg.pid] \notin {"gated", "live"})

Settles ==
  /\ reg'.pid = reg.pid /\ Ages(proc') /\ FileMoves
  /\ RecoveryMoves /\ StopMoves(stops')
  /\ owned' => owned
  /\ reclaim' => reclaim \/ (~Alive(reg.pid) /\ ~owned /\ recovery'.at \in Probing)

LEMMA SettlesKeepsInv ==
  ASSUME LifeInv, Typed', Settles
  PROVE  LifeInv'
<1> USE DEF LifeInv, Settles
<1>1. reg.pid \in Pids /\ reg'.pid = reg.pid
  BY DEF Typed, Registrations
<1>2. \A i \in Pids : /\ proc[i] # "none" => proc'[i] # "none"
                      /\ proc[i] = "dead" => proc'[i] = "dead"
                      /\ proc'[i] \in {"live", "closing"} => proc[i] \in {"live", "closing"}
                      /\ proc'[i] \in {"gated", "live"} => proc[i] = proc'[i]
                      /\ proc[i] \in {"gated", "dead"} => proc'[i] \in {"gated", "dead"}
  BY DEF Ages
<1>3. PidInv'
  BY <1>1, <1>2 DEF PidInv
<1>4. FileInv'
  BY <1>1, <1>2 DEF FileInv, FileMoves
<1>5. ~Alive(reg.pid) => proc[reg.pid] = "dead"
  BY <1>1 DEF Alive, PidInv, Typed, ProcStates
<1>6. LaunchInv'
  BY <1>1, <1>2, <1>5 DEF LaunchInv, RecoveryMoves, SameTask, Probing
<1>7. StopInv'
  <2> SUFFICES ASSUME NEW s \in Stoppers
               PROVE  /\ stops'[s].at \in {"asking", "waiting"} =>
                           stops'[s].entry \in Pids /\ proc'[stops'[s].entry] # "none"
                      /\ stops'[s].at \in {"archiving", "cancelling"} =>
                           stops'[s].entry \in Pids /\ proc'[stops'[s].entry] = "dead"
                      /\ ~SlowCancel /\ stops'[s].at = "cancelling" =>
                           stops'[s].entry = reg'.pid
    BY DEF StopInv
  <2> QED
    BY <1>1, <1>2 DEF StopInv, StopMoves, PidInv
<1>8. ReclaimInv'
  BY <1>1, <1>2, <1>5 DEF ReclaimInv, RecoveryMoves, SameTask, Probing, Typed
<1> QED
  BY <1>3, <1>4, <1>6, <1>7, <1>8

-------------------------------------------------------------------------------
(* The beginning of a stop, and what leaves most of the state alone *)

LEMMA StopTyped ==
  ASSUME Typed, NEW s \in Stoppers, NEW call \in StopCalls
  PROVE  /\ [stops EXCEPT ![s] = call] \in [Stoppers -> StopCalls]
         /\ [stops EXCEPT ![s] = call][s] = call
         /\ \A t \in Stoppers : t # s => [stops EXCEPT ![s] = call][t] = stops[t]
BY DEF Typed

LEMMA StopWorkerEffect ==
  ASSUME Typed, NEW s \in Stoppers, NEW r \in Registrations, r.pid = reg.pid,
         NEW archive \in BOOLEAN, StopWorker(s, r, archive)
  PROVE  /\ reg' \in Registrations /\ reg'.pid = reg.pid
         /\ file' \in Files /\ file'.pid = reg.pid
         /\ stops' \in [Stoppers -> StopCalls] /\ StopMoves(stops')
         /\ Ages(proc')
         /\ recovery' \in Recoveries /\ SameTask
<1> DEFINE stone == Tombstoned(r, archive)
           call  == [at |-> IF r.client # NoClient THEN "asking" ELSE "waiting", entry |-> r.pid]
<1>1. stone \in Registrations /\ stone.pid = r.pid
  BY TombstonedTyped
<1>2. /\ reg' = stone /\ Persist(stone)
      /\ stops' = [stops EXCEPT ![s] = call]
      /\ proc' = proc \/ proc' = Terminated(r.pid)
      /\ recovery' = [recovery EXCEPT !.bumped = TRUE]
  BY DEF StopWorker
<1>3. reg' \in Registrations /\ reg'.pid = reg.pid /\ file' \in Files /\ file'.pid = reg.pid
  BY <1>1, <1>2, PersistWrites
<1>4. call \in StopCalls /\ call.at \in {"asking", "waiting"} /\ call.entry = reg.pid
  BY DEF StopCalls, Registrations
<1>5. stops' \in [Stoppers -> StopCalls] /\ StopMoves(stops')
  <2> HIDE DEF call
  <2> QED
    BY <1>2, <1>4, StopTyped DEF StopMoves
<1>6. Ages(proc')
  BY <1>2, AgesUnchanged, TerminatedAges DEF Typed, Registrations
<1>7. recovery' \in Recoveries /\ SameTask
  BY <1>2 DEF Typed, Recoveries, SameTask
<1> QED
  BY <1>3, <1>5, <1>6, <1>7

LEMMA StopEnds ==
  ASSUME Typed, NEW s \in Stoppers, Ended(s)
  PROVE  stops' \in [Stoppers -> StopCalls] /\ StopMoves(stops')
<1>1. NoStop \in StopCalls /\ NoStop.at = "off"
  BY DEF NoStop, StopCalls
<1> QED
  BY <1>1, StopTyped DEF Ended, StopMoves

LEMMA StopAdvances ==
  ASSUME Typed, NEW s \in Stoppers,
         NEW place \in {"forwarding", "waiting", "archiving", "cancelling"},
         \/ place = "forwarding"
         \/ place = "waiting" /\ stops[s].at = "asking"
         \/ place \in {"archiving", "cancelling"} /\ stops[s].entry = reg.pid /\ proc[reg.pid] = "dead",
         stops' = [stops EXCEPT ![s].at = place]
  PROVE  stops' \in [Stoppers -> StopCalls] /\ StopMoves(stops')
<1> DEFINE call == [stops[s] EXCEPT !.at = place]
<1>1. call \in StopCalls /\ call.at = place /\ call.entry = stops[s].entry
  BY DEF Typed, StopCalls
<1>2. stops' = [stops EXCEPT ![s] = call]
  OBVIOUS
<1> HIDE DEF call
<1> QED
  BY <1>1, <1>2, StopTyped DEF StopMoves

LEMMA FinalizerBumped ==
  ASSUME Typed PROVE [finalizer EXCEPT !.bumped = TRUE] \in Finalizers
BY DEF Typed, Finalizers

LEMMA IdleTyped == Idle \in Finalizers
BY DEF Idle, Finalizers
-------------------------------------------------------------------------------
(* Recovery *)

Settled == Typed' /\ Settles

LEMMA AttemptSettles == ASSUME LifeInv, Attempt PROVE Settled
<1>1. /\ NoRecovery \in Recoveries /\ NoRecovery.at = "off"
      /\ [recovery EXCEPT !.at = "connecting"] \in Recoveries
      /\ [recovery EXCEPT !.at = "connecting"].at = "connecting"
      /\ \A park \in BOOLEAN :
           /\ [recovery EXCEPT !.at = "marking", !.park = park] \in Recoveries
           /\ [recovery EXCEPT !.at = "marking", !.park = park].at = "marking"
           /\ [recovery EXCEPT !.at = "marking", !.park = park].park = park
  BY NoRecoveryTyped DEF LifeInv, Typed, Recoveries
<1>2. CASE Cancelled(reg)
  <2>1. recovery' = NoRecovery
    BY <1>2 DEF Attempt
  <2> QED
    BY <1>1, <2>1, AgesUnchanged
    DEF Attempt, LifeInv, Typed, Settled, Settles, FileMoves, RecoveryMoves, StopMoves, Probing
<1>3. CASE ~Cancelled(reg) /\ Alive(reg.pid)
  <2>1. recovery' = [recovery EXCEPT !.at = "connecting"]
    BY <1>3 DEF Attempt
  <2> QED
    BY <1>1, <2>1, AgesUnchanged
    DEF Attempt, LifeInv, Typed, Settled, Settles, FileMoves, RecoveryMoves, StopMoves, Probing
<1>4. CASE ~Cancelled(reg) /\ ~Alive(reg.pid)
  <2> DEFINE park == ~(owned /\ reg.ctx)
  <2>1. recovery' = [recovery EXCEPT !.at = "marking", !.park = park]
    BY <1>4 DEF Attempt
  <2>2. park \in BOOLEAN /\ (~owned => park)
    OBVIOUS
  <2> HIDE DEF park
  <2>3. recovery' \in Recoveries /\ recovery'.at = "marking" /\ recovery'.park = park
    BY <1>1, <2>1, <2>2
  <2> QED
    BY <1>4, <2>2, <2>3, AgesUnchanged
    DEF Attempt, LifeInv, Typed, Settled, Settles, FileMoves, RecoveryMoves, StopMoves
<1> QED
  BY <1>2, <1>3, <1>4

LEMMA ConnectSettles == ASSUME LifeInv, Connect PROVE Settled
<1>1. reg' \in Registrations /\ reg'.pid = reg.pid
  BY DEF Connect, LifeInv, Typed, Registrations
<1>2. recovery' \in Recoveries /\ recovery'.at = "subscribing"
  BY DEF Connect, LifeInv, Typed, Recoveries
<1> QED
  BY <1>1, <1>2, AgesUnchanged
  DEF Connect, LifeInv, Typed, Settled, Settles, FileMoves, RecoveryMoves, StopMoves, Probing

LEMMA ReconnectedSettles == ASSUME LifeInv, Reconnected PROVE Settled
<1>1. CASE Cancelled(reg)
  BY <1>1, AgesUnchanged, NoRecoveryTyped
  DEF Reconnected, LifeInv, Typed, Settled, Settles, FileMoves, RecoveryMoves, StopMoves, Probing
<1>2. CASE ~Cancelled(reg)
  <2> DEFINE n    == 0
             life == "ready"
             new  == [reg EXCEPT !.life = life, !.rounds = n]
  <2>1. n \in 0..MaxRounds + 1 /\ life \in {"ready", "starting", "recovering", "failed"}
    OBVIOUS
  <2>2. reg' = new /\ Persist(reg')
    BY <1>2 DEF Reconnected
  <2> HIDE DEF n, life
  <2>3. new \in Registrations /\ new.pid = reg.pid
    BY <2>1 DEF Registrations, LifeInv, Typed
  <2>4. reg' \in Registrations /\ reg'.pid = reg.pid
    BY <2>2, <2>3
  <2>5. file' \in Files /\ file'.pid = reg.pid
    BY <2>2, <2>4, PersistWrites
  <2> QED
    BY <2>4, <2>5, AgesUnchanged, NoRecoveryTyped, NoFileIsNone
    DEF Reconnected, LifeInv, Typed, Settled, Settles, FileMoves, RecoveryMoves, StopMoves, Probing
<1> QED
  BY <1>1, <1>2

LEMMA ProbeFailsSettles == ASSUME LifeInv, ProbeFails PROVE Settled
<1> DEFINE r == [reg EXCEPT !.client = NoClient]
<1>1. r \in Registrations /\ r.pid = reg.pid
  BY DEF LifeInv, Typed, Registrations
<1>2. PICK probing \in BOOLEAN : NextTry(r, probing)
  BY DEF ProbeFails
<1>3. spent' \in Budgets
  BY FaultTyped DEF ProbeFails, LifeInv, Typed
<1> HIDE DEF r
<1>4. /\ reg' \in Registrations /\ reg'.pid = reg.pid
      /\ file' = file \/ (file' \in Files /\ file'.pid = reg.pid)
      /\ recovery' \in Recoveries /\ recovery'.at \in Probing
      /\ deferred' \in BOOLEAN
  BY <1>1, <1>2, NextTryEffect DEF LifeInv
<1> QED
  BY <1>3, <1>4, AgesUnchanged, NoFileIsNone
  DEF ProbeFails, LifeInv, Typed, Settled, Settles, FileMoves, RecoveryMoves, StopMoves

LEMMA SpawnFailsSettles == ASSUME LifeInv, SpawnFails PROVE Settled
<1>1. reg \in Registrations /\ NextTry(reg, FALSE)
  BY DEF SpawnFails, LifeInv, Typed
<1>2. spent' \in Budgets
  BY FaultTyped DEF SpawnFails, LifeInv
<1>3. /\ reg' \in Registrations /\ reg'.pid = reg.pid
      /\ file' = file \/ (file' \in Files /\ file'.pid = reg.pid)
      /\ recovery' \in Recoveries /\ recovery'.at \in Probing
      /\ deferred' \in BOOLEAN
  BY <1>1, NextTryEffect DEF LifeInv
<1>4. Ages(proc')
  BY KilledAges DEF SpawnFails, LifeInv, Typed, Recoveries
<1> QED
  BY <1>2, <1>3, <1>4, NoFileIsNone
  DEF SpawnFails, LifeInv, Typed, Settled, Settles, FileMoves, RecoveryMoves, StopMoves, Ages

LEMMA ConnectLaunchedSettles == ASSUME LifeInv, ConnectLaunched PROVE Settled
<1>1. reg' \in Registrations /\ reg'.pid = reg.pid
  BY DEF ConnectLaunched, LifeInv, Typed, Registrations
<1>2. recovery' \in Recoveries /\ recovery'.at = "creating"
  BY DEF ConnectLaunched, LifeInv, Typed, Recoveries
<1> QED
  BY <1>1, <1>2, AgesUnchanged
  DEF ConnectLaunched, LifeInv, Typed, Settled, Settles, FileMoves, RecoveryMoves, StopMoves

LEMMA LaunchedSettles == ASSUME LifeInv, Launched PROVE Settled
<1> DEFINE n    == 0
           life == "ready"
           ctx  == reg.ctx /\ owned
           new  == [reg EXCEPT !.life = life, !.rounds = n, !.ctx = ctx]
<1>1. n \in 0..MaxRounds + 1 /\ life \in {"ready", "starting", "recovering", "failed"} /\ ctx \in BOOLEAN
  OBVIOUS
<1>2. reg' = new /\ Persist(reg')
  BY DEF Launched
<1> HIDE DEF n, life, ctx
<1>3. new \in Registrations /\ new.pid = reg.pid
  BY <1>1 DEF Registrations, LifeInv, Typed
<1>4. reg' \in Registrations /\ reg'.pid = reg.pid
  BY <1>2, <1>3
<1>5. file' \in Files /\ file'.pid = reg.pid
  BY <1>2, <1>4, PersistWrites
<1> QED
  BY <1>4, <1>5, AgesUnchanged, NoRecoveryTyped, NoFileIsNone
  DEF Launched, LifeInv, Typed, Settled, Settles, FileMoves, RecoveryMoves, StopMoves, Probing

LEMMA LaunchFailsSettles == ASSUME LifeInv, LaunchFails PROVE Settled
<1> DEFINE call == [at |-> IF reg.client # NoClient THEN "asking" ELSE "waiting", entry |-> reg.pid]
<1>1. reg' \in Registrations /\ reg'.pid = reg.pid
  BY DEF LaunchFails, LifeInv, Typed, Registrations
<1>2. file' \in Files /\ file'.pid = reg.pid
  BY <1>1, PersistWrites DEF LaunchFails
<1>3. recovery' \in Recoveries /\ recovery'.at = "cleanup"
  BY DEF LaunchFails, LifeInv, Typed, Recoveries
<1>4. stops' \in [Stoppers -> StopCalls] /\ StopMoves(stops')
  <2>1. call \in StopCalls /\ call.at \in {"asking", "waiting"} /\ call.entry = reg.pid
    BY DEF StopCalls, Registrations, LifeInv, Typed
  <2>2. stops' = [stops EXCEPT !["launch"] = call]
    BY DEF LaunchFails
  <2>3. "launch" \in Stoppers
    BY DEF Stoppers
  <2> HIDE DEF call
  <2> QED
    BY <2>1, <2>2, <2>3, StopTyped DEF StopMoves, LifeInv
<1>5. Ages(proc')
  BY AgesUnchanged, TerminatedAges DEF LaunchFails, LifeInv, Typed, Registrations
<1>6. spent' \in Budgets
  BY FaultTyped DEF LaunchFails, LifeInv, Typed
<1> QED
  BY <1>1, <1>2, <1>3, <1>4, <1>5, <1>6, NoFileIsNone
  DEF LaunchFails, LifeInv, Typed, Settled, Settles, FileMoves, RecoveryMoves, Ages, ReclaimInv, Probing

LEMMA LaunchCleanedSettles == ASSUME LifeInv, LaunchCleaned PROVE Settled
<1> DEFINE resumed == recovery.resume /\ ~reg.stop /\ ~recovery.bumped
           r == IF resumed
                THEN [reg EXCEPT !.intent = FALSE, !.life = "recovering", !.present = TRUE]
                ELSE reg
<1>1. r \in Registrations /\ r.pid = reg.pid
  BY DEF LifeInv, Typed, Registrations
<1>2. NextTry(r, FALSE)
  BY DEF LaunchCleaned
<1> HIDE DEF r
<1>3. /\ reg' \in Registrations /\ reg'.pid = reg.pid
      /\ file' = file \/ (file' \in Files /\ file'.pid = reg.pid)
      /\ recovery' \in Recoveries /\ recovery'.at \in Probing
      /\ deferred' \in BOOLEAN
  BY <1>1, <1>2, NextTryEffect DEF LifeInv
<1> QED
  BY <1>3, AgesUnchanged, NoFileIsNone
  DEF LaunchCleaned, LifeInv, Typed, Settled, Settles, FileMoves, RecoveryMoves, StopMoves

LEMMA ResumeSettles == ASSUME LifeInv, Resume PROVE Settled
<1> DEFINE r == [reg EXCEPT !.life = "recovering"]
<1>1. CASE ~Candidate(reg)
  BY <1>1, AgesUnchanged
  DEF Resume, LifeInv, Typed, Settled, Settles, FileMoves, RecoveryMoves, SameTask, StopMoves
<1>2. CASE Candidate(reg)
  <2>1. r \in Registrations /\ r.pid = reg.pid
    BY DEF LifeInv, Typed, Registrations
  <2>2. Recover(r)
    BY <1>2 DEF Resume
  <2> HIDE DEF r
  <2>3. /\ reg' \in Registrations /\ reg'.pid = reg.pid
        /\ file' \in Files /\ file'.pid = reg.pid
        /\ recovery' \in Recoveries
        /\ recovery' = recovery \/ recovery'.at \in Probing
    BY <2>1, <2>2, RecoverEffect DEF LifeInv
  <2> QED
    BY <1>2, <2>3, AgesUnchanged, NoFileIsNone
    DEF Resume, LifeInv, Typed, Settled, Settles, FileMoves, RecoveryMoves, SameTask, StopMoves
<1> QED
  BY <1>1, <1>2
-------------------------------------------------------------------------------
(* The steps of a launch that start and register the process *)

LEMMA MarkedKeepsInv == ASSUME LifeInv, Marked PROVE LifeInv'
<1>1. CASE Cancelled(reg)
  <2>1. Settled
    BY <1>1, AgesUnchanged, NoRecoveryTyped
    DEF Marked, LifeInv, Typed, Settled, Settles, FileMoves, RecoveryMoves, StopMoves, Probing
  <2> QED
    BY <2>1, SettlesKeepsInv DEF Settled
<1>2. CASE ~Cancelled(reg) /\ recovery.park
  <2>1. reg' = [reg EXCEPT !.life = "failed"] /\ Persist(reg')
    BY <1>2 DEF Marked
  <2>2. reg' \in Registrations /\ reg'.pid = reg.pid
    BY <2>1 DEF LifeInv, Typed, Registrations
  <2>3. file' \in Files /\ file'.pid = reg.pid
    BY <2>1, <2>2, PersistWrites
  <2>4. Settled
    BY <1>2, <2>2, <2>3, AgesUnchanged, NoRecoveryTyped, NoFileIsNone
    DEF Marked, LifeInv, Typed, Settled, Settles, FileMoves, RecoveryMoves, StopMoves, Probing
  <2> QED
    BY <2>4, SettlesKeepsInv DEF Settled
<1>3. CASE ~Cancelled(reg) /\ ~recovery.park
  <2>1. PICK i \in Pids :
          /\ proc[i] = "none"
          /\ proc' = [proc EXCEPT ![i] = "gated"]
          /\ recovery' = [recovery EXCEPT !.at = "spawning", !.bumped = FALSE, !.child = i]
    BY <1>3 DEF Marked
  <2>2. /\ UNCHANGED <<file, reg, owned, stops, finalizer, deferred, reclaim, up, spent>>
        /\ recovery.at = "marking"
    BY <1>3 DEF Marked
  <2>3. recovery' \in Recoveries /\ recovery'.at = "spawning" /\ recovery'.child = i
    <3> DEFINE at == "spawning"
    <3>1. recovery' = [recovery EXCEPT !.at = at, !.bumped = FALSE, !.child = i]
      BY <2>1
    <3>2. at \in {"spawning"}
      OBVIOUS
    <3> HIDE DEF at
    <3> QED
      BY <3>1, <3>2 DEF LifeInv, Typed, Recoveries
  <2>4. /\ proc' \in [Pids -> ProcStates] /\ proc'[i] = "gated"
        /\ \A j \in Pids : j # i => proc'[j] = proc[j]
    BY <2>1 DEF LifeInv, Typed, ProcStates
  <2>5. reg.pid \in Pids /\ reg.pid # i /\ proc'[reg.pid] = "dead"
    BY <2>1, <2>2, <2>4 DEF LifeInv, Typed, Registrations, LaunchInv
  <2>6. ~reclaim
    BY <1>3, <2>2 DEF LifeInv, ReclaimInv
  <2>7. Typed'
    BY <2>2, <2>3, <2>4 DEF LifeInv, Typed
  <2>8. PidInv' /\ FileInv' /\ LaunchInv' /\ ReclaimInv'
    BY <2>2, <2>3, <2>4, <2>5, <2>6 DEF LifeInv, PidInv, FileInv, LaunchInv, ReclaimInv
  <2>9. StopInv'
    BY <2>1, <2>2, <2>4 DEF LifeInv, StopInv
  <2> QED
    BY <2>7, <2>8, <2>9 DEF LifeInv
<1> QED
  BY <1>1, <1>2, <1>3 DEF LifeInv, Typed, Recoveries

LEMMA AssignKeepsInv == ASSUME LifeInv, Assign PROVE LifeInv'
<1> DEFINE child == recovery.child
           life  == "starting"
           new   == [reg EXCEPT !.present = TRUE, !.pid = child, !.stop = FALSE, !.archive = FALSE,
                                !.intent = FALSE, !.life = life]
<1>1. /\ reg' = new /\ Persist(reg')
      /\ recovery' = [recovery EXCEPT !.at = "gating"]
      /\ UNCHANGED <<owned, proc, stops, finalizer, deferred, reclaim, up, spent>>
      /\ recovery.at = "spawning" /\ Undisturbed
  BY DEF Assign
<1>2. child \in Pids /\ proc[child] = "gated" /\ proc[reg.pid] = "dead"
  BY <1>1 DEF Assign, Alive, LifeInv, LaunchInv
<1>3. life \in {"ready", "starting", "recovering", "failed"}
  OBVIOUS
<1>4. recovery' \in Recoveries /\ recovery'.at = "gating" /\ recovery'.child = child
  BY <1>1 DEF LifeInv, Typed, Recoveries
<1> HIDE DEF child, life
<1>5. new \in Registrations /\ new.pid = child
  BY <1>2, <1>3 DEF LifeInv, Typed, Registrations
<1>6. reg' \in Registrations /\ reg'.pid = child
  BY <1>1, <1>5
<1>7. file' \in Files /\ file'.pid = child
  BY <1>1, <1>6, PersistWrites
<1>8. ~reclaim
  BY <1>1 DEF LifeInv, ReclaimInv, Probing
<1>9. Typed'
  BY <1>1, <1>4, <1>6, <1>7 DEF LifeInv, Typed
<1>10. PidInv'
  BY <1>1, <1>2, <1>6 DEF LifeInv, PidInv
<1>11. FileInv' /\ LaunchInv' /\ ReclaimInv'
  BY <1>1, <1>2, <1>4, <1>6, <1>7, <1>8, NoFileIsNone DEF FileInv, LaunchInv, ReclaimInv
<1>12. StopInv'
  BY <1>1 DEF LifeInv, StopInv, Undisturbed
<1> QED
  BY <1>9, <1>10, <1>11, <1>12 DEF LifeInv

LEMMA OpenGateKeepsInv == ASSUME LifeInv, OpenGate PROVE LifeInv'
<1>1. /\ recovery.at = "gating" /\ proc[recovery.child] = "gated" /\ recovery.child = reg.pid
      /\ proc' = [proc EXCEPT ![reg.pid] = "live"]
      /\ recovery' = [recovery EXCEPT !.at = "starting"]
      /\ UNCHANGED <<file, reg, owned, stops, finalizer, deferred, reclaim, up, spent>>
  BY DEF OpenGate, LifeInv, LaunchInv
<1>2. reg.pid \in Pids /\ proc[reg.pid] = "gated"
  BY <1>1 DEF LifeInv, Typed, Registrations
<1>3. /\ proc' \in [Pids -> ProcStates] /\ proc'[reg.pid] = "live"
      /\ \A j \in Pids : j # reg.pid => proc'[j] = proc[j]
  BY <1>1, <1>2 DEF LifeInv, Typed, ProcStates
<1>4. recovery' \in Recoveries /\ recovery'.at = "starting"
  BY <1>1 DEF LifeInv, Typed, Recoveries
<1>5. Typed'
  BY <1>1, <1>3, <1>4 DEF LifeInv, Typed
<1>6. PidInv' /\ FileInv' /\ LaunchInv'
  BY <1>1, <1>2, <1>3, <1>4 DEF LifeInv, PidInv, FileInv, LaunchInv
<1>7. StopInv'
  BY <1>1, <1>2, <1>3 DEF LifeInv, StopInv
<1>8. ReclaimInv'
  BY <1>1 DEF LifeInv, ReclaimInv, Probing
<1> QED
  BY <1>5, <1>6, <1>7, <1>8 DEF LifeInv

-------------------------------------------------------------------------------
(* Stops *)

LEMMA KillSettles == ASSUME LifeInv, Kill PROVE Settled
<1>1. spent' \in Budgets
  BY CommandTyped DEF Kill, LifeInv
<1>2. CASE reg.client # NoClient /\ reg.life = "ready"
  <2>1. /\ reg' = Tombstoned(reg, TRUE) /\ Persist(reg')
        /\ stops' = [stops EXCEPT !["kill"].at = "forwarding"]
        /\ UNCHANGED <<proc, recovery, finalizer, owned, deferred, reclaim, up>>
    BY <1>2 DEF Kill
  <2>2. reg' \in Registrations /\ reg'.pid = reg.pid
    BY <2>1, TombstonedTyped DEF LifeInv, Typed
  <2>3. file' \in Files /\ file'.pid = reg.pid
    BY <2>1, <2>2, PersistWrites
  <2>4. stops' \in [Stoppers -> StopCalls] /\ StopMoves(stops')
    <3> DEFINE at == "forwarding"
    <3>1. stops' = [stops EXCEPT !["kill"].at = at] /\ at = "forwarding" /\ "kill" \in Stoppers
      BY <2>1 DEF Stoppers
    <3> HIDE DEF at
    <3> QED
      BY <3>1, StopAdvances DEF LifeInv
  <2> QED
    BY <1>1, <2>1, <2>2, <2>3, <2>4, AgesUnchanged, NoFileIsNone
    DEF LifeInv, Typed, Settled, Settles, FileMoves, RecoveryMoves, SameTask
<1>3. CASE ~(reg.client # NoClient /\ reg.life = "ready")
  <2>1. /\ StopWorker("kill", reg, TRUE)
        /\ finalizer' = [finalizer EXCEPT !.bumped = TRUE]
        /\ UNCHANGED <<owned, deferred, reclaim, up>>
    BY <1>3 DEF Kill
  <2>2. "kill" \in Stoppers /\ reg \in Registrations
    BY DEF Stoppers, LifeInv, Typed
  <2> QED
    BY <1>1, <2>1, <2>2, StopWorkerEffect, FinalizerBumped, NoFileIsNone
    DEF LifeInv, Typed, Settled, Settles, FileMoves, RecoveryMoves, Ages
<1> QED
  BY <1>2, <1>3

LEMMA KillForwardedSettles == ASSUME LifeInv, KillForwarded PROVE Settled
<1>1. /\ StopWorker("kill", reg, TRUE)
      /\ finalizer' = [finalizer EXCEPT !.bumped = TRUE]
      /\ UNCHANGED <<owned, deferred, reclaim, up, spent>>
  BY DEF KillForwarded
<1>2. "kill" \in Stoppers /\ reg \in Registrations
  BY DEF Stoppers, LifeInv, Typed
<1> QED
  BY <1>1, <1>2, StopWorkerEffect, FinalizerBumped, NoFileIsNone
  DEF LifeInv, Typed, Settled, Settles, FileMoves, RecoveryMoves, Ages

LEMMA EndWorkerSettles == ASSUME LifeInv, EndWorker PROVE Settled
<1>1. /\ StopWorker("timer", reg, FALSE)
      /\ finalizer' = [finalizer EXCEPT !.bumped = TRUE]
      /\ UNCHANGED <<owned, deferred, reclaim, up>>
  BY DEF EndWorker
<1>2. "timer" \in Stoppers /\ reg \in Registrations
  BY DEF Stoppers, LifeInv, Typed
<1>3. spent' \in Budgets
  BY CommandTyped DEF EndWorker, LifeInv
<1> QED
  BY <1>1, <1>2, <1>3, StopWorkerEffect, FinalizerBumped, NoFileIsNone
  DEF LifeInv, Typed, Settled, Settles, FileMoves, RecoveryMoves, Ages

LEMMA AskedSettles == ASSUME LifeInv, NEW s \in Stoppers, Asked(s) PROVE Settled
<1>1. /\ stops[s].at = "asking"
      /\ UNCHANGED <<file, owned, finalizer, recovery, deferred, reclaim, up, spent>>
  BY DEF Asked
<1>2. CASE reg.client = NoClient
  BY <1>1, <1>2, StopEnds, AgesUnchanged
  DEF Asked, LifeInv, Typed, Settled, Settles, FileMoves, RecoveryMoves, SameTask
<1>3. CASE reg.client # NoClient
  <2>1. reg' \in Registrations /\ reg'.pid = reg.pid
    BY <1>3 DEF Asked, LifeInv, Typed, Registrations
  <2>2. stops' \in [Stoppers -> StopCalls] /\ StopMoves(stops')
    <3> DEFINE at == "waiting"
    <3>1. stops' = [stops EXCEPT ![s].at = at] /\ at = "waiting"
      BY <1>3 DEF Asked
    <3> HIDE DEF at
    <3> QED
      BY <1>1, <3>1, StopAdvances DEF LifeInv
  <2>3. Ages(proc')
    BY <1>3, TerminatedAges DEF Asked, LifeInv, Typed, Registrations
  <2> QED
    BY <1>1, <2>1, <2>2, <2>3
    DEF LifeInv, Typed, Settled, Settles, FileMoves, RecoveryMoves, SameTask, Ages
<1> QED
  BY <1>2, <1>3

\* A stop that removes the registration has seen the registered process gone.
LEMMA FinishSettles ==
  ASSUME LifeInv, NEW s \in Stoppers, NEW settled \in BOOLEAN, Finish(s, settled),
         SlowCancel \/ proc[reg.pid] = "dead",
         UNCHANGED <<owned, proc, finalizer, recovery, deferred, reclaim, up>>, spent' \in Budgets
  PROVE  Settled
<1>1. reg' \in Registrations /\ reg'.pid = reg.pid
  BY DEF Finish, LifeInv, Typed, Registrations
<1>2. stops' \in [Stoppers -> StopCalls] /\ StopMoves(stops')
  BY StopEnds DEF Finish, LifeInv
<1>3. file' = NoFile \/ file' = file
  BY DEF Finish
<1> QED
  BY <1>1, <1>2, <1>3, AgesUnchanged
  DEF LifeInv, Typed, Settled, Settles, FileMoves, RecoveryMoves, SameTask

LEMMA StopGoesOn ==
  ASSUME LifeInv, NEW s \in Stoppers, NEW place \in {"archiving", "cancelling"},
         stops[s].entry = reg.pid, proc[reg.pid] = "dead",
         stops' = [stops EXCEPT ![s].at = place],
         UNCHANGED <<file, reg, owned, proc, finalizer, recovery, deferred, reclaim, up, spent>>
  PROVE  Settled
<1>1. stops' \in [Stoppers -> StopCalls] /\ StopMoves(stops')
  BY StopAdvances DEF LifeInv
<1> QED
  BY <1>1, AgesUnchanged
  DEF LifeInv, Typed, Settled, Settles, FileMoves, RecoveryMoves, SameTask

LEMMA StopGivesUp ==
  ASSUME LifeInv, NEW s \in Stoppers, Ended(s), spent' \in Budgets,
         UNCHANGED <<file, reg, owned, proc, finalizer, recovery, deferred, reclaim, up>>
  PROVE  Settled
BY StopEnds, AgesUnchanged
DEF LifeInv, Typed, Settled, Settles, FileMoves, RecoveryMoves, SameTask

LEMMA GoneSettles == ASSUME LifeInv, NEW s \in Stoppers, Gone(s) PROVE Settled
<1>1. /\ stops[s].at = "waiting" /\ ~Alive(stops[s].entry)
      /\ UNCHANGED <<owned, proc, finalizer, recovery, deferred, reclaim, up, spent>>
  BY DEF Gone
<1>2. spent' \in Budgets
  BY <1>1 DEF LifeInv, Typed
<1>3. ASSUME Applies(s)
      PROVE  stops[s].entry = reg.pid /\ proc[reg.pid] = "dead"
  BY <1>1, <1>3 DEF Applies, Alive, LifeInv, StopInv, Typed, ProcStates
<1>4. \/ Ended(s) /\ UNCHANGED <<file, reg>>
      \/ /\ Applies(s)
         /\ \E at \in {"archiving", "cancelling"} : stops' = [stops EXCEPT ![s].at = at]
         /\ UNCHANGED <<file, reg>>
      \/ Applies(s) /\ Finish(s, TRUE)
  BY DEF Gone
<1> QED
  BY <1>1, <1>2, <1>3, <1>4, StopGivesUp, StopGoesOn, FinishSettles

LEMMA ArchivedSettles == ASSUME LifeInv, NEW s \in Stoppers, Archived(s) PROVE Settled
<1>1. /\ stops[s].at = "archiving"
      /\ UNCHANGED <<owned, proc, finalizer, recovery, deferred, reclaim, up, spent>>
  BY DEF Archived
<1>2. spent' \in Budgets
  BY <1>1 DEF LifeInv, Typed
<1>3. ASSUME Applies(s)
      PROVE  stops[s].entry = reg.pid /\ proc[reg.pid] = "dead"
  BY <1>1, <1>3 DEF Applies, LifeInv, StopInv
<1>4. \/ Ended(s) /\ UNCHANGED <<file, reg>>
      \/ /\ Applies(s)
         /\ \E at \in {"archiving", "cancelling"} : stops' = [stops EXCEPT ![s].at = at]
         /\ UNCHANGED <<file, reg>>
      \/ Applies(s) /\ Finish(s, TRUE)
  BY DEF Archived
<1> QED
  BY <1>1, <1>2, <1>3, <1>4, StopGivesUp, StopGoesOn, FinishSettles

LEMMA ArchiveFailsSettles == ASSUME LifeInv, NEW s \in Stoppers, ArchiveFails(s) PROVE Settled
BY FaultTyped, StopGivesUp DEF ArchiveFails, LifeInv

LEMMA CancelJobsSettles == ASSUME LifeInv, NEW s \in Stoppers, CancelJobs(s) PROVE Settled
<1>1. /\ stops[s].at = "cancelling"
      /\ Finish(s, TRUE) \/ Finish(s, ~owned)
      /\ UNCHANGED <<owned, proc, finalizer, recovery, deferred, reclaim, up>>
  BY DEF CancelJobs
<1>2. spent' \in Budgets
  BY FaultTyped DEF CancelJobs, LifeInv, Typed
<1>3. SlowCancel \/ proc[reg.pid] = "dead"
  BY <1>1 DEF LifeInv, StopInv
<1>4. (~owned) \in BOOLEAN
  OBVIOUS
<1> QED
  BY <1>1, <1>2, <1>3, <1>4, FinishSettles

LEMMA ForceKillSettles == ASSUME LifeInv, NEW s \in Stoppers, ForceKill(s) PROVE Settled
<1>1. Ages(proc')
  BY KilledAges DEF ForceKill, LifeInv, Typed, StopCalls
<1> QED
  BY <1>1
  DEF ForceKill, LifeInv, Typed, Settled, Settles, FileMoves, RecoveryMoves, SameTask, StopMoves, Ages

LEMMA TimesOutSettles == ASSUME LifeInv, NEW s \in Stoppers, TimesOut(s) PROVE Settled
<1>1. reg' \in Registrations /\ reg'.pid = reg.pid
  BY DEF TimesOut, LifeInv, Typed, Registrations
<1>2. stops' \in [Stoppers -> StopCalls] /\ StopMoves(stops')
  BY StopEnds DEF TimesOut, LifeInv
<1>3. finalizer' \in Finalizers
  BY DEF TimesOut, LifeInv, Typed, Finalizers, Registrations
<1>4. spent' \in Budgets
  BY DEF TimesOut, LifeInv, Typed, Budgets
<1> QED
  BY <1>1, <1>2, <1>3, <1>4, AgesUnchanged
  DEF TimesOut, LifeInv, Typed, Settled, Settles, FileMoves, RecoveryMoves, SameTask
-------------------------------------------------------------------------------
(* The finalizer, the worker and its connection *)

LEMMA WatchSettles == ASSUME LifeInv, Watch PROVE Settled
<1>1. finalizer' \in Finalizers
  BY IdleTyped DEF Watch, LifeInv, Typed, Finalizers
<1>2. Ages(proc')
  BY AgesUnchanged, KilledAges DEF Watch, LifeInv, Typed, Finalizers
<1> QED
  BY <1>1, <1>2
  DEF Watch, LifeInv, Typed, Settled, Settles, FileMoves, RecoveryMoves, SameTask, StopMoves, Ages

LEMMA CleanSettles == ASSUME LifeInv, Clean PROVE Settled
<1>1. CASE Wanted
  <2>1. /\ StopWorker("final", reg, reg.archive)
        /\ UNCHANGED <<finalizer, owned, deferred, reclaim, up, spent>>
    BY <1>1 DEF Clean
  <2>2. "final" \in Stoppers /\ reg \in Registrations /\ reg.archive \in BOOLEAN
    BY DEF Stoppers, LifeInv, Typed, Registrations
  <2> QED
    BY <2>1, <2>2, StopWorkerEffect, NoFileIsNone
    DEF LifeInv, Typed, Settled, Settles, FileMoves, RecoveryMoves, Ages
<1>2. CASE ~Wanted
  BY <1>2, IdleTyped, AgesUnchanged
  DEF Clean, LifeInv, Typed, Settled, Settles, FileMoves, RecoveryMoves, SameTask, StopMoves
<1> QED
  BY <1>1, <1>2

LEMMA ExitSettles == ASSUME LifeInv, NEW i \in Pids, Exit(i) PROVE Settled
<1>1. Ages(proc')
  BY DEF Exit, Alive, LifeInv, Typed, Ages, ProcStates
<1>2. spent' \in Budgets
  BY FaultTyped DEF Exit, LifeInv, Typed
<1> QED
  BY <1>1, <1>2
  DEF Exit, LifeInv, Typed, Settled, Settles, FileMoves, RecoveryMoves, SameTask, StopMoves, Ages

LEMMA ShutsDownSettles == ASSUME LifeInv, NEW i \in Pids, ShutsDown(i) PROVE Settled
<1>1. Ages(proc')
  BY DEF ShutsDown, LifeInv, Typed, Ages, ProcStates
<1>2. spent' \in Budgets
  BY FaultTyped DEF ShutsDown, LifeInv, Typed
<1> QED
  BY <1>1, <1>2
  DEF ShutsDown, LifeInv, Typed, Settled, Settles, FileMoves, RecoveryMoves, SameTask, StopMoves, Ages

LEMMA RootClosesSettles == ASSUME LifeInv, RootCloses PROVE Settled
<1>1. /\ reg' = [reg EXCEPT !.intent = TRUE, !.present = reg.present /\ StopOwned]
      /\ file' = file \/ file' = NoFile
      /\ UNCHANGED <<owned, proc, stops, finalizer, recovery, deferred, reclaim, up, spent>>
  BY DEF RootCloses
<1>2. reg' \in Registrations /\ reg'.pid = reg.pid
  <2> DEFINE b == reg.present /\ StopOwned
  <2>1. b \in BOOLEAN
    OBVIOUS
  <2>2. reg' = [reg EXCEPT !.intent = TRUE, !.present = b]
    BY <1>1
  <2> HIDE DEF b
  <2> QED
    BY <2>1, <2>2 DEF LifeInv, Typed, Registrations
<1>3. proc[reg.pid] = "closing"
  BY DEF RootCloses, LifeInv, PidInv, Typed, Registrations
<1> QED
  BY <1>1, <1>2, <1>3, AgesUnchanged
  DEF LifeInv, Typed, Settled, Settles, FileMoves, RecoveryMoves, SameTask, StopMoves

\* A command or a lost connection that starts a recovery, or finds one under way.
LEMMA RecoverSettles ==
  ASSUME LifeInv, NEW r \in Registrations, r.pid = reg.pid, Recover(r), spent' \in Budgets,
         UNCHANGED <<owned, proc, stops, finalizer, deferred, reclaim>>,
         up' \in {"adopting", "settling", "serving"}
  PROVE  Settled
<1>1. /\ reg' \in Registrations /\ reg'.pid = reg.pid
      /\ file' \in Files /\ file'.pid = reg.pid
      /\ recovery' \in Recoveries
      /\ recovery' = recovery \/ recovery'.at \in Probing
  BY RecoverEffect DEF LifeInv
<1> QED
  BY <1>1, AgesUnchanged, NoFileIsNone
  DEF LifeInv, Typed, Settled, Settles, FileMoves, RecoveryMoves, SameTask, StopMoves

LEMMA CloseSettles == ASSUME LifeInv, Close PROVE Settled
<1> DEFINE r    == [reg EXCEPT !.client = NoClient]
           lost == [r EXCEPT !.life = "recovering"]
<1>1. r \in Registrations /\ r.pid = reg.pid /\ lost \in Registrations /\ lost.pid = reg.pid
  BY DEF LifeInv, Typed, Registrations
<1>2. spent' \in Budgets
  BY FaultTyped DEF Close, LifeInv, Typed
<1>3. /\ UNCHANGED <<owned, proc, stops, finalizer, deferred, reclaim, up>>
      /\ Recover(lost) \/ (reg' = r /\ UNCHANGED <<file, recovery>>)
  BY DEF Close
<1> HIDE DEF r, lost
<1>4. CASE Recover(lost)
  BY <1>1, <1>2, <1>3, <1>4, RecoverSettles DEF LifeInv, Typed
<1>5. CASE reg' = r /\ UNCHANGED <<file, recovery>>
  BY <1>1, <1>2, <1>3, <1>5, AgesUnchanged
  DEF LifeInv, Typed, Settled, Settles, FileMoves, RecoveryMoves, SameTask, StopMoves
<1> QED
  BY <1>3, <1>4, <1>5

-------------------------------------------------------------------------------
(* Commands and the supervisor *)

LEMMA AttachSettles == ASSUME LifeInv, Attach PROVE Settled
<1> DEFINE r == [reg EXCEPT !.ctx = TRUE]
<1>1. r \in Registrations /\ r.pid = reg.pid
  BY DEF LifeInv, Typed, Registrations
<1>2. spent' \in Budgets
  BY CommandTyped DEF Attach, LifeInv
<1>3. /\ UNCHANGED <<owned, proc, stops, finalizer, deferred, reclaim, up>>
      /\ Recover(Rescinded(r)) \/ (reg' = r /\ UNCHANGED <<file, recovery>>)
  BY DEF Attach
<1> HIDE DEF r
<1>4. CASE Recover(Rescinded(r))
  BY <1>1, <1>2, <1>3, <1>4, RescindedTyped, RecoverSettles DEF LifeInv, Typed
<1>5. CASE reg' = r /\ UNCHANGED <<file, recovery>>
  BY <1>1, <1>2, <1>3, <1>5, AgesUnchanged
  DEF LifeInv, Typed, Settled, Settles, FileMoves, RecoveryMoves, SameTask, StopMoves
<1> QED
  BY <1>3, <1>4, <1>5

LEMMA RetryWorkerSettles == ASSUME LifeInv, RetryWorker PROVE Settled
<1>1. spent' \in Budgets
  BY CommandTyped DEF RetryWorker, LifeInv
<1>2. Rescinded(reg) \in Registrations /\ Rescinded(reg).pid = reg.pid
  BY RescindedTyped DEF LifeInv, Typed
<1> QED
  BY <1>1, <1>2, RecoverSettles DEF RetryWorker, LifeInv, Typed

LEMMA PromoteSettles == ASSUME LifeInv, Promote PROVE Settled
<1>1. spent' \in Budgets
  BY CommandTyped DEF Promote, LifeInv
<1>2. reg' \in Registrations /\ reg'.pid = reg.pid
  BY DEF Promote, LifeInv, Typed, Registrations
<1>3. file' \in Files /\ file'.pid = reg.pid
  BY PersistWrites DEF Promote, LifeInv, Typed
<1> QED
  BY <1>1, <1>2, <1>3, AgesUnchanged, NoFileIsNone
  DEF Promote, LifeInv, Typed, Settled, Settles, FileMoves, RecoveryMoves, SameTask, StopMoves

LEMMA ReclaimSettles == ASSUME LifeInv, Reclaim PROVE Settled
<1>1. spent' \in Budgets
  BY CommandTyped DEF Reclaim, LifeInv
<1>2. recovery.at = "off" /\ UNCHANGED <<owned, deferred, up>>
  BY DEF Reclaim
<1>3. CASE /\ finalizer' = IF finalizer.at # "off" THEN finalizer
                           ELSE [at |-> "watching", pid |-> reg.pid, bumped |-> FALSE]
           /\ UNCHANGED <<file, reg, proc, stops, recovery, reclaim>>
  <2>1. finalizer' \in Finalizers
    BY <1>3 DEF LifeInv, Typed, Finalizers, Registrations
  <2> QED
    BY <1>1, <1>2, <1>3, <2>1, AgesUnchanged
    DEF LifeInv, Typed, Settled, Settles, FileMoves, RecoveryMoves, SameTask, StopMoves
<1>4. CASE /\ StopWorker("create", reg, FALSE)
           /\ finalizer' = [finalizer EXCEPT !.bumped = TRUE]
           /\ UNCHANGED reclaim
  <2>1. "create" \in Stoppers /\ reg \in Registrations
    BY DEF Stoppers, LifeInv, Typed
  <2> QED
    BY <1>1, <1>2, <1>4, <2>1, StopWorkerEffect, FinalizerBumped, NoFileIsNone
    DEF LifeInv, Typed, Settled, Settles, FileMoves, RecoveryMoves, Ages
<1>5. CASE /\ ~owned /\ ~Alive(reg.pid)
           /\ reg' = [reg EXCEPT !.intent = TRUE]
           /\ reclaim' = TRUE
           /\ UNCHANGED <<file, proc, stops, recovery, finalizer>>
  <2>1. reg' \in Registrations /\ reg'.pid = reg.pid
    BY <1>5 DEF LifeInv, Typed, Registrations
  <2> QED
    BY <1>1, <1>2, <1>5, <2>1, AgesUnchanged
    DEF LifeInv, Typed, Settled, Settles, FileMoves, RecoveryMoves, SameTask, StopMoves, Probing
<1> QED
  BY <1>3, <1>4, <1>5 DEF Reclaim

LEMMA ReclaimedSettles == ASSUME LifeInv, Reclaimed PROVE Settled
<1>1. proc[reg.pid] = "dead"
  BY DEF Reclaimed, LifeInv, ReclaimInv
<1>2. reg' \in Registrations /\ reg'.pid = reg.pid
  BY DEF Reclaimed, LifeInv, Typed, Registrations
<1> QED
  BY <1>1, <1>2, AgesUnchanged
  DEF Reclaimed, LifeInv, Typed, Settled, Settles, FileMoves, RecoveryMoves, SameTask, StopMoves

LEMMA RestartSettles == ASSUME LifeInv, Restart PROVE Settled
<1>1. reg' \in Registrations /\ reg'.pid = reg.pid
  <2>1. CASE file = NoFile
    BY <2>1 DEF Restart, LifeInv, Typed, Registrations
  <2>2. CASE file # NoFile
    <3>1. file \in Files /\ file.pid = reg.pid
      BY <2>2 DEF LifeInv, Typed, FileInv
    <3>2. reg' = [present |-> TRUE, pid |-> file.pid, stop |-> file.stop, archive |-> file.archive,
                  intent |-> file.stop, client |-> NoClient, life |-> "recovering", ctx |-> FALSE,
                  rounds |-> 0]
      BY <2>2 DEF Restart
    <3> QED
      BY <3>1, <3>2 DEF Files, Registrations
  <2> QED
    BY <2>1, <2>2
<1>2. Ages(proc')
  BY DEF Restart, LifeInv, Typed, Ages, ProcStates
<1>3. stops' \in [Stoppers -> StopCalls] /\ StopMoves(stops')
  BY DEF Restart, NoStop, StopCalls, StopMoves
<1>4. spent' \in Budgets
  <2>1. spent.restarts < MaxRestarts /\ spent' = [spent EXCEPT !.restarts = @ + 1]
    BY DEF Restart
  <2> QED
    BY <2>1 DEF LifeInv, Typed, Budgets
<1> QED
  BY <1>1, <1>2, <1>3, <1>4, NoRecoveryTyped, IdleTyped
  DEF Restart, LifeInv, Typed, Settled, Settles, FileMoves, RecoveryMoves, Probing, Ages

LEMMA AdoptSettles == ASSUME LifeInv, Adopt PROVE Settled
<1>1. up' = "settling" /\ UNCHANGED <<owned, finalizer, deferred, reclaim>>
  BY DEF Adopt
<1>2. CASE StopWorker("adopt", reg, FALSE) /\ UNCHANGED spent
  <2>1. "adopt" \in Stoppers /\ reg \in Registrations
    BY DEF Stoppers, LifeInv, Typed
  <2> QED
    BY <1>1, <1>2, <2>1, StopWorkerEffect, NoFileIsNone
    DEF LifeInv, Typed, Settled, Settles, FileMoves, RecoveryMoves, Ages
<1>3. CASE /\ reg' = [reg EXCEPT !.client = reg.pid, !.life = "ready"]
           /\ Persist(reg')
           /\ UNCHANGED <<recovery, spent, proc, stops>>
  <2> DEFINE life == "ready"
  <2>1. /\ reg' = [reg EXCEPT !.client = reg.pid, !.life = life]
        /\ life \in {"ready", "starting", "recovering", "failed"}
    BY <1>3
  <2> HIDE DEF life
  <2>2. reg' \in Registrations /\ reg'.pid = reg.pid
    BY <2>1 DEF LifeInv, Typed, Registrations
  <2>3. file' \in Files /\ file'.pid = reg.pid
    BY <1>3, <2>2, PersistWrites
  <2> QED
    BY <1>1, <1>3, <2>2, <2>3, AgesUnchanged, NoFileIsNone
    DEF LifeInv, Typed, Settled, Settles, FileMoves, RecoveryMoves, SameTask, StopMoves
<1>4. CASE /\ Recover(reg) /\ UNCHANGED <<proc, stops>>
           /\ Fault \/ UNCHANGED spent
  <2>1. spent' \in Budgets
    BY <1>4, FaultTyped DEF LifeInv, Typed
  <2> QED
    BY <1>1, <1>4, <2>1, RecoverSettles DEF LifeInv, Typed
<1> QED
  BY <1>2, <1>3, <1>4 DEF Adopt

LEMMA ServeSettles == ASSUME LifeInv, Serve PROVE Settled
<1>1. reg' \in Registrations /\ reg'.pid = reg.pid
  BY DEF Serve, LifeInv, Typed, Registrations
<1> QED
  BY <1>1, AgesUnchanged
  DEF Serve, LifeInv, Typed, Settled, Settles, FileMoves, RecoveryMoves, SameTask, StopMoves

-------------------------------------------------------------------------------
(* The theorems *)

LEMMA InitLifeInv == Init => LifeInv
<1> SUFFICES ASSUME Init PROVE LifeInv
  OBVIOUS
<1>1. 1 \in Pids
  OBVIOUS
<1>2. /\ reg \in Registrations /\ reg.pid = 1
      /\ file \in Files /\ file.pid = 1
      /\ stops \in [Stoppers -> StopCalls] /\ \A s \in Stoppers : stops[s].at = "off"
      /\ proc \in [Pids -> ProcStates] /\ proc[1] = "live"
      /\ \A i \in Pids : i # 1 => proc[i] = "none"
      /\ spent \in Budgets
  BY <1>1 DEF Init, Registrations, Files, NoStop, StopCalls, ProcStates, Budgets
<1>3. Typed
  BY <1>2, NoRecoveryTyped, IdleTyped DEF Init, Typed
<1>4. PidInv /\ FileInv /\ LaunchInv /\ StopInv /\ ReclaimInv
  BY <1>1, <1>2, NoRecoveryTyped, NoFileIsNone
  DEF Init, PidInv, FileInv, LaunchInv, StopInv, ReclaimInv
<1> QED
  BY <1>3, <1>4 DEF LifeInv

LEMMA StopStepSettles == ASSUME LifeInv, NEW s \in Stoppers, StopStep(s) PROVE Settled
BY AskedSettles, GoneSettles, ArchivedSettles, ArchiveFailsSettles, CancelJobsSettles,
   ForceKillSettles, TimesOutSettles
DEF StopStep

LEMMA NextKeepsLifeInv == LifeInv /\ [Next]_vars => LifeInv'
<1> SUFFICES ASSUME LifeInv, [Next]_vars PROVE LifeInv'
  OBVIOUS
<1>1. CASE RecoveryStep
  <2>1. Settled \/ Marked \/ Assign \/ OpenGate
    BY <1>1, AttemptSettles, ConnectSettles, ReconnectedSettles, ProbeFailsSettles, SpawnFailsSettles,
       ConnectLaunchedSettles, LaunchedSettles, LaunchFailsSettles, LaunchCleanedSettles
    DEF RecoveryStep
  <2> QED
    BY <2>1, SettlesKeepsInv, MarkedKeepsInv, AssignKeepsInv, OpenGateKeepsInv DEF Settled
<1>2. CASE Resume \/ Kill \/ KillForwarded \/ EndWorker \/ Watch \/ Clean \/ RootCloses \/ Close
  BY <1>2, ResumeSettles, KillSettles, KillForwardedSettles, EndWorkerSettles, WatchSettles,
     CleanSettles, RootClosesSettles, CloseSettles, SettlesKeepsInv
  DEF Settled
<1>3. CASE \E s \in Stoppers : StopStep(s)
  BY <1>3, StopStepSettles, SettlesKeepsInv DEF Settled
<1>4. CASE \E i \in Pids : Exit(i) \/ ShutsDown(i)
  <2>1. PICK i \in Pids : Exit(i) \/ ShutsDown(i)
    BY <1>4
  <2> QED
    BY <2>1, ExitSettles, ShutsDownSettles, SettlesKeepsInv DEF Settled
<1>5. CASE Attach \/ RetryWorker \/ Promote \/ Reclaim \/ Reclaimed \/ Restart \/ Adopt \/ Serve
  BY <1>5, AttachSettles, RetryWorkerSettles, PromoteSettles, ReclaimSettles, ReclaimedSettles,
     RestartSettles, AdoptSettles, ServeSettles, SettlesKeepsInv
  DEF Settled
<1>6. CASE UNCHANGED vars
  <2>1. UNCHANGED <<file, reg, owned, proc, stops, finalizer, recovery, deferred, reclaim, up, spent>>
    BY <1>6 DEF vars
  <2>2. Settled
    BY <2>1, AgesUnchanged
    DEF LifeInv, Typed, Settled, Settles, FileMoves, RecoveryMoves, SameTask, StopMoves
  <2> QED
    BY <2>2, SettlesKeepsInv DEF Settled
<1> QED
  BY <1>1, <1>2, <1>3, <1>4, <1>5, <1>6 DEF Next

\* The invariant of a worker's life holds for every number of processes, faults,
\* restarts and commands, and whether or not the cancellation of schedules is slow.
THEOREM LifeInvariant == Spec => []LifeInv
BY InitLifeInv, NextKeepsLifeInv, PTL DEF Spec

\* Every state of the lifecycle has its type.
THEOREM TypeCorrect == Spec => []TypeOK
<1>1. LifeInv => TypeOK
  BY TypedIsTypeOK DEF LifeInv
<1> QED
  BY <1>1, LifeInvariant, PTL

\* A session never has two worker processes that write its transcript: recoverWorker,
\* retry_worker, attach and a new supervisor launch a worker only when the process that
\* the registration names is gone (daemon-supervisor.ts, recoverWorker and launchWorker).
THEOREM OneWriter == Spec => []OneProcess
<1>1. LifeInv => OneProcess
  <2> SUFFICES ASSUME LifeInv PROVE OneProcess
    OBVIOUS
  <2> DEFINE writers == {i \in Pids : proc[i] \in {"live", "closing"}}
  <2>1. writers \subseteq {reg.pid}
    BY DEF LifeInv, PidInv
  <2>2. IsFiniteSet({reg.pid}) /\ Cardinality({reg.pid}) = 1
    BY FS_Singleton
  <2>3. Cardinality(writers) <= Cardinality({reg.pid})
    BY <2>1, <2>2, FS_Subset
  <2>4. Cardinality(writers) \in Nat
    BY <2>1, <2>2, FS_Subset, FS_CardinalityType
  <2> QED
    BY <2>2, <2>3 DEF OneProcess
<1> QED
  BY <1>1, LifeInvariant, PTL

\* A running worker can be found after a crash of the supervisor: no stop, root close,
\* reclaim or launch leaves it without the descriptor that names it.  It takes that the
\* schedules of a client-owned worker are cancelled before anything relaunches it, for
\* cancelEphemeralWorkerScheduledJobs is awaited without another look afterwards.
THEOREM RunningWorkerIsKnown ==
  ASSUME SlowCancel = FALSE PROVE Spec => []KnownProcess
<1>1. LifeInv => KnownProcess
  BY DEF LifeInv, PidInv, FileInv, KnownProcess
<1> QED
  BY <1>1, LifeInvariant, PTL
==============================================================================
