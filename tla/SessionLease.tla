----------------------------- MODULE SessionLease -----------------------------
(***************************************************************************)
(* The lease that keeps two processes from writing one session transcript: *)
(* acquireSessionLease and SessionLease.release on one lease directory,    *)
(* every file-system call a step of its own, under the guard directory     *)
(* that proper-lockfile's lockSync creates.  lockSync takes over a guard   *)
(* that looks older than 5 s; the critical sections are synchronous, so    *)
(* the timer that would refresh the guard never runs inside one.           *)
(***************************************************************************)
EXTENDS Naturals, FiniteSets

CONSTANTS
  Processes,       \* operating-system process slots (pids)
  Stalls,          \* may a live process outlast the 5 s of its own guard
  Races,           \* may two lockSync calls break the same stale guard
  MaxCrashes       \* bound: processes that die

ASSUME LeaseAssumption ==
  /\ IsFiniteSet(Processes)
  /\ Stalls \in BOOLEAN
  /\ Races \in BOOLEAN
  /\ MaxCrashes \in Nat
  /\ Processes \cap {"none", "empty"} = {}

Attempts == 3      \* rounds of acquireSessionLease

VARIABLES
  lease,      \* the lease directory: None, Empty (no owner.json) or its owner
  guard,      \* the guard directory: its creator, or None, and whether it looks stale
  running,    \* which process slots hold a live process
  inc,        \* which process it is: the processStartId that tells reused pids apart
  pc,         \* where the process is in acquire or release
  op,         \* which of the two it is in
  attempt,    \* rounds it has used
  holds,      \* it was given a lease and has not released it
  crashes

leaseVars == <<lease, guard, running, inc, pc, op, attempt, holds, crashes>>

Owner(p)  == [proc |-> p, inc |-> inc[p]]
Owners    == [proc : Processes, inc : 0..MaxCrashes]
None      == [proc |-> "none", inc |-> 0]
Empty     == [proc |-> "empty", inc |-> 0]
NoGuard   == [by |-> None, stale |-> FALSE]
Guards    == [by : Owners, stale : BOOLEAN]
Critical  == {"placing", "inspecting", "reclaiming", "checking", "removing", "unlocking"}
Waiting   == {"locking", "breaking", "making"}

TypeOK ==
  /\ lease \in {None, Empty} \cup Owners
  /\ guard \in {NoGuard} \cup Guards
  /\ running \in [Processes -> BOOLEAN]
  /\ inc \in [Processes -> 0..MaxCrashes]
  /\ pc \in [Processes -> {"idle"} \cup Critical \cup Waiting]
  /\ op \in [Processes -> {"acquire", "release"}]
  /\ attempt \in [Processes -> 0..Attempts]
  /\ holds \in [Processes -> BOOLEAN]
  /\ crashes \in 0..MaxCrashes

Init ==
  /\ lease = None
  /\ guard = NoGuard
  /\ running = [p \in Processes |-> TRUE]
  /\ inc = [p \in Processes |-> 0]
  /\ pc = [p \in Processes |-> "idle"]
  /\ op = [p \in Processes |-> "acquire"]
  /\ attempt = [p \in Processes |-> 0]
  /\ holds = [p \in Processes |-> FALSE]
  /\ crashes = 0

At(p, s)   == running[p] /\ pc[p] = s
GoTo(p, s) == pc' = [pc EXCEPT ![p] = s]

-------------------------------------------------------------------------------
(* Entering acquireSessionLease and release *)

\* Mutant of StartAcquire: the rounds of earlier calls count.
StartAcquireKeepingCount(p) ==
  /\ At(p, "idle")
  /\ ~holds[p]
  /\ GoTo(p, "locking")
  /\ op' = [op EXCEPT ![p] = "acquire"]
  /\ UNCHANGED <<lease, guard, running, inc, attempt, holds, crashes>>

StartAcquire(p) ==
  /\ At(p, "idle")
  /\ ~holds[p]
  /\ GoTo(p, "locking")
  /\ op' = [op EXCEPT ![p] = "acquire"]
  /\ attempt' = [attempt EXCEPT ![p] = 0]
  /\ UNCHANGED <<lease, guard, running, inc, holds, crashes>>

\* release() marks the lease released before it asks for the guard.
StartRelease(p) ==
  /\ At(p, "idle")
  /\ holds[p]
  /\ GoTo(p, "locking")
  /\ op' = [op EXCEPT ![p] = "release"]
  /\ holds' = [holds EXCEPT ![p] = FALSE]
  /\ UNCHANGED <<lease, guard, running, inc, attempt, crashes>>

-------------------------------------------------------------------------------
(* lockSync of proper-lockfile and the retry loop around it *)

Enter(p) ==
  /\ guard' = [by |-> Owner(p), stale |-> FALSE]
  /\ GoTo(p, IF op[p] = "acquire" THEN "placing" ELSE "checking")

LockGuard(p) ==
  /\ At(p, "locking")
  /\ guard = NoGuard
  /\ Enter(p)
  /\ UNCHANGED <<lease, running, inc, op, attempt, holds, crashes>>

\* The guard exists and looks stale: it is removed and made again, with nothing
\* to keep a second caller that saw the same guard from removing the new one.
SeeStaleGuard(p) ==
  /\ At(p, "locking")
  /\ guard # NoGuard
  /\ guard.stale
  /\ Races \/ \A q \in Processes : pc[q] \notin {"breaking", "making"}
  /\ GoTo(p, "breaking")
  /\ UNCHANGED <<lease, guard, running, inc, op, attempt, holds, crashes>>

BreakGuard(p) ==
  /\ At(p, "breaking")
  /\ guard' = NoGuard
  /\ GoTo(p, "making")
  /\ UNCHANGED <<lease, running, inc, op, attempt, holds, crashes>>

MakeGuard(p) ==
  /\ At(p, "making")
  /\ IF guard = NoGuard THEN Enter(p) ELSE GoTo(p, "locking") /\ UNCHANGED guard
  /\ UNCHANGED <<lease, running, inc, op, attempt, holds, crashes>>

\* Mutant of AbandonGuard: the retry loop has no last attempt.
RetryForever(p) ==
  /\ At(p, "locking")
  /\ guard # NoGuard
  /\ ~guard.stale
  /\ UNCHANGED leaseVars

\* The hundredth attempt, a second after the first, still finds it locked:
\* acquire throws, release swallows the error.
AbandonGuard(p) ==
  /\ At(p, "locking")
  /\ guard # NoGuard
  /\ ~guard.stale
  /\ GoTo(p, "idle")
  /\ UNCHANGED <<lease, guard, running, inc, op, attempt, holds, crashes>>

\* Mutant of AgeGuard: a guard looks stale while its live creator is still at work.
AgeAnyGuard ==
  /\ guard # NoGuard
  /\ ~guard.stale
  /\ guard' = [by |-> guard.by, stale |-> TRUE]
  /\ UNCHANGED <<lease, running, inc, pc, op, attempt, holds, crashes>>

\* Five seconds have passed since the guard was made.
AgeGuard ==
  /\ guard # NoGuard
  /\ ~guard.stale
  /\ Stalls \/ ~running[guard.by.proc] \/ inc[guard.by.proc] # guard.by.inc
  /\ guard' = [by |-> guard.by, stale |-> TRUE]
  /\ UNCHANGED <<lease, running, inc, pc, op, attempt, holds, crashes>>

\* unlockSync removes the directory whoever made it.
Unlock(p) ==
  /\ At(p, "unlocking")
  /\ guard' = NoGuard
  /\ GoTo(p, "idle")
  /\ UNCHANGED <<lease, running, inc, op, attempt, holds, crashes>>

-------------------------------------------------------------------------------
(* acquireSessionLease under the guard *)

\* rename(candidate, directory) succeeds onto nothing or an empty directory.
Place(p) ==
  /\ At(p, "placing")
  /\ attempt' = [attempt EXCEPT ![p] = @ + 1]
  /\ IF lease \in {None, Empty}
     THEN /\ lease' = Owner(p)
          /\ holds' = [holds EXCEPT ![p] = TRUE]
          /\ GoTo(p, "unlocking")
     ELSE GoTo(p, "inspecting") /\ UNCHANGED <<lease, holds>>
  /\ UNCHANGED <<guard, running, inc, op, crashes>>

IsAlive(o) == running[o.proc] /\ inc[o.proc] = o.inc

\* Mutant of SeenAlive: an owner whose start time cannot be read counts as dead.
SeenAliveStrictly(o) == IF running[o.proc] THEN {IsAlive(o), FALSE} ELSE {FALSE}

\* isLeaseOwnerAlive: a pid in use by another process still counts as alive when
\* its start time cannot be read.
SeenAlive(o) == IF running[o.proc] THEN {IsAlive(o), TRUE} ELSE {FALSE}

\* Mutant of InspectOwner: whatever is in the way is taken for stale.
InspectNobody(p) ==
  /\ At(p, "inspecting")
  /\ GoTo(p, "reclaiming")
  /\ UNCHANGED <<lease, guard, running, inc, op, attempt, holds, crashes>>

\* A live owner ends the call with SessionAlreadyActiveError.
InspectOwner(p) ==
  /\ At(p, "inspecting")
  /\ \E owned \in (IF lease \in Owners THEN SeenAlive(lease) ELSE {FALSE}) :
        GoTo(p, IF owned THEN "unlocking" ELSE "reclaiming")
  /\ UNCHANGED <<lease, guard, running, inc, op, attempt, holds, crashes>>

\* Mutant of Reclaim: the stale lease stays where it is.
ReclaimNothing(p) ==
  /\ At(p, "reclaiming")
  /\ GoTo(p, IF attempt[p] < Attempts THEN "placing" ELSE "unlocking")
  /\ UNCHANGED <<lease, guard, running, inc, op, attempt, holds, crashes>>

\* reclaimStaleLease moves away whatever is there; the third round was the last.
Reclaim(p) ==
  /\ At(p, "reclaiming")
  /\ lease' = None
  /\ GoTo(p, IF attempt[p] < Attempts THEN "placing" ELSE "unlocking")
  /\ UNCHANGED <<guard, running, inc, op, attempt, holds, crashes>>

-------------------------------------------------------------------------------
(* SessionLease.release under the guard *)

CheckToken(p) ==
  /\ At(p, "checking")
  /\ IF lease = Owner(p)
     THEN lease' = Empty /\ GoTo(p, "removing")    \* rmSync unlinks owner.json first
     ELSE UNCHANGED lease /\ GoTo(p, "unlocking")
  /\ UNCHANGED <<guard, running, inc, op, attempt, holds, crashes>>

\* rmdir fails, unnoticed, once another lease has been renamed onto the directory.
RemoveDirectory(p) ==
  /\ At(p, "removing")
  /\ lease' = IF lease = Empty THEN None ELSE lease
  /\ GoTo(p, "unlocking")
  /\ UNCHANGED <<guard, running, inc, op, attempt, holds, crashes>>

-------------------------------------------------------------------------------
(* Processes *)

Crash(p) ==
  /\ running[p]
  /\ crashes < MaxCrashes
  /\ crashes' = crashes + 1
  /\ running' = [running EXCEPT ![p] = FALSE]
  /\ GoTo(p, "idle")
  /\ holds' = [holds EXCEPT ![p] = FALSE]
  /\ UNCHANGED <<lease, guard, inc, op, attempt>>

\* A new process is given the pid.
Reuse(p) ==
  /\ ~running[p]
  /\ running' = [running EXCEPT ![p] = TRUE]
  /\ inc' = [inc EXCEPT ![p] = @ + 1]
  /\ UNCHANGED <<lease, guard, pc, op, attempt, holds, crashes>>

Advance(p) ==
  \/ LockGuard(p) \/ SeeStaleGuard(p) \/ BreakGuard(p) \/ MakeGuard(p) \/ AbandonGuard(p)
  \/ Unlock(p) \/ Place(p) \/ InspectOwner(p) \/ Reclaim(p)
  \/ CheckToken(p) \/ RemoveDirectory(p)

Next ==
  \/ AgeGuard
  \/ \E p \in Processes : StartAcquire(p) \/ StartRelease(p) \/ Advance(p) \/ Crash(p) \/ Reuse(p)

Spec == Init /\ [][Next]_leaseVars

\* A process that is in a call goes on with it; time passes for a guard.
FairSpec ==
  /\ Spec
  /\ WF_leaseVars(AgeGuard)
  /\ \A p \in Processes : WF_leaseVars(Advance(p))

-------------------------------------------------------------------------------
(* Properties *)

\* docs/daemon.md, "Session leases": no two processes write one transcript.
SingleWriter == \A p, q \in Processes : holds[p] /\ holds[q] => p = q

\* The lease a process relies on stays on disk in its name until it lets go, so
\* that every later contender sees it.
HeldLeaseOnDisk == \A p \in Processes : holds[p] => lease = Owner(p)

\* A stale lease costs a contender one extra round: the rounds never run out
\* while the session is free.
RoundsSuffice == \A p \in Processes : pc[p] = "reclaiming" => attempt[p] < Attempts - 1

\* Every call ends, whoever died inside the guard.
CallsEnd == \A p \in Processes : pc[p] # "idle" ~> pc[p] = "idle"

-------------------------------------------------------------------------------
(* Why it holds: the inductive invariant behind the safety properties when no  *)
(* live process outlasts its guard and stale guards are broken one at a time.  *)

\* A process slot is reused only after its process died; rounds are counted from 0.
CountInv ==
  \A p \in Processes :
    /\ inc[p] + (IF running[p] THEN 0 ELSE 1) <= crashes
    /\ pc[p] = "placing" => attempt[p] < Attempts
    /\ pc[p] \in Waiting /\ op[p] = "acquire" => attempt[p] = 0

\* Dead processes are nowhere, and a holder is outside of acquire and release.
PlaceInv ==
  \A p \in Processes :
    /\ ~running[p] => pc[p] = "idle"
    /\ holds[p] => running[p] /\ pc[p] \in {"idle", "unlocking"}

\* The guard belongs to the process in the critical section, and only a guard whose
\* process is gone looks stale or is being broken.
GuardInv ==
  /\ guard.by = None \/ (guard.by \in Owners /\ guard.by.inc <= inc[guard.by.proc])
  /\ guard.stale => guard # NoGuard /\ (running[guard.by.proc] => inc[guard.by.proc] # guard.by.inc)
  /\ \A p \in Processes : pc[p] \in Critical => guard = [by |-> Owner(p), stale |-> FALSE]
  /\ \A p \in Processes : pc[p] = "breaking" => guard.stale
  /\ \A p, q \in Processes : pc[p] \in {"breaking", "making"} /\ pc[q] \in {"breaking", "making"}
                               => p = q

\* A lease is reclaimed once and only while nobody holds it.
RoundInv ==
  \A p \in Processes :
    /\ pc[p] \in {"inspecting", "reclaiming"} => attempt[p] = 1
    /\ pc[p] = "reclaiming" => \A q \in Processes : ~holds[q]
    /\ pc[p] = "placing" /\ attempt[p] > 0 => attempt[p] = 1 /\ lease = None

LeaseInv ==
  /\ TypeOK /\ CountInv /\ PlaceInv /\ GuardInv /\ RoundInv
  /\ SingleWriter /\ HeldLeaseOnDisk
===============================================================================
