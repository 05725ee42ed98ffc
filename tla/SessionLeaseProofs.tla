-------------------------- MODULE SessionLeaseProofs --------------------------
(***************************************************************************)
(* Proofs about SessionLease for every set of processes and any number of  *)
(* crashes.  Type correctness needs no assumption; mutual exclusion needs  *)
(* what the code leaves to its environment: no live process outlasts the   *)
(* 5 s of its own guard, and one lockSync at a time breaks a stale guard.  *)
(***************************************************************************)
EXTENDS SessionLease, TLAPS

USE LeaseAssumption

GuardsLast == Stalls = FALSE /\ Races = FALSE

\* "none" and "empty" name no process.
LEMMA NoOwner == None \notin Owners /\ Empty \notin Owners /\ None # Empty
  BY DEF None, Empty, Owners

\* A process that has its place names itself as an owner.
LEMMA OwnerType ==
  ASSUME TypeOK, NEW p \in Processes
  PROVE  Owner(p) \in Owners /\ Owner(p).proc = p /\ Owner(p).inc = inc[p]
  BY DEF TypeOK, Owner, Owners

\* Two processes are never the same owner.
LEMMA OwnersDiffer ==
  ASSUME NEW p \in Processes, NEW q \in Processes, Owner(p) = Owner(q)
  PROVE  p = q
  BY DEF Owner

-------------------------------------------------------------------------------
(* Types *)

\* Types and counters hold initially.
LEMMA CountInit == Init => TypeOK /\ CountInv
  BY DEF Init, TypeOK, CountInv, Waiting, Attempts, NoGuard

\* Types and counters survive every step of acquire, release, ageing, death and reuse.
LEMMA CountStep == TypeOK /\ CountInv /\ [Next]_leaseVars => TypeOK' /\ CountInv'
<1> SUFFICES ASSUME TypeOK, CountInv, [Next]_leaseVars
             PROVE  TypeOK' /\ CountInv'
  OBVIOUS
<1> USE DEF TypeOK, CountInv, At, GoTo, Critical, Waiting, Attempts
<1>1. CASE AgeGuard
  <2>1. guard' \in Guards
    BY <1>1 DEF AgeGuard, Guards, NoGuard
  <2>2. QED
    BY <1>1, <2>1 DEF AgeGuard
<1>2. ASSUME NEW p \in Processes, StartAcquire(p)
      PROVE  TypeOK' /\ CountInv'
  BY <1>2 DEF StartAcquire
<1>3. ASSUME NEW p \in Processes, StartRelease(p)
      PROVE  TypeOK' /\ CountInv'
  BY <1>3 DEF StartRelease
<1>4. ASSUME NEW p \in Processes, Enter(p), pc[p] \in Waiting, 
             UNCHANGED <<lease, running, inc, op, attempt, holds, crashes>>
      PROVE  TypeOK' /\ CountInv'
  <2>1. guard' \in Guards
    BY <1>4, OwnerType DEF Enter, Guards
  <2>2. QED
    BY <1>4, <2>1 DEF Enter
<1>5. ASSUME NEW p \in Processes, LockGuard(p)
      PROVE  TypeOK' /\ CountInv'
  BY <1>4, <1>5 DEF LockGuard
<1>6. ASSUME NEW p \in Processes, SeeStaleGuard(p) \/ AbandonGuard(p)
      PROVE  TypeOK' /\ CountInv'
  BY <1>6 DEF SeeStaleGuard, AbandonGuard
<1>7. ASSUME NEW p \in Processes, BreakGuard(p) \/ Unlock(p)
      PROVE  TypeOK' /\ CountInv'
  BY <1>7 DEF BreakGuard, Unlock
<1>8. ASSUME NEW p \in Processes, MakeGuard(p)
      PROVE  TypeOK' /\ CountInv'
  <2>1. CASE guard = NoGuard
    BY <1>4, <1>8, <2>1 DEF MakeGuard
  <2>2. CASE guard # NoGuard
    BY <1>8, <2>2 DEF MakeGuard
  <2>3. QED
    BY <2>1, <2>2
<1>9. ASSUME NEW p \in Processes, Place(p)
      PROVE  TypeOK' /\ CountInv'
  <2>1. attempt[p] + 1 \in 0..Attempts /\ attempt' = [attempt EXCEPT ![p] = @ + 1]
    BY <1>9 DEF Place
  <2>2. lease' \in {None, Empty} \cup Owners
    BY <1>9, OwnerType DEF Place
  <2>3. \E s \in Critical : pc' = [pc EXCEPT ![p] = s] /\ s # "placing"
    BY <1>9 DEF Place
  <2>4. holds' \in [Processes -> BOOLEAN]
    BY <1>9 DEF Place
  <2>5. UNCHANGED <<guard, running, inc, op, crashes>>
    BY <1>9 DEF Place
  <2>6. TypeOK'
    <3>1. pc' \in [Processes -> {"idle"} \cup Critical \cup Waiting]
      BY <2>3
    <3>2. attempt' \in [Processes -> 0..Attempts]
      BY <2>1
    <3>3. QED
      BY <2>2, <2>4, <2>5, <3>1, <3>2
  <2>7. CountInv'
    BY <2>1, <2>3, <2>5
  <2>8. QED
    BY <2>6, <2>7
<1>10. ASSUME NEW p \in Processes, InspectOwner(p)
       PROVE  TypeOK' /\ CountInv'
  BY <1>10 DEF InspectOwner
<1>11. ASSUME NEW p \in Processes, Reclaim(p)
       PROVE  TypeOK' /\ CountInv'
  BY <1>11 DEF Reclaim
<1>12. ASSUME NEW p \in Processes, CheckToken(p) \/ RemoveDirectory(p)
       PROVE  TypeOK' /\ CountInv'
  BY <1>12 DEF CheckToken, RemoveDirectory
<1>13. ASSUME NEW p \in Processes, Crash(p)
       PROVE  TypeOK' /\ CountInv'
  BY <1>13 DEF Crash
<1>14. ASSUME NEW p \in Processes, Reuse(p)
       PROVE  TypeOK' /\ CountInv'
  BY <1>14 DEF Reuse
<1>15. CASE UNCHANGED leaseVars
  BY <1>15 DEF leaseVars
<1>16. QED
  BY <1>1, <1>2, <1>3, <1>5, <1>6, <1>7, <1>8, <1>9, <1>10, <1>11, <1>12, <1>13, <1>14, <1>15
     DEF Next, Advance

\* Every variable keeps its type; a pid slot is never reused more often than processes
\* died, and acquireSessionLease never uses a fourth round.
THEOREM TypeCorrect == Spec => []TypeOK
<1>1. Spec => [](TypeOK /\ CountInv)
  BY CountInit, CountStep, PTL DEF Spec
<1>2. QED
  BY <1>1, PTL

-------------------------------------------------------------------------------
(* Mutual exclusion *)

\* The parts hold initially.
LEMMA SafeInit == Init => PlaceInv /\ GuardInv /\ RoundInv /\ HeldLeaseOnDisk
  BY DEF Init, PlaceInv, GuardInv, RoundInv, HeldLeaseOnDisk, NoGuard, Critical

\* A lease on disk in its holder's name has one holder.
LEMMA HeldOnceOnDisk == HeldLeaseOnDisk => SingleWriter
  BY OwnersDiffer DEF HeldLeaseOnDisk, SingleWriter

\* A dead process is in no call and holds nothing; a call of a holder is at its end.
LEMMA PlaceStep ==
  ASSUME TypeOK, PlaceInv, [Next]_leaseVars
  PROVE  PlaceInv'
<1> USE DEF PlaceInv, At, GoTo
<1>1. CASE AgeGuard
  BY <1>1 DEF AgeGuard
<1>2. ASSUME NEW p \in Processes, StartAcquire(p) \/ StartRelease(p) \/ Crash(p) \/ Reuse(p)
      PROVE  PlaceInv'
  BY <1>2 DEF StartAcquire, StartRelease, Crash, Reuse, TypeOK
<1>3. ASSUME NEW p \in Processes, Advance(p)
      PROVE  PlaceInv'
  <2>1. CASE LockGuard(p) \/ SeeStaleGuard(p) \/ BreakGuard(p) \/ MakeGuard(p) \/ AbandonGuard(p)
    BY <2>1 DEF LockGuard, SeeStaleGuard, BreakGuard, MakeGuard, AbandonGuard, Enter, TypeOK
  <2>2. CASE Unlock(p) \/ InspectOwner(p) \/ Reclaim(p) \/ CheckToken(p) \/ RemoveDirectory(p)
    BY <2>2 DEF Unlock, InspectOwner, Reclaim, CheckToken, RemoveDirectory, TypeOK
  <2>3. CASE Place(p)
    BY <2>3 DEF Place, TypeOK
  <2>4. QED
    BY <1>3, <2>1, <2>2, <2>3 DEF Advance
<1>4. CASE UNCHANGED leaseVars
  BY <1>4 DEF leaseVars
<1>5. QED
  BY <1>1, <1>2, <1>3, <1>4 DEF Next

\* A process inside the critical section is the creator of a fresh guard, so there is one.
LEMMA OneCritical ==
  ASSUME GuardInv, NEW p \in Processes, NEW q \in Processes,
         pc[p] \in Critical, pc[q] \in Critical
  PROVE  p = q
<1>1. [by |-> Owner(p), stale |-> FALSE] = [by |-> Owner(q), stale |-> FALSE]
  BY DEF GuardInv
<1>2. QED
  BY <1>1, OwnersDiffer

\* The guard belongs to the process in the critical section.
LEMMA GuardStep ==
  ASSUME GuardsLast, TypeOK, PlaceInv, GuardInv, [Next]_leaseVars
  PROVE  GuardInv'
<1> USE DEF At, GoTo, Critical
<1>1. CASE AgeGuard
  BY <1>1 DEF AgeGuard, GuardInv, GuardsLast, TypeOK, PlaceInv, NoGuard, Owner
<1>2. ASSUME NEW p \in Processes, StartAcquire(p) \/ StartRelease(p)
      PROVE  GuardInv'
  BY <1>2 DEF StartAcquire, StartRelease, GuardInv, TypeOK, Owner
<1>3. ASSUME NEW p \in Processes, Crash(p)
      PROVE  GuardInv'
  BY <1>3 DEF Crash, GuardInv, TypeOK, Owner
<1>4. ASSUME NEW p \in Processes, Reuse(p)
      PROVE  GuardInv'
  <2>1. /\ ~running[p] /\ inc[p] \in Nat /\ UNCHANGED <<guard, pc>>
        /\ inc' = [inc EXCEPT ![p] = inc[p] + 1]
        /\ running' = [running EXCEPT ![p] = TRUE]
    BY <1>4 DEF Reuse, TypeOK
  <2>2. guard.by = None \/ (guard.by \in Owners /\ guard.by.inc <= inc'[guard.by.proc])
    BY <2>1 DEF GuardInv, TypeOK, Owners
  <2>3. ASSUME guard.stale
        PROVE  running'[guard.by.proc] => inc'[guard.by.proc] # guard.by.inc
    <3>1. guard.by \in Owners /\ guard.by.inc <= inc[guard.by.proc]
      BY <2>3, NoOwner DEF GuardInv, TypeOK, Guards
    <3>2. CASE guard.by.proc = p
      BY <2>1, <3>1, <3>2 DEF Owners, TypeOK
    <3>3. CASE guard.by.proc # p
      BY <2>1, <2>3, <3>1, <3>3 DEF Owners, TypeOK, GuardInv
    <3>4. QED
      BY <3>2, <3>3
  <2>4. ASSUME NEW q \in Processes, pc[q] \in Critical
        PROVE  guard = [by |-> Owner(q)', stale |-> FALSE]
    BY <2>1, <2>4 DEF GuardInv, PlaceInv, TypeOK, Owner
  <2>5. QED
    BY <2>1, <2>2, <2>3, <2>4 DEF GuardInv
<1>5. ASSUME NEW p \in Processes, Enter(p), guard = NoGuard, UNCHANGED <<running, inc>>
      PROVE  GuardInv'
  <2>1. /\ ~guard.stale /\ guard.by = None
        /\ guard' = [by |-> Owner(p), stale |-> FALSE]
        /\ Owner(p)' = Owner(p)
    BY <1>5 DEF Enter, NoGuard, Owner
  <2>2. \E s \in Critical : pc' = [pc EXCEPT ![p] = s]
    BY <1>5 DEF Enter
  <2>3. \A q \in Processes : pc[q] \notin Critical /\ pc[q] # "breaking"
    BY <2>1, OwnerType, NoOwner DEF GuardInv
  <2>4. Owner(p).inc <= inc'[Owner(p).proc] /\ Owner(p) \in Owners
    BY <1>5, OwnerType DEF TypeOK
  <2>5. \A q \in Processes : pc'[q] \in Critical => q = p
    BY <2>2, <2>3 DEF TypeOK
  <2>6. \A q \in Processes : pc'[q] \in {"breaking", "making"} => q # p /\ pc'[q] = pc[q]
    BY <2>2, <2>3 DEF TypeOK
  <2>7. QED
    BY <2>1, <2>3, <2>4, <2>5, <2>6 DEF GuardInv
<1>6. ASSUME NEW p \in Processes, LockGuard(p) \/ MakeGuard(p)
      PROVE  GuardInv'
  <2>1. CASE guard = NoGuard
    BY <1>5, <1>6, <2>1 DEF LockGuard, MakeGuard
  <2>2. CASE guard # NoGuard
    BY <1>6, <2>2 DEF LockGuard, MakeGuard, GuardInv, TypeOK, Owner
  <2>3. QED
    BY <2>1, <2>2
<1>7. ASSUME NEW p \in Processes, SeeStaleGuard(p)
      PROVE  GuardInv'
  BY <1>7 DEF SeeStaleGuard, GuardsLast, GuardInv, TypeOK, Owner
<1>8. ASSUME NEW p \in Processes, BreakGuard(p)
      PROVE  GuardInv'
  BY <1>8 DEF BreakGuard, GuardInv, TypeOK, NoGuard, Owner
<1>9. ASSUME NEW p \in Processes, Unlock(p)
      PROVE  GuardInv'
  BY <1>9, OneCritical DEF Unlock, GuardInv, TypeOK, NoGuard, Owner
<1>10. ASSUME NEW p \in Processes, AbandonGuard(p)
       PROVE  GuardInv'
  BY <1>10 DEF AbandonGuard, GuardInv, TypeOK, Owner
<1>11. ASSUME NEW p \in Processes,
              Place(p) \/ InspectOwner(p) \/ Reclaim(p) \/ CheckToken(p) \/ RemoveDirectory(p)
       PROVE  GuardInv'
  <2>1. UNCHANGED <<guard, running, inc>> /\ pc[p] \in Critical
    BY <1>11 DEF Place, InspectOwner, Reclaim, CheckToken, RemoveDirectory
  <2>2. \E s \in Critical : pc' = [pc EXCEPT ![p] = s]
    BY <1>11 DEF Place, InspectOwner, Reclaim, CheckToken, RemoveDirectory
  <2>3. QED
    BY <2>1, <2>2 DEF GuardInv, TypeOK, Owner
<1>12. CASE UNCHANGED leaseVars
  BY <1>12 DEF leaseVars, GuardInv, Owner
<1>13. QED
  BY <1>1, <1>2, <1>3, <1>4, <1>6, <1>7, <1>8, <1>9, <1>10, <1>11, <1>12 DEF Next, Advance

\* A lease without a name on it is held by nobody, and one that is held names the holder.
LEMMA NamelessIsFree ==
  ASSUME TypeOK, HeldLeaseOnDisk, lease \in {None, Empty}
  PROVE  \A q \in Processes : ~holds[q]
  BY OwnerType, NoOwner DEF HeldLeaseOnDisk

\* An owner that looks dead holds nothing.
LEMMA DeadOwnerHoldsNothing ==
  ASSUME TypeOK, PlaceInv, HeldLeaseOnDisk, lease \in Owners, FALSE \in SeenAlive(lease)
  PROVE  \A q \in Processes : ~holds[q]
<1> SUFFICES ASSUME NEW q \in Processes, holds[q]
             PROVE  FALSE
  OBVIOUS
<1>1. running[q] /\ lease.proc = q /\ lease.inc = inc[q]
  BY OwnerType DEF HeldLeaseOnDisk, PlaceInv
<1>2. SeenAlive(lease) = {TRUE}
  BY <1>1 DEF SeenAlive, IsAlive
<1>3. QED
  BY <1>2

\* A held lease stays on disk in the holder's name.
LEMMA HeldStep ==
  ASSUME TypeOK, PlaceInv, RoundInv, HeldLeaseOnDisk, [Next]_leaseVars
  PROVE  HeldLeaseOnDisk'
<1> USE DEF At, HeldLeaseOnDisk
<1>1. CASE AgeGuard \/ UNCHANGED leaseVars
  BY <1>1 DEF AgeGuard, leaseVars, Owner
<1>2. ASSUME NEW p \in Processes, StartAcquire(p) \/ StartRelease(p)
      PROVE  HeldLeaseOnDisk'
  BY <1>2 DEF StartAcquire, StartRelease, TypeOK, Owner
<1>3. ASSUME NEW p \in Processes, Crash(p) \/ Reuse(p)
      PROVE  HeldLeaseOnDisk'
  BY <1>3 DEF Crash, Reuse, PlaceInv, TypeOK, Owner
<1>4. ASSUME NEW p \in Processes, 
             \/ LockGuard(p) \/ SeeStaleGuard(p) \/ BreakGuard(p) \/ MakeGuard(p)
             \/ AbandonGuard(p) \/ Unlock(p) \/ InspectOwner(p)
      PROVE  HeldLeaseOnDisk'
  BY <1>4 DEF LockGuard, SeeStaleGuard, BreakGuard, MakeGuard, AbandonGuard, Unlock,
              InspectOwner, Owner
<1>5. ASSUME NEW p \in Processes, Place(p)
      PROVE  HeldLeaseOnDisk'
  <2>1. CASE lease \in {None, Empty}
    BY <1>5, <2>1, NamelessIsFree DEF Place, Owner, TypeOK
  <2>2. CASE lease \notin {None, Empty}
    BY <1>5, <2>2 DEF Place, Owner
  <2>3. QED
    BY <2>1, <2>2
<1>6. ASSUME NEW p \in Processes, Reclaim(p)
      PROVE  HeldLeaseOnDisk'
  BY <1>6 DEF Reclaim, RoundInv
<1>7. ASSUME NEW p \in Processes, CheckToken(p)
      PROVE  HeldLeaseOnDisk'
  <2>1. CASE lease = Owner(p)
    <3>1. \A q \in Processes : ~holds[q]
      BY <1>7, <2>1, OwnersDiffer DEF CheckToken, PlaceInv
    <3>2. QED
      BY <1>7, <3>1 DEF CheckToken
  <2>2. CASE lease # Owner(p)
    BY <1>7, <2>2 DEF CheckToken, Owner
  <2>3. QED
    BY <2>1, <2>2
<1>8. ASSUME NEW p \in Processes, RemoveDirectory(p)
      PROVE  HeldLeaseOnDisk'
  BY <1>8, NamelessIsFree DEF RemoveDirectory, Owner
<1>9. QED
  BY <1>1, <1>2, <1>3, <1>4, <1>5, <1>6, <1>7, <1>8 DEF Next, Advance

\* A stale lease costs one round, and nobody holds the lease that is reclaimed.
LEMMA RoundStep ==
  ASSUME TypeOK, CountInv, PlaceInv, GuardInv, RoundInv, HeldLeaseOnDisk, [Next]_leaseVars
  PROVE  RoundInv'
<1> USE DEF At, GoTo, RoundInv
<1>1. CASE AgeGuard \/ UNCHANGED leaseVars
  BY <1>1 DEF AgeGuard, leaseVars
<1>2. ASSUME NEW p \in Processes, StartAcquire(p) \/ StartRelease(p) \/ Crash(p) \/ Reuse(p)
      PROVE  RoundInv'
  BY <1>2 DEF StartAcquire, StartRelease, Crash, Reuse, TypeOK
<1>3. ASSUME NEW p \in Processes,
             \/ LockGuard(p) \/ SeeStaleGuard(p) \/ BreakGuard(p) \/ MakeGuard(p)
             \/ AbandonGuard(p) \/ Unlock(p)
      PROVE  RoundInv'
  BY <1>3 DEF LockGuard, SeeStaleGuard, BreakGuard, MakeGuard, AbandonGuard, Unlock, Enter,
              TypeOK, CountInv, Waiting
<1>4. ASSUME NEW p \in Processes, NEW s \in Critical, pc[p] \in Critical,
             pc' = [pc EXCEPT ![p] = s],
             \A q \in Processes : q # p => attempt'[q] = attempt[q],
             s \in {"inspecting", "reclaiming"} => attempt'[p] = 1,
             s = "reclaiming" => \A q \in Processes : ~holds'[q],
             s = "placing" => attempt'[p] = 1 /\ lease' = None
      PROVE  RoundInv'
  <2>1. \A q \in Processes : q # p => pc'[q] = pc[q] /\ pc[q] \notin Critical
    BY <1>4, OneCritical DEF TypeOK
  <2>2. pc'[p] = s
    BY <1>4 DEF TypeOK
  <2>3. QED
    BY <1>4, <2>1, <2>2 DEF Critical
<1>5. ASSUME NEW p \in Processes, Place(p)
      PROVE  RoundInv'
  <2>1. CASE lease \in {None, Empty}
    BY <1>4, <1>5, <2>1 DEF Place, Critical, TypeOK
  <2>2. CASE lease \notin {None, Empty}
    <3>1. attempt[p] = 0
      BY <1>5, <2>2 DEF Place, TypeOK
    <3>2. pc' = [pc EXCEPT ![p] = "inspecting"] /\ attempt' = [attempt EXCEPT ![p] = 1]
      BY <1>5, <2>2, <3>1 DEF Place
    <3>3. QED
      BY <1>4, <1>5, <3>2 DEF Place, Critical, TypeOK
  <2>3. QED
    BY <2>1, <2>2
<1>6. ASSUME NEW p \in Processes, InspectOwner(p)
      PROVE  RoundInv'
  <2>1. attempt[p] = 1 /\ UNCHANGED <<attempt, holds>> /\ pc[p] \in Critical
    BY <1>6 DEF InspectOwner, Critical
  <2>2. CASE pc' = [pc EXCEPT ![p] = "unlocking"]
    BY <1>4, <2>1, <2>2 DEF Critical
  <2>3. CASE pc' = [pc EXCEPT ![p] = "reclaiming"] /\ (lease \in Owners => FALSE \in SeenAlive(lease))
    <3>1. \A q \in Processes : ~holds[q]
      BY <2>3, NamelessIsFree, DeadOwnerHoldsNothing DEF TypeOK
    <3>2. QED
      BY <1>4, <2>1, <2>3, <3>1 DEF Critical
  <2>4. PICK owned \in (IF lease \in Owners THEN SeenAlive(lease) ELSE {FALSE}) :
          pc' = [pc EXCEPT ![p] = IF owned THEN "unlocking" ELSE "reclaiming"]
    BY <1>6 DEF InspectOwner
  <2>5. owned \in BOOLEAN
    <3>1. lease \in Owners => IsAlive(lease) \in BOOLEAN
      BY DEF IsAlive
    <3>2. QED
      BY <2>4, <3>1 DEF SeenAlive, Owners, TypeOK
  <2>6. CASE owned = TRUE
    BY <2>2, <2>4, <2>6
  <2>7. CASE owned = FALSE
    BY <2>3, <2>4, <2>7
  <2>8. QED
    BY <2>5, <2>6, <2>7
<1>7. ASSUME NEW p \in Processes, Reclaim(p)
      PROVE  RoundInv'
  BY <1>4, <1>7 DEF Reclaim, Critical
<1>8. ASSUME NEW p \in Processes, CheckToken(p) \/ RemoveDirectory(p)
      PROVE  RoundInv'
  BY <1>4, <1>8 DEF CheckToken, RemoveDirectory, Critical
<1>9. QED
  BY <1>1, <1>2, <1>3, <1>5, <1>6, <1>7, <1>8 DEF Next, Advance

\* The inductive invariant holds in the initial state.
LEMMA LeaseInvInit == Init => LeaseInv
  BY CountInit, SafeInit, HeldOnceOnDisk DEF LeaseInv

\* Every step of every process, and a guard growing old, preserves it.
LEMMA LeaseInvStep == GuardsLast /\ LeaseInv /\ [Next]_leaseVars => LeaseInv'
<1> SUFFICES ASSUME GuardsLast, LeaseInv, [Next]_leaseVars
             PROVE  LeaseInv'
  OBVIOUS
<1>1. TypeOK' /\ CountInv'
  BY CountStep DEF LeaseInv
<1>2. PlaceInv' /\ GuardInv'
  BY PlaceStep, GuardStep DEF LeaseInv
<1>3. RoundInv' /\ HeldLeaseOnDisk'
  BY RoundStep, HeldStep DEF LeaseInv
<1>4. SingleWriter'
  <2>1. (HeldLeaseOnDisk => SingleWriter)'
    BY OwnersDiffer DEF HeldLeaseOnDisk, SingleWriter, Owner
  <2>2. QED
    BY <1>3, <2>1
<1>5. QED
  BY <1>1, <1>2, <1>3, <1>4 DEF LeaseInv

\* The inductive invariant of the lease protocol.
THEOREM LeaseInvariant ==
  ASSUME GuardsLast
  PROVE  Spec => []LeaseInv
<1>1. LeaseInv /\ [Next]_leaseVars => LeaseInv'
  BY LeaseInvStep
<1>2. QED
  BY <1>1, LeaseInvInit, PTL DEF Spec

\* docs/daemon.md, "Session leases": no two processes hold the lease of one session.
THEOREM NoTwoWriters ==
  ASSUME GuardsLast
  PROVE  Spec => []SingleWriter
<1>1. LeaseInv => SingleWriter
  BY DEF LeaseInv
<1>2. QED
  BY <1>1, LeaseInvariant, PTL

\* The lease a process holds stays on disk in its name, whoever dies or contends.
THEOREM HeldLeaseStays ==
  ASSUME GuardsLast
  PROVE  Spec => []HeldLeaseOnDisk
<1>1. LeaseInv => HeldLeaseOnDisk
  BY DEF LeaseInv
<1>2. QED
  BY <1>1, LeaseInvariant, PTL

\* acquireSessionLease never reclaims in its last two rounds.
THEOREM OneExtraRound ==
  ASSUME GuardsLast
  PROVE  Spec => []RoundsSuffice
<1>1. LeaseInv => RoundsSuffice
  BY DEF LeaseInv, RoundInv, RoundsSuffice, Attempts
<1>2. QED
  BY <1>1, LeaseInvariant, PTL
===============================================================================
