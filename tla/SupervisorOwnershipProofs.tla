---------------------- MODULE SupervisorOwnershipProofs ----------------------
(***************************************************************************)
(* Proofs about SupervisorOwnership for every set of supervisors and of    *)
(* processes that shut daemons down, and any number of suspensions and     *)
(* crashes.  Type correctness needs no assumption.  That a daemon has one  *)
(* owner rests on what guardStolen takes for granted: the inode of the     *)
(* guard directory is that of nobody else's guard.                         *)
(***************************************************************************)
EXTENDS SupervisorOwnership, TLAPS

USE OwnershipAssumption

Tasks == SupervisorTasks \cup ShutterTasks

\* The places of a process, by its kind.
PointsOf(p) ==
  IF p \in Supervisors
  THEN {"idle", "socket", "starting", "serving", "closing", "refused", "exiting", "gone"}
       \cup SupervisorTasks
  ELSE {"idle", "holding", "sure", "gone"} \cup ShutterTasks

Points == {"idle", "socket", "starting", "serving", "closing", "refused", "exiting", "gone",
           "holding", "sure"} \cup Tasks

\* TypeOK for supervisors and shutters at once.
Typed ==
  /\ owners \subseteq Supervisors
  /\ admission \in [by : Shutters \cup {None}, fresh : BOOLEAN]
  /\ guard \in [by : Processes \cup {None}, stale : BOOLEAN]
  /\ socket \in [by : Supervisors \cup {None}, stale : BOOLEAN]
  /\ pc \in [Processes -> Points]
  /\ \A p \in Processes : pc[p] \in PointsOf(p)
  /\ at \in [Processes -> {"off", "locked", "decided", "written"}]
  /\ \A p \in Processes : at[p] # "off" => pc[p] \in Tasks
  /\ read \in [Processes -> [dead : SUBSET Supervisors, lapsed : BOOLEAN]]
  /\ spent \in [stalls : 0..MaxStalls, crashes : 0..MaxCrashes]

\* A guard directory tells its process from every other one.
InodesIdentify == InodesReused = FALSE

\* s decided to take the ownership, and its guard was not taken over since.
Deciding(s) == pc[s] = "acquiring" /\ at[s] \in {"decided", "written"} /\ guard.by = s

\* While a supervisor is about to become the owner, there is none, ...
DecidesAlone == \A s \in Supervisors : Deciding(s) => \A r \in Supervisors : ~Owns(r)

\* ... and nobody was told that it may shut daemons down.
DecidesInPeace == \A s \in Supervisors : Deciding(s) => ~InForce

OwnershipInv == Typed /\ DecidesAlone /\ DecidesInPeace /\ OneOwner

-------------------------------------------------------------------------------
(* Types *)

\* Typed is no weaker than TypeOK.
LEMMA TypedIsTypeOK == Typed => TypeOK
BY DEF Typed, TypeOK, PointsOf, Tasks, Processes

\* The records of a lock and of an admission that nobody holds.
LEMMA RecordsTyped ==
  /\ NoAdmission \in [by : Shutters \cup {None}, fresh : BOOLEAN]
  /\ Free \in [by : Processes \cup {None}, stale : BOOLEAN]
  /\ Free \in [by : Supervisors \cup {None}, stale : BOOLEAN]
BY DEF NoAdmission, Free

\* A count below its bound stays within it.
LEMMA CountTyped ==
  ASSUME NEW n \in [stalls : 0..MaxStalls, crashes : 0..MaxCrashes]
  PROVE  /\ n.stalls < MaxStalls
              => [n EXCEPT !.stalls = @ + 1] \in [stalls : 0..MaxStalls, crashes : 0..MaxCrashes]
         /\ n.crashes < MaxCrashes
              => [n EXCEPT !.crashes = @ + 1] \in [stalls : 0..MaxStalls, crashes : 0..MaxCrashes]
  OBVIOUS

\* A process that goes on to a place of its kind, and is under no guard there, is typed.
LEMMA GoTyped ==
  ASSUME Typed, NEW p \in Processes, NEW next \in PointsOf(p), Go(p, next),
         at' = [at EXCEPT ![p] = "off"] \/ (UNCHANGED at /\ at[p] = "off")
  PROVE  /\ pc' \in [Processes -> Points] /\ \A q \in Processes : pc'[q] \in PointsOf(q)
         /\ at' \in [Processes -> {"off", "locked", "decided", "written"}]
         /\ \A q \in Processes : at'[q] # "off" => pc'[q] \in Tasks
<1>1. next \in Points
  BY DEF PointsOf, Points, Tasks
<1>2. QED
  BY <1>1 DEF Typed, Go

\* An error takes a process to a place of its kind.
LEMMA ThrownTyped ==
  ASSUME Typed, NEW p \in Processes
  PROVE  Thrown(p) \in PointsOf(p)
<1>1. pc[p] \in PointsOf(p)
  BY DEF Typed
<1>2. QED
  BY <1>1 DEF Thrown, PointsOf, SupervisorTasks, ShutterTasks, Processes

\* The end of a section keeps the types of everything the section does not write.
LEMMA UnlockTyped ==
  ASSUME Typed, NEW p \in Processes, NEW next \in PointsOf(p), Unlock(p, next),
         owners' \subseteq Supervisors, 
         admission' \in [by : Shutters \cup {None}, fresh : BOOLEAN],
         UNCHANGED <<socket, spent>>
  PROVE  Typed'
<1>1. guard' \in [by : Processes \cup {None}, stale : BOOLEAN]
  BY DEF Typed, Unlock, Free
<1>2. read' \in [Processes -> [dead : SUBSET Supervisors, lapsed : BOOLEAN]]
  BY DEF Typed, Unlock, Nothing
<1>3. QED
  BY <1>1, <1>2, GoTyped DEF Typed, Unlock

\* So does reading the registry, whether p goes on to write or not.
LEMMA ReadTyped ==
  ASSUME Typed, NEW p \in Processes, NEW writes, NEW otherwise \in PointsOf(p), 
         Read(p, writes, otherwise),
         owners' \subseteq Supervisors, 
         admission' \in [by : Shutters \cup {None}, fresh : BOOLEAN]
  PROVE  Typed'
<1>1. CASE writes
  <2>1. Lapsed \in BOOLEAN
    BY DEF Lapsed
  <2>2. [dead |-> owners, lapsed |-> Lapsed] \in [dead : SUBSET Supervisors, lapsed : BOOLEAN]
    BY <2>1 DEF Typed
  <2>3. /\ read' = [read EXCEPT ![p] = [dead |-> owners, lapsed |-> Lapsed]]
        /\ at' = [at EXCEPT ![p] = "decided"] /\ at[p] = "locked"
        /\ UNCHANGED <<guard, pc, socket, spent>>
    BY <1>1 DEF Read
  <2>4. read' \in [Processes -> [dead : SUBSET Supervisors, lapsed : BOOLEAN]]
    BY <2>2, <2>3 DEF Typed
  <2>5. QED
    BY <2>3, <2>4 DEF Typed
<1>2. CASE ~writes
  BY <1>2, UnlockTyped DEF Read
<1>3. QED
  BY <1>1, <1>2

\* And the writes of a section.
LEMMA WriteTyped ==
  ASSUME Typed, NEW p \in Processes, Write(p), owners' \subseteq Supervisors,
         admission' \in [by : Shutters \cup {None}, fresh : BOOLEAN]
  PROVE  Typed'
BY DEF Typed, Write

\* And the second look at the guard, after which the section ends.
LEMMA DoneTyped ==
  ASSUME Typed, NEW p \in Processes, NEW next \in PointsOf(p), Done(p, next)
  PROVE  Typed'
BY UnlockTyped, ThrownTyped DEF Typed, Done

\* Types hold initially.
LEMMA TypedInit == Init => Typed
BY DEF Init, Typed, Points, PointsOf, NoAdmission, Free, Nothing
\* Types survive every step of a supervisor, of a process that shuts daemons down, and of
\* the environment.
LEMMA TypedStep == Typed /\ [Next]_vars => Typed'
<1> SUFFICES ASSUME Typed, [Next]_vars
             PROVE  Typed'
  OBVIOUS
<1> USE DEF SupervisorTasks, ShutterTasks
<1>1. ASSUME NEW p \in Processes, Lock(p)
      PROVE  Typed'
  BY <1>1 DEF Typed, Lock, Tasks
<1>2. ASSUME NEW p \in Processes, Fail(p)
      PROVE  Typed'
  <2>1. UNCHANGED <<owners, admission, socket, spent>>
    BY <1>2 DEF Fail
  <2>2. CASE at[p] = "off" /\ Go(p, Thrown(p)) /\ UNCHANGED <<guard, at, read>>
    BY <2>1, <2>2, GoTyped, ThrownTyped DEF Typed
  <2>3. CASE Unlock(p, Thrown(p))
    BY <2>1, <2>3, UnlockTyped, ThrownTyped DEF Typed
  <2>4. QED
    BY <1>2, <2>2, <2>3 DEF Fail
<1>3. ASSUME NEW p \in Processes, Stall(p)
      PROVE  Typed'
  <2>1. spent' \in [stalls : 0..MaxStalls, crashes : 0..MaxCrashes]
    BY <1>3, CountTyped DEF Stall, Typed
  <2>2. guard' \in [by : Processes \cup {None}, stale : BOOLEAN]
    <3>1. guard \in [by : Processes \cup {None}, stale : BOOLEAN]
      BY DEF Typed
    <3>2. (guard.stale \/ guard.by = p) \in BOOLEAN
      BY <3>1
    <3>3. QED
      BY <1>3, <3>1, <3>2 DEF Stall
  <2>3. socket' \in [by : Supervisors \cup {None}, stale : BOOLEAN]
    <3>1. socket \in [by : Supervisors \cup {None}, stale : BOOLEAN]
      BY DEF Typed
    <3>2. (socket.stale \/ socket.by = p) \in BOOLEAN
      BY <3>1
    <3>3. QED
      BY <1>3, <3>1, <3>2 DEF Stall
  <2>4. QED
    BY <1>3, <2>1, <2>2, <2>3 DEF Stall, Typed
<1>4. ASSUME NEW p \in Processes, Crash(p)
      PROVE  Typed'
  <2>1. "gone" \in PointsOf(p)
    BY DEF PointsOf
  <2>2. spent' \in [stalls : 0..MaxStalls, crashes : 0..MaxCrashes]
    BY <1>4, CountTyped DEF Crash, Typed
  <2>3. UNCHANGED <<owners, admission, guard, socket, read>>
    BY <1>4 DEF Crash, registry
  <2>4. QED
    BY <1>4, <2>1, <2>2, <2>3, GoTyped DEF Crash, Typed
<1>5. ASSUME NEW s \in Supervisors, SupervisorStep(s)
      PROVE  Typed'
  <2> USE DEF PointsOf
  <2> s \in Processes
    BY DEF Processes
  <2> HIDE DEF Processes
  <2>1. CASE Start(s) \/ Listen(s) \/ Close(s) \/ Exit(s)
    <3>1. \E next \in PointsOf(s) : Go(s, next)
      BY <2>1 DEF Start, Listen, Close, Exit
    <3>2. UNCHANGED <<registry, socket, at, read, spent>> /\ pc[s] \notin Tasks
      BY <2>1 DEF Start, Listen, Close, Exit, Tasks
    <3>3. QED
      BY <3>1, <3>2, GoTyped DEF Typed, registry
  <2>2. CASE TakeSocket(s)
    BY <2>2, GoTyped DEF TakeSocket, Typed, registry, Tasks
  <2>3. CASE LeaveSocket(s)
    <3>1. \E next \in PointsOf(s) : Go(s, next)
      BY <2>3 DEF LeaveSocket
    <3>2. UNCHANGED <<registry, at, read, spent>> /\ pc[s] \notin Tasks
      BY <2>3 DEF LeaveSocket, Tasks
    <3>3. socket' \in [by : Supervisors \cup {None}, stale : BOOLEAN]
      BY <2>3, RecordsTyped DEF LeaveSocket, Typed
    <3>4. QED
      BY <3>1, <3>2, <3>3, GoTyped DEF Typed, registry
  <2>4. CASE ReadOwners(s)
    <3>1. owners' \subseteq Supervisors /\ admission' \in [by : Shutters \cup {None}, fresh : BOOLEAN]
      BY <2>4, RecordsTyped DEF ReadOwners, Typed
    <3>2. QED
      BY <2>4, <3>1, ReadTyped DEF ReadOwners
  <2>5. CASE ReadOwnRecord(s)
    BY <2>5, ReadTyped DEF ReadOwnRecord, Typed
  <2>6. CASE WriteOwner(s)
    <3>1. owners' \subseteq Supervisors /\ admission' \in [by : Shutters \cup {None}, fresh : BOOLEAN]
      BY <2>6 DEF WriteOwner, Typed, NoAdmission
    <3>2. QED
      BY <2>6, <3>1, WriteTyped DEF WriteOwner
  <2>7. CASE DropOwner(s)
    BY <2>7, WriteTyped DEF DropOwner, Typed
  <2>8. CASE Own(s) \/ Released(s)
    BY <2>8, DoneTyped DEF Own, Released
  <2>9. QED
    BY <1>5, <2>1, <2>2, <2>3, <2>4, <2>5, <2>6, <2>7, <2>8 DEF SupervisorStep
<1>6. ASSUME NEW t \in Shutters, ShutterStep(t)
      PROVE  Typed'
  <2> t \in Processes /\ t \notin Supervisors
    BY DEF Processes
  <2>1. CASE Shut(t) \/ Renew(t)
    <3>1. \E next \in PointsOf(t) : Go(t, next)
      BY <2>1 DEF Shut, Renew, PointsOf
    <3>2. UNCHANGED <<registry, socket, at, read, spent>> /\ pc[t] \notin Tasks
      BY <2>1 DEF Shut, Renew, Tasks
    <3>3. QED
      BY <3>1, <3>2, GoTyped DEF Typed, registry
  <2>2. CASE ReadAdmission(t)
    BY <2>2, ReadTyped DEF ReadAdmission, Typed, PointsOf
  <2>3. CASE WriteAdmission(t)
    <3>1. admission' \in [by : Shutters \cup {None}, fresh : BOOLEAN]
      BY <2>3 DEF WriteAdmission, NoAdmission
    <3>2. QED
      BY <2>3, <3>1, WriteTyped DEF WriteAdmission, Typed
  <2>4. CASE Admitted(t)
    BY <2>4, DoneTyped DEF Admitted, PointsOf
  <2>5. ASSUME NEW s \in Supervisors, StopDaemon(t, s)
        PROVE  Typed'
    <3>1. /\ UNCHANGED <<owners, admission, guard, socket, read, spent>>
          /\ pc[t] = "sure" /\ s # t /\ s \in Processes
          /\ \E next \in {"closing", "gone"} : pc' = [pc EXCEPT ![t] = "holding", ![s] = next]
      BY <2>5 DEF StopDaemon, registry, Processes
    <3>2. \/ pc[s] = "serving" /\ UNCHANGED at
          \/ at' = [at EXCEPT ![s] = "off"]
      BY <2>5 DEF StopDaemon
    <3>3. QED
      BY <3>1, <3>2, SMTT(30) DEF Typed, Points, PointsOf, Tasks
  <2>6. QED
    BY <1>6, <2>1, <2>2, <2>3, <2>4, <2>5 DEF ShutterStep
<1>7. CASE Expire
  <2>1. spent' \in [stalls : 0..MaxStalls, crashes : 0..MaxCrashes]
    BY <1>7, CountTyped DEF Expire, Typed
  <2>2. admission' \in [by : Shutters \cup {None}, fresh : BOOLEAN]
    BY <1>7 DEF Expire, Typed
  <2>3. QED
    BY <1>7, <2>1, <2>2 DEF Expire, Typed
<1>8. CASE UNCHANGED vars
  BY <1>8 DEF vars, registry, Typed
<1>9. QED
  BY <1>1, <1>2, <1>3, <1>4, <1>5, <1>6, <1>7, <1>8 DEF Next

\* Every variable keeps its type, and only a process in one of its tasks is under the guard.
THEOREM TypeCorrect == Spec => []TypeOK
BY TypedInit, TypedStep, TypedIsTypeOK, PTL DEF Spec
-------------------------------------------------------------------------------
(* One owner, and none while daemons are shut down *)

\* Under the assumption, a process finds its guard stolen when the directory is not its own.
LEMMA StolenOrOwn ==
  ASSUME InodesIdentify, Typed, NEW p \in Processes
  PROVE  Stolen(p) <=> guard.by # p
BY DEF InodesIdentify, Stolen, Processes

\* An acquisition goes on only when every recorded owner is dead and no admission is active.
LEMMA MayOwnSees == MayOwn => ~InForce /\ \A r \in Supervisors : ~Owns(r)
BY DEF MayOwn, InForce, Owns, Alive

\* Steps after which nobody owns a daemon or holds an admission who did not before, and
\* nobody decides who did not before, keep what deciding supervisors rely on.
LEMMA NothingGained ==
  ASSUME DecidesAlone, DecidesInPeace, OneOwner,
         \A s \in Supervisors : Deciding(s)' => Deciding(s),
         \A s \in Supervisors : Owns(s)' => Owns(s),
         InForce' => InForce
  PROVE  DecidesAlone' /\ DecidesInPeace' /\ OneOwner'
BY DEF DecidesAlone, DecidesInPeace, OneOwner

\* The end of a section whose guard p still holds leaves no supervisor deciding.
LEMMA NobodyDecides ==
  ASSUME InodesIdentify, Typed, NEW p \in Processes, NEW next, Unlock(p, next), guard.by = p
  PROVE  \A s \in Supervisors : ~Deciding(s)'
<1>1. guard' = Free
  BY StolenOrOwn DEF Unlock
<1>2. QED
  BY <1>1 DEF Deciding, Free, Processes

\* The end of any section leaves only supervisors deciding that were.
LEMMA NobodyBegins ==
  ASSUME Typed, NEW p \in Processes, NEW next, Unlock(p, next)
  PROVE  \A s \in Supervisors : Deciding(s)' => Deciding(s)
<1>1. SUFFICES ASSUME NEW s \in Supervisors, Deciding(s)'
               PROVE  Deciding(s)
  OBVIOUS
<1>2. s # p /\ s # None
  BY <1>1 DEF Deciding, Unlock, Typed, Processes
<1>3. guard'.by = s /\ guard' # Free
  BY <1>1, <1>2 DEF Deciding, Free
<1>4. guard' = guard
  BY <1>3 DEF Unlock
<1>5. pc'[s] = pc[s] /\ at'[s] = at[s]
  BY <1>2 DEF Unlock, Go, Typed, Processes
<1>6. QED
  BY <1>1, <1>4, <1>5 DEF Deciding

\* A step that makes no record or admission, and takes nobody to a place where it would own
\* a daemon or hold an admission, gains nothing.
LEMMA NoNewPlace ==
  ASSUME Typed, Typed', 
         \A s \in Supervisors : s \in owners' => s \in owners \/ ~Owns(s)',
         \/ admission' \in {admission, NoAdmission}
         \/ admission'.by \in Shutters /\ pc'[admission'.by] \notin {"holding", "sure"},
         \A s \in Supervisors : pc'[s] \in {"starting", "serving", "closing"}
                                  => pc[s] \in {"starting", "serving", "closing"},
         \A t \in Shutters : pc'[t] \in {"holding", "sure"} => pc[t] \in {"holding", "sure"}
  PROVE  /\ \A s \in Supervisors : Owns(s)' => Owns(s)
         /\ InForce' => InForce
<1>1. \A s \in Supervisors : Owns(s)' => Owns(s)
  BY DEF Owns
<1>2. ASSUME InForce'
      PROVE  InForce
  <2>1. /\ admission'.by # None /\ admission'.fresh 
        /\ admission'.by \in Shutters /\ pc'[admission'.by] \in {"holding", "sure"}
    BY <1>2 DEF InForce, Active, Typed
  <2>2. admission' = admission
    BY <2>1 DEF NoAdmission
  <2>3. pc[admission.by] \in {"holding", "sure"}
    BY <2>1, <2>2
  <2>4. QED
    BY <2>1, <2>2, <2>3 DEF InForce, Active, Alive
<1>3. QED
  BY <1>1, <1>2

\* Own and Admitted are the only steps that make an owner or put an admission in force:
\* with the guard still theirs, so that no supervisor is deciding then.
LEMMA OwnershipStep ==
  InodesIdentify /\ OwnershipInv /\ [Next]_vars => DecidesAlone' /\ DecidesInPeace' /\ OneOwner'
<1> SUFFICES ASSUME InodesIdentify, OwnershipInv, [Next]_vars
             PROVE  DecidesAlone' /\ DecidesInPeace' /\ OneOwner'
  OBVIOUS
<1> DEFINE Kept == DecidesAlone' /\ DecidesInPeace' /\ OneOwner'
           OwningAt == {"starting", "serving", "closing"}
           HoldingAt == {"holding", "sure"}
<1> Typed /\ Typed'
  BY TypedStep DEF OwnershipInv
<1> DecidesAlone /\ DecidesInPeace /\ OneOwner
  BY DEF OwnershipInv
<1>1. ASSUME NEW p \in Processes, Lock(p)
      PROVE  Kept
  <2>1. \A s \in Supervisors : Deciding(s)' => Deciding(s)
    BY <1>1 DEF Lock, Deciding, Typed, Processes
  <2>2. UNCHANGED <<owners, admission, pc>>
    BY <1>1 DEF Lock
  <2>3. QED
    BY <2>1, <2>2, NothingGained DEF Owns, InForce, Active, Alive
<1>2. ASSUME NEW p \in Processes, NEW next, next \notin OwningAt \cup HoldingAt, Unlock(p, next),
             owners' \subseteq owners, admission' \in {admission, NoAdmission}
      PROVE  Kept
  <2>1. \A s \in Processes : pc'[s] = IF s = p THEN next ELSE pc[s]
    BY <1>2 DEF Unlock, Go, Typed
  <2>2. /\ \A s \in Supervisors : pc'[s] \in OwningAt => pc[s] \in OwningAt
        /\ \A t \in Shutters : pc'[t] \in HoldingAt => pc[t] \in HoldingAt
    BY <1>2, <2>1 DEF Processes
  <2>3. /\ \A s \in Supervisors : Owns(s)' => Owns(s)
        /\ InForce' => InForce
    BY <1>2, <2>2, NoNewPlace
  <2>4. QED
    BY <1>2, <2>3, NothingGained, NobodyBegins
<1>3. ASSUME NEW p \in Processes
      PROVE  Thrown(p) \notin OwningAt \cup HoldingAt
  BY DEF Thrown
<1>4. ASSUME NEW p \in Processes, Fail(p)
      PROVE  Kept
  <2>1. CASE Unlock(p, Thrown(p))
    BY <1>2, <1>3, <1>4, <2>1 DEF Fail
  <2>2. CASE Go(p, Thrown(p)) /\ UNCHANGED <<guard, at, read>>
    <3>1. \A s \in Processes : pc'[s] = IF s = p THEN Thrown(p) ELSE pc[s]
      BY <2>2 DEF Go, Typed
    <3>2. /\ \A s \in Supervisors : pc'[s] \in OwningAt => pc[s] \in OwningAt
          /\ \A t \in Shutters : pc'[t] \in HoldingAt => pc[t] \in HoldingAt
      BY <1>3, <3>1 DEF Processes
    <3>3. UNCHANGED <<owners, admission>>
      BY <1>4 DEF Fail
    <3>4. \A s \in Supervisors : Deciding(s)' => Deciding(s)
      BY <2>2, <3>1 DEF Deciding, Processes, Thrown
    <3>5. QED
      BY <3>2, <3>3, <3>4, NoNewPlace, NothingGained
  <2>3. QED
    BY <1>4, <2>1, <2>2 DEF Fail
<1>5. ASSUME NEW p \in Processes, Stall(p)
      PROVE  Kept
  BY <1>5, NothingGained DEF Stall, Deciding, Owns, InForce, Active, Alive, Typed
<1>6. ASSUME NEW p \in Processes, Crash(p)
      PROVE  Kept
  <2>1. \A s \in Processes : pc'[s] = IF s = p THEN "gone" ELSE pc[s]
    BY <1>6 DEF Crash, Go, Typed
  <2>2. \A s \in Processes : at'[s] = IF s = p THEN "off" ELSE at[s]
    BY <1>6 DEF Crash, Typed
  <2>3. UNCHANGED <<owners, admission, guard>>
    BY <1>6 DEF Crash, registry
  <2>4. \A s \in Supervisors : Deciding(s)' => Deciding(s)
    BY <2>1, <2>2, <2>3 DEF Deciding, Processes
  <2>5. QED
    BY <2>1, <2>3, <2>4, NoNewPlace, NothingGained DEF Processes
<1>7. ASSUME NEW s \in Supervisors, ReadOwners(s)
      PROVE  Kept
  <2>1. CASE MayOwn
    <3>1. (\A r \in Supervisors : ~Owns(r)) /\ ~InForce
      BY <2>1, MayOwnSees
    <3>2. UNCHANGED <<owners, admission, pc>>
      BY <1>7, <2>1 DEF ReadOwners, Read
    <3>3. (\A r \in Supervisors : ~Owns(r)') /\ ~InForce'
      BY <3>1, <3>2 DEF Owns, InForce, Active, Alive
    <3>4. QED
      BY <3>3 DEF DecidesAlone, DecidesInPeace, OneOwner
  <2>2. CASE ~MayOwn
    <3>1. owners' \subseteq owners /\ admission' \in {admission, NoAdmission}
      BY <1>7 DEF ReadOwners
    <3>2. Unlock(s, "refused")
      BY <1>7, <2>2 DEF ReadOwners, Read
    <3>3. QED
      BY <1>2, <3>1, <3>2 DEF Processes
  <2>3. QED
    BY <2>1, <2>2
<1>8. ASSUME NEW s \in Supervisors, WriteOwner(s)
      PROVE  Kept
  <2>1. owners' \subseteq owners \cup {s} /\ admission' \in {admission, NoAdmission}
    BY <1>8 DEF WriteOwner
  <2>2. pc[s] = "acquiring" /\ UNCHANGED <<pc, guard>> /\ at[s] = "decided" 
        /\ at' = [at EXCEPT ![s] = "written"]
    BY <1>8 DEF WriteOwner, Write
  <2>3. \A r \in Supervisors : Deciding(r)' => Deciding(r)
    BY <2>2 DEF Deciding, Typed, Processes
  <2>4. \A r \in Supervisors : r \in owners' => r \in owners \/ ~Owns(r)'
    BY <2>1, <2>2 DEF Owns
  <2>5. QED
    BY <2>1, <2>2, <2>3, <2>4, NoNewPlace, NothingGained
<1>9. ASSUME NEW s \in Supervisors, Own(s)
      PROVE  Kept
  <2> s \in Processes
    BY DEF Processes
  <2>1. UNCHANGED <<owners, admission>> /\ at[s] = "written" /\ pc[s] = "acquiring"
    BY <1>9 DEF Own, Done
  <2>2. CASE guard.by = s /\ s \in owners
    <3>1. Unlock(s, "starting")
      BY <1>9, <2>2, StolenOrOwn DEF Own, Done, Checked
    <3>2. \A r \in Processes : pc'[r] = IF r = s THEN "starting" ELSE pc[r]
      BY <3>1 DEF Unlock, Go, Typed
    <3>3. \A r \in Supervisors : ~Owns(r)
      BY <2>1, <2>2 DEF DecidesAlone, Deciding
    <3>4. \A r \in Supervisors : Owns(r)' => r = s
      BY <2>1, <3>2, <3>3 DEF Owns, Processes
    <3>5. \A r \in Supervisors : ~Deciding(r)'
      BY <2>2, <3>1, NobodyDecides
    <3>6. QED
      BY <3>4, <3>5 DEF DecidesAlone, DecidesInPeace, OneOwner
  <2>3. CASE ~(guard.by = s /\ s \in owners)
    <3>1. \E next \in {"refused", Thrown(s)} : Unlock(s, next)
      BY <1>9, <2>3, StolenOrOwn DEF Own, Done, Checked
    <3>2. QED
      BY <1>2, <1>3, <2>1, <3>1
  <2>4. QED
    BY <2>2, <2>3
<1>10. ASSUME NEW s \in Supervisors,
              Start(s) \/ TakeSocket(s) \/ Listen(s) \/ Close(s) \/ LeaveSocket(s) \/ Exit(s)
       PROVE  Kept
  <2>1. UNCHANGED <<owners, admission, guard, at>> /\ pc[s] # "acquiring"
    BY <1>10 DEF Start, TakeSocket, Listen, Close, LeaveSocket, Exit, registry
  <2>2. PICK next : pc' = [pc EXCEPT ![s] = next] /\ next \notin HoldingAt
                    /\ (next \in OwningAt => pc[s] \in OwningAt)
                    /\ (next = "acquiring" => pc[s] \notin Tasks)
    BY <1>10 DEF Start, TakeSocket, Listen, Close, LeaveSocket, Exit, Go, Tasks, SupervisorTasks, ShutterTasks
  <2>3. \A r \in Processes : pc'[r] = IF r = s THEN next ELSE pc[r]
    BY <2>2 DEF Typed
  <2>4. \A r \in Supervisors : Deciding(r)' => Deciding(r)
    BY <2>1, <2>2, <2>3 DEF Deciding, Typed, Processes
  <2>5. QED
    BY <2>1, <2>2, <2>3, <2>4, NoNewPlace, NothingGained DEF Processes
<1>11. ASSUME NEW s \in Supervisors, ReadOwnRecord(s) \/ DropOwner(s) \/ Released(s)
       PROVE  Kept
  <2> s \in Processes
    BY DEF Processes
  <2>1. owners' \subseteq owners /\ UNCHANGED admission /\ pc[s] = "releasing"
    BY <1>11 DEF ReadOwnRecord, DropOwner, Released, Done
  <2>2. CASE \E next \in {"exiting", Thrown(s)} : Unlock(s, next)
    BY <1>2, <1>3, <2>1, <2>2
  <2>3. CASE UNCHANGED <<pc, guard>> /\ \E next : at' = [at EXCEPT ![s] = next]
    <3>1. \A r \in Supervisors : Deciding(r)' => Deciding(r)
      BY <2>1, <2>3 DEF Deciding, Typed, Processes
    <3>2. QED
      BY <2>1, <2>3, <3>1, NoNewPlace, NothingGained
  <2>4. QED
    BY <1>11, <2>2, <2>3 DEF ReadOwnRecord, DropOwner, Released, Read, Write, Done
<1>12. ASSUME NEW t \in Shutters, Shut(t) \/ Renew(t)
       PROVE  Kept
  <2> t \in Processes /\ t \notin Supervisors
    BY DEF Processes
  <2>1. UNCHANGED <<owners, admission, guard, at>>
    BY <1>12 DEF Shut, Renew, registry
  <2>2. \E next \in ShutterTasks : pc' = [pc EXCEPT ![t] = next]
    BY <1>12 DEF Shut, Renew, Go, ShutterTasks
  <2>3. \A r \in Processes : r # t => pc'[r] = pc[r]
    BY <2>2 DEF Typed
  <2>4. \A r \in Supervisors : Deciding(r)' => Deciding(r)
    BY <2>1, <2>3 DEF Deciding, Processes
  <2>5. pc'[t] \notin HoldingAt
    BY <2>2 DEF Typed, ShutterTasks
  <2>6. QED
    BY <2>1, <2>3, <2>4, <2>5, NoNewPlace, NothingGained DEF Processes
<1>13. ASSUME NEW t \in Shutters, ReadAdmission(t)
       PROVE  Kept
  <2> t \in Processes /\ t \notin Supervisors
    BY DEF Processes
  <2>1. UNCHANGED <<owners, admission>>
    BY <1>13 DEF ReadAdmission
  <2>2. CASE \E next \in {"admitting", "leaving", "gone"} : Unlock(t, next)
    BY <1>2, <2>1, <2>2
  <2>3. CASE UNCHANGED <<pc, guard>> /\ \E next : at' = [at EXCEPT ![t] = next]
    <3>1. \A r \in Supervisors : Deciding(r)' => Deciding(r)
      BY <2>3 DEF Deciding, Typed, Processes
    <3>2. QED
      BY <2>1, <2>3, <3>1, NoNewPlace, NothingGained
  <2>4. QED
    BY <1>13, <2>2, <2>3 DEF ReadAdmission, Read
<1>14. ASSUME NEW t \in Shutters, WriteAdmission(t)
       PROVE  Kept
  <2> t \in Processes /\ t \notin Supervisors
    BY DEF Processes
  <2>1. UNCHANGED <<owners, pc, guard>> /\ at' = [at EXCEPT ![t] = "written"]
    BY <1>14 DEF WriteAdmission, Write
  <2>2. pc[t] \in Tasks
    BY <1>14 DEF WriteAdmission, Write, Typed
  <2>3. \/ admission' = NoAdmission
        \/ admission'.by = t /\ pc'[t] \notin HoldingAt
    BY <1>14, <2>1, <2>2 DEF WriteAdmission, Tasks, SupervisorTasks, ShutterTasks
  <2>4. \A r \in Supervisors : Deciding(r)' => Deciding(r)
    BY <2>1 DEF Deciding, Typed, Processes
  <2>5. QED
    BY <2>1, <2>3, <2>4, NoNewPlace, NothingGained
<1>15. ASSUME NEW t \in Shutters, Admitted(t)
       PROVE  Kept
  <2> t \in Processes /\ t \notin Supervisors
    BY DEF Processes
  <2>1. UNCHANGED <<owners, admission>>
    BY <1>15 DEF Admitted, Done
  <2>2. PICK next : Unlock(t, next) /\ (guard.by = t \/ next = Thrown(t))
    BY <1>15, StolenOrOwn DEF Admitted, Done, Checked
  <2>3. CASE guard.by = t
    <3>1. \A r \in Supervisors : ~Deciding(r)'
      BY <2>2, <2>3, NobodyDecides
    <3>2. \A r \in Supervisors : pc'[r] = pc[r]
      BY <2>2 DEF Unlock, Go, Typed, Processes
    <3>3. \A r \in Supervisors : Owns(r)' => Owns(r)
      BY <2>1, <3>2 DEF Owns
    <3>4. QED
      BY <3>1, <3>3 DEF DecidesAlone, DecidesInPeace, OneOwner
  <2>4. CASE guard.by # t
    BY <1>2, <1>3, <2>1, <2>2, <2>4
  <2>5. QED
    BY <2>3, <2>4
<1>16. ASSUME NEW t \in Shutters, NEW s \in Supervisors, StopDaemon(t, s)
       PROVE  Kept
  <2> t \in Processes /\ s \in Processes /\ s # t
    BY DEF Processes
  <2>1. /\ UNCHANGED <<owners, admission, guard>> /\ pc[t] = "sure"
        /\ pc[s] # "acquiring" \/ at' = [at EXCEPT ![s] = "off"]
    BY <1>16 DEF StopDaemon, registry
  <2>2. PICK next \in {"closing", "gone"} : pc' = [pc EXCEPT ![t] = "holding", ![s] = next]
                                            /\ (next = "closing" => pc[s] = "serving")
    BY <1>16 DEF StopDaemon
  <2>3. \A r \in Processes : pc'[r] = CASE r = s -> next [] r = t -> "holding" [] OTHER -> pc[r]
    BY <2>2 DEF Typed
  <2>4. \A r \in Supervisors : Deciding(r)' => Deciding(r)
    BY <1>16, <2>1, <2>3 DEF Deciding, Typed, Processes, StopDaemon
  <2>5. QED
    BY <2>1, <2>2, <2>3, <2>4, NoNewPlace, NothingGained DEF Processes
<1>17. CASE Expire
  <2>1. UNCHANGED <<owners, guard, pc, at>> /\ (InForce' => InForce)
    BY <1>17 DEF Expire, InForce, Active, Typed
  <2>2. QED
    BY <2>1, NothingGained DEF Deciding, Owns
<1>18. CASE UNCHANGED vars
  BY <1>18, NothingGained DEF vars, registry, Deciding, Owns, InForce, Active, Alive
<1>19. QED
  BY <1>1, <1>4, <1>5, <1>6, <1>7, <1>8, <1>9, <1>10, <1>11, <1>12, <1>13, <1>14, <1>15, <1>16,
     <1>17, <1>18 DEF Next, SupervisorStep, ShutterStep

\* The inductive invariant of the ownership registry.
THEOREM OwnershipInvariant ==
  ASSUME InodesIdentify
  PROVE  Spec => []OwnershipInv
<1>1. Init => OwnershipInv
  BY TypedInit DEF Init, OwnershipInv, DecidesAlone, DecidesInPeace, OneOwner, Deciding, Owns,
                   Free, Processes
<1>2. OwnershipInv /\ [Next]_vars => OwnershipInv'
  BY TypedStep, OwnershipStep DEF OwnershipInv
<1>3. QED
  BY <1>1, <1>2, PTL DEF Spec

\* DaemonSupervisorOwnership: a daemon has one owner, whoever is suspended under the guard
\* and resumes among the writes of its successor.
THEOREM OneOwnerOnly ==
  ASSUME InodesIdentify
  PROVE  Spec => []OneOwner
<1>1. OwnershipInv => OneOwner
  BY DEF OwnershipInv
<1>2. QED
  BY <1>1, OwnershipInvariant, PTL

\* A supervisor becomes the owner by Own alone, with the guard its own: it is deciding.
LEMMA OwnersDecided ==
  ASSUME InodesIdentify, OwnershipInv, [Next]_vars, 
         NEW s \in Supervisors, pc[s] = "acquiring", pc'[s] = "starting"
  PROVE  Deciding(s)
<1> Typed /\ s \in Processes /\ s \notin Shutters
  BY DEF OwnershipInv, Processes
<1>1. ASSUME NEW p \in Processes, NEW next, next # "starting" \/ p # s, Go(p, next)
      PROVE  FALSE
  BY <1>1 DEF Go, Typed
<1>2. ASSUME NEW p \in Processes
      PROVE  Thrown(p) # "starting"
  BY DEF Thrown
<1>3. ASSUME UNCHANGED pc
      PROVE  FALSE
  BY <1>3
<1>4. ASSUME NEW p \in Processes, Lock(p) \/ Fail(p) \/ Stall(p) \/ Crash(p)
      PROVE  FALSE
  BY <1>1, <1>2, <1>3, <1>4 DEF Lock, Fail, Stall, Crash, Unlock
<1>5. ASSUME NEW r \in Supervisors, SupervisorStep(r)
      PROVE  Deciding(s)
  <2> r \in Processes
    BY DEF Processes
  <2>1. CASE Own(r)
    <3>1. PICK next : Unlock(r, next) /\ (next = Thrown(r) \/ next = "refused" \/ guard.by = r)
      BY <2>1, StolenOrOwn DEF Own, Done, Checked
    <3>2. r = s /\ next = "starting"
      BY <1>1, <3>1 DEF Unlock
    <3>3. QED
      BY <1>2, <2>1, <3>1, <3>2 DEF Own, Done, Deciding
  <2>2. CASE ~Own(r)
    BY <1>1, <1>2, <1>3, <1>5, <2>2
       DEF SupervisorStep, Start, TakeSocket, ReadOwners, WriteOwner, Listen, Close, LeaveSocket,
           ReadOwnRecord, DropOwner, Released, Exit, Read, Write, Done, Unlock
  <2>3. QED
    BY <2>1, <2>2
<1>6. ASSUME NEW t \in Shutters, ShutterStep(t)
      PROVE  FALSE
  <2> t \in Processes /\ t # s
    BY DEF Processes
  <2>1. ASSUME NEW r \in Supervisors, StopDaemon(t, r)
        PROVE  FALSE
    <3>1. PICK next \in {"closing", "gone"} : pc' = [pc EXCEPT ![t] = "holding", ![r] = next]
      BY <2>1 DEF StopDaemon
    <3>2. QED
      BY <3>1 DEF Typed
  <2>2. QED
    BY <1>1, <1>3, <1>6, <2>1 DEF ShutterStep, Shut, Renew, ReadAdmission, WriteAdmission,
                                  Admitted, Read, Write, Done, Unlock
<1>7. CASE Expire \/ UNCHANGED vars
  BY <1>3, <1>7 DEF Expire, vars
<1>8. QED
  BY <1>4, <1>5, <1>6, <1>7 DEF Next

\* acquireDaemonSupervisorOwnership: no supervisor becomes the owner while a process shuts
\* daemons down under an admission, whatever was suspended meanwhile.
THEOREM ShutdownHoldsOwnersOff ==
  ASSUME InodesIdentify
  PROVE  Spec => ShutdownHoldsOff
<1>1. OwnershipInv /\ [Next]_vars =>
        [\A s \in Supervisors : pc[s] = "acquiring" /\ pc'[s] = "starting" => ~InForce]_vars
  BY OwnersDecided DEF OwnershipInv, DecidesInPeace
<1>2. QED
  BY <1>1, OwnershipInvariant, PTL DEF Spec, ShutdownHoldsOff
===============================================================================
