------------------------- MODULE SupervisorOwnership -------------------------
(***************************************************************************)
(* Which supervisor owns a daemon: the owner records and the shutdown      *)
(* admission in the registry directory (daemon-supervisor-ownership.ts),   *)
(* the guard under which every process changes them, and around it the     *)
(* lease on the socket path and the start and the end of a supervisor      *)
(* (daemon-supervisor.ts).  All supervisors want the same socket path, so  *)
(* any two owner records conflict.                                         *)
(*                                                                         *)
(* What a process does under the guard is synchronous, but a process may   *)
(* be suspended anywhere: then its guard grows stale and is taken over,    *)
(* and it resumes before its writes or after them.  Assumptions: the       *)
(* writes of one section are not torn apart, and a stale guard is broken   *)
(* by one process at a time.                                               *)
(***************************************************************************)
EXTENDS Naturals, FiniteSets

CONSTANTS
  Supervisors,   \* supervisor processes, each with a generation of its own
  Shutters,      \* processes that shut daemons down under an admission
  None,
  MaxStalls,     \* bound: suspensions of more than five seconds
  MaxCrashes,    \* bound: processes that die
  InodesReused   \* a new guard directory gets the inode of the one removed before

Processes == Supervisors \cup Shutters

ASSUME OwnershipAssumption ==
  /\ Supervisors \cap Shutters = {} /\ None \notin Processes
  /\ MaxStalls \in Nat /\ MaxCrashes \in Nat
  /\ InodesReused \in BOOLEAN

VARIABLES
  (* the registry directory *)
  owners,     \* supervisors with an owner record
  admission,  \* shutdown-admission.json
  guard,      \* the guard directory
  (* the lock on the socket path *)
  socket,
  (* the processes *)
  pc,         \* what a process is about to do
  at,         \* how far it is under the guard
  read,       \* what it has read there
  (* bookkeeping *)
  spent       \* stalls and crashes so far

registry == <<owners, admission, guard>>
vars == <<registry, socket, pc, at, read, spent>>

Free        == [by |-> None, stale |-> FALSE]
NoAdmission == [by |-> None, fresh |-> FALSE]
Nothing     == [dead |-> {}, lapsed |-> FALSE]

SupervisorTasks == {"acquiring", "releasing"}
ShutterTasks    == {"admitting", "renewing", "leaving"}

TypeOK ==
  /\ owners \subseteq Supervisors
  /\ admission \in [by : Shutters \cup {None}, fresh : BOOLEAN]
  /\ guard \in [by : Processes \cup {None}, stale : BOOLEAN]
  /\ socket \in [by : Supervisors \cup {None}, stale : BOOLEAN]
  /\ \A s \in Supervisors :
       pc[s] \in {"idle", "socket", "starting", "serving", "closing", "refused", "exiting", "gone"}
                 \cup SupervisorTasks
  /\ \A t \in Shutters : pc[t] \in {"idle", "holding", "sure", "gone"} \cup ShutterTasks
  /\ at \in [Processes -> {"off", "locked", "decided", "written"}]
  /\ \A p \in Processes : at[p] # "off" => pc[p] \in SupervisorTasks \cup ShutterTasks
  /\ read \in [Processes -> [dead : SUBSET Supervisors, lapsed : BOOLEAN]]
  /\ spent \in [stalls : 0..MaxStalls, crashes : 0..MaxCrashes]

Init ==
  /\ owners = {} /\ admission = NoAdmission /\ guard = Free /\ socket = Free
  /\ pc = [p \in Processes |-> "idle"]
  /\ at = [p \in Processes |-> "off"]
  /\ read = [p \in Processes |-> Nothing]
  /\ spent = [stalls |-> 0, crashes |-> 0]

-------------------------------------------------------------------------------
Alive(p) == pc[p] \notin {"idle", "gone"}

\* readActiveShutdownAdmission
Active == admission.by # None /\ admission.fresh /\ Alive(admission.by)
Lapsed == admission.by # None /\ ~Active

\* A lock directory that is missing, or whose process has not refreshed it.
Takable(lock) == lock.by # None => lock.stale \/ ~Alive(lock.by)

\* guardStolen: the directory is missing, or another one by its inode.
Stolen(p) == guard.by = None \/ (guard.by # p /\ ~InodesReused)

Go(p, next) == pc' = [pc EXCEPT ![p] = next]

-------------------------------------------------------------------------------
(* withDaemonSupervisorRegistryGuard: lock, check, read, write, check, unlock *)

Lock(p) ==
  /\ pc[p] \in SupervisorTasks \cup ShutterTasks
  /\ at[p] = "off"
  /\ Takable(guard)
  /\ guard' = [by |-> p, stale |-> FALSE]
  /\ at' = [at EXCEPT ![p] = "locked"]
  /\ UNCHANGED <<owners, admission, socket, pc, read, spent>>

\* The section ends, and p goes on; a guard in other hands is left alone.
Unlock(p, next) ==
  /\ guard' = IF Stolen(p) THEN guard ELSE Free
  /\ at' = [at EXCEPT ![p] = "off"]
  /\ read' = [read EXCEPT ![p] = Nothing]
  /\ Go(p, next)

\* Where an error in the section takes p.
Thrown(p) ==
  CASE pc[p] = "acquiring" -> "refused"
    [] pc[p] = "releasing" -> "exiting"
    [] pc[p] = "renewing"  -> "leaving"
    [] OTHER               -> "gone"

\* Retries that run out, or a guard that changed hands before anything was read.
Fail(p) ==
  /\ pc[p] \in SupervisorTasks \cup ShutterTasks
  /\ \/ at[p] = "off" /\ ~Takable(guard) /\ Go(p, Thrown(p)) /\ UNCHANGED <<guard, at, read>>
     \/ at[p] = "locked" /\ Stolen(p) /\ Unlock(p, Thrown(p))
  /\ UNCHANGED <<owners, admission, socket, spent>>

\* The action reads the registry: it goes on to write, or the section ends here.
Read(p, writes, otherwise) ==
  /\ at[p] = "locked" /\ ~Stolen(p)
  /\ IF writes
     THEN /\ read' = [read EXCEPT ![p] = [dead |-> owners, lapsed |-> Lapsed]]
          /\ at' = [at EXCEPT ![p] = "decided"]
          /\ UNCHANGED <<guard, pc>>
     ELSE Unlock(p, otherwise)
  /\ UNCHANGED <<socket, spent>>

Write(p) ==
  /\ at[p] = "decided"
  /\ at' = [at EXCEPT ![p] = "written"]
  /\ UNCHANGED <<guard, socket, pc, read, spent>>

\* Mutant of Checked: the section ends without another look at the guard.
Unchecked(p) == TRUE

\* The guard is still p's after the action.
Checked(p) == ~Stolen(p)

Done(p, next) ==
  /\ at[p] = "written"
  /\ Unlock(p, IF Checked(p) THEN next ELSE Thrown(p))
  /\ UNCHANGED <<owners, admission, socket, spent>>

-------------------------------------------------------------------------------
(* acquireDaemonSupervisorOwnership *)

\* Mutant of MayOwn: whether daemons are being shut down is asked by others.
MayOwnAnyTime == \A o \in owners : ~Alive(o)

\* Nobody shuts daemons down, and no owner lives.
MayOwn == ~Active /\ \A o \in owners : ~Alive(o)

\* A lapsed admission, and dead owners listed before the living one, are removed
\* although the acquisition is refused.
ReadOwners(s) ==
  /\ pc[s] = "acquiring"
  /\ Read(s, MayOwn, "refused")
  /\ IF MayOwn \/ Active
     THEN UNCHANGED <<owners, admission>>
     ELSE /\ admission' = NoAdmission
          /\ \E dead \in SUBSET {o \in owners : ~Alive(o)} : owners' = owners \ dead

\* Records of dead owners make room for the new one; renaming one that another
\* process has removed meanwhile throws.
WriteOwner(s) ==
  /\ pc[s] = "acquiring"
  /\ Write(s)
  /\ admission' = IF read[s].lapsed THEN NoAdmission ELSE admission
  /\ IF read[s].dead \subseteq owners
     THEN owners' = (owners \ read[s].dead) \cup {s}
     ELSE owners' \in {owners, owners \ read[s].dead}

Own(s) ==
  /\ pc[s] = "acquiring"
  /\ IF s \in owners THEN Done(s, "starting") ELSE Done(s, "refused")

(* DaemonSupervisorOwnership.release *)

ReadOwnRecord(s) ==
  /\ pc[s] = "releasing"
  /\ Read(s, s \in owners, "exiting")
  /\ UNCHANGED <<owners, admission>>

DropOwner(s) ==
  /\ pc[s] = "releasing"
  /\ Write(s)
  /\ owners' = owners \ {s}
  /\ UNCHANGED admission

Released(s) == pc[s] = "releasing" /\ Done(s, "exiting")

-------------------------------------------------------------------------------
(* A supervisor *)

Start(s) ==
  /\ pc[s] = "idle"
  /\ Go(s, "socket")
  /\ UNCHANGED <<registry, socket, at, read, spent>>

TakeSocket(s) ==
  /\ pc[s] = "socket"
  /\ Takable(socket)
  /\ socket' = [by |-> s, stale |-> FALSE]
  /\ Go(s, "acquiring")
  /\ UNCHANGED <<registry, at, read, spent>>

\* prepareDaemonSocketPath and listen: on a path that nobody serves.
Listen(s) ==
  /\ pc[s] = "starting"
  /\ \A o \in Supervisors : pc[o] # "serving"
  /\ Go(s, "serving")
  /\ UNCHANGED <<registry, socket, at, read, spent>>

\* Mutant of Close: signals are handled before the ownership is settled.
CloseAnyTime(s) ==
  /\ pc[s] \in {"acquiring", "starting", "serving"}
  /\ Go(s, "closing")
  /\ UNCHANGED <<registry, socket, at, read, spent>>

\* A startup that fails (the path is in use), a signal, or the lost lease on the path.
Close(s) ==
  /\ pc[s] \in {"starting", "serving"}
  /\ Go(s, "closing")
  /\ UNCHANGED <<registry, socket, at, read, spent>>

\* The lease on the socket path goes first.  One that was taken over is given up
\* with the successor's directory, unless the loss was noticed before.
LeaveSocket(s) ==
  /\ pc[s] \in {"closing", "refused"}
  /\ \/ socket' = Free
     \/ socket.by # s /\ UNCHANGED socket
  /\ Go(s, IF pc[s] = "closing" THEN "releasing" ELSE "exiting")
  /\ UNCHANGED <<registry, at, read, spent>>

Exit(s) ==
  /\ pc[s] = "exiting"
  /\ Go(s, "gone")
  /\ UNCHANGED <<registry, socket, at, read, spent>>

-------------------------------------------------------------------------------
(* DaemonShutdownAdmission *)

Shut(t) ==
  /\ pc[t] = "idle"
  /\ Go(t, "admitting")
  /\ UNCHANGED <<registry, socket, at, read, spent>>

\* While another admission is active, acquireDaemonShutdownAdmission asks again.
ReadAdmission(t) ==
  /\ UNCHANGED <<owners, admission>>
  /\ \/ pc[t] = "admitting" /\ Read(t, ~Active, "admitting")
     \/ pc[t] = "renewing" /\ Read(t, admission.by = t /\ admission.fresh, "leaving")
     \/ pc[t] = "leaving" /\ Read(t, admission.by = t, "gone")

WriteAdmission(t) ==
  /\ Write(t)
  /\ admission' = IF pc[t] = "leaving" THEN NoAdmission ELSE [by |-> t, fresh |-> TRUE]
  /\ UNCHANGED owners

Admitted(t) ==
  \/ pc[t] = "admitting" /\ Done(t, "holding")
  \/ pc[t] = "renewing" /\ Done(t, "sure")
  \/ pc[t] = "leaving" /\ Done(t, "gone")

\* assertOrRenew, before every step that stops something; or the end.
Renew(t) ==
  /\ pc[t] \in {"holding", "sure"}
  /\ \/ Go(t, "renewing")
     \/ Go(t, "leaving")
  /\ UNCHANGED <<registry, socket, at, read, spent>>

\* A supervisor is asked to shut down, or killed.
StopDaemon(t, s) ==
  /\ pc[t] = "sure"
  /\ \/ pc[s] = "serving" /\ pc' = [pc EXCEPT ![t] = "holding", ![s] = "closing"] /\ UNCHANGED at
     \/ Alive(s) /\ pc' = [pc EXCEPT ![t] = "holding", ![s] = "gone"] /\ at' = [at EXCEPT ![s] = "off"]
  /\ UNCHANGED <<registry, socket, read, spent>>

-------------------------------------------------------------------------------
(* The environment *)

\* A process is suspended for more than five seconds: its locks grow stale.
Stall(p) ==
  /\ spent.stalls < MaxStalls
  /\ spent' = [spent EXCEPT !.stalls = @ + 1]
  /\ p \in {guard.by, socket.by}
  /\ guard' = [guard EXCEPT !.stale = @ \/ guard.by = p]
  /\ socket' = [socket EXCEPT !.stale = @ \/ socket.by = p]
  /\ UNCHANGED <<owners, admission, pc, at, read>>

\* An admission is not renewed for five seconds.
Expire ==
  /\ spent.stalls < MaxStalls
  /\ spent' = [spent EXCEPT !.stalls = @ + 1]
  /\ admission.fresh
  /\ admission' = [admission EXCEPT !.fresh = FALSE]
  /\ UNCHANGED <<owners, guard, socket, pc, at, read>>

Crash(p) ==
  /\ spent.crashes < MaxCrashes
  /\ spent' = [spent EXCEPT !.crashes = @ + 1]
  /\ Alive(p)
  /\ Go(p, "gone")
  /\ at' = [at EXCEPT ![p] = "off"]
  /\ UNCHANGED <<registry, socket, read>>

-------------------------------------------------------------------------------
SupervisorStep(s) ==
  \/ Start(s) \/ TakeSocket(s)
  \/ ReadOwners(s) \/ WriteOwner(s) \/ Own(s)
  \/ Listen(s) \/ Close(s) \/ LeaveSocket(s)
  \/ ReadOwnRecord(s) \/ DropOwner(s) \/ Released(s) \/ Exit(s)

ShutterStep(t) ==
  \/ Shut(t) \/ ReadAdmission(t) \/ WriteAdmission(t) \/ Admitted(t) \/ Renew(t)
  \/ \E s \in Supervisors : StopDaemon(t, s)

Next ==
  \/ \E p \in Processes : Lock(p) \/ Fail(p) \/ Stall(p) \/ Crash(p)
  \/ \E s \in Supervisors : SupervisorStep(s)
  \/ \E t \in Shutters : ShutterStep(t)
  \/ Expire

Spec == Init /\ [][Next]_vars

-------------------------------------------------------------------------------
(* Properties *)

\* The supervisor takes itself for the owner, and assertCurrent agrees.
Owns(s) == pc[s] \in {"starting", "serving", "closing"} /\ s \in owners

\* At most one supervisor holds the ownership of a daemon, with which it reads and
\* rewrites its worker descriptors and command journal, also when a process is suspended
\* under the guard and resumes among the writes of its successor.
OneOwner == \A r, s \in Supervisors : Owns(r) /\ Owns(s) => r = s

\* An admission in force whose holder has been told so.
InForce == Active /\ pc[admission.by] \in {"holding", "sure"}

\* No supervisor becomes the owner while daemons are being shut down under an
\* admission, whatever was suspended between its look at the admission and its record.
ShutdownHoldsOff ==
  [][\A s \in Supervisors : pc[s] = "acquiring" /\ pc'[s] = "starting" => ~InForce]_vars
==============================================================================
