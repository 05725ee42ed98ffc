-------------------------- MODULE MutationGateProofs --------------------------
(***************************************************************************)
(* Proofs about MutationGate for every finite set of commands and of       *)
(* evictions.  The argument follows the lists: an actor is in the          *)
(* microtask queue, among the waiters of the latch or of a fence exactly   *)
(* once, and exactly as long as its place says so.  On top of that, the    *)
(* order of the queue: commands that pass an open fence hop in step, so    *)
(* none of them is behind a restart that was admitted among them.          *)
(***************************************************************************)
EXTENDS MutationGate, FiniteSetTheorems, TLAPS

USE GateAssumption

Hopping   == DOMAIN Hops \cup {"admitting"}
Preparing == {"draining", "recheck", "drained", "capturing"}
Counted   == Preparing \cup {"running"}

CommandPoints == {"idle", "refused", "done", "fenced", "running"} \cup Hopping \cup Preparing
EvictorPoints == {"idle", "waiting", "woken"} \cup Holding

Distinct(s) == \A i, j \in DOMAIN s : s[i] = s[j] => i = j

\* Commands and evictors have places of their own, and only restarts prepare.
KindInv ==
  /\ pc \in [Actors -> CommandPoints \cup EvictorPoints]
  /\ \A c \in Commands : pc[c] \in CommandPoints
  /\ \A c \in Commands : pc[c] \in Preparing => c \in Restarts
  /\ \A e \in Evictors : pc[e] \in EvictorPoints

\* The microtask queue holds the continuation of every actor that has one, once.
QueueInv ==
  /\ jobs \in Seq(Actors) /\ Distinct(jobs)
  /\ \A a \in Actors : pc[a] \in Queued <=> a \in Listed(jobs)

\* The latch knows everyone parked in waitForDrain.
WaiterInv ==
  /\ latchWaiters \in Seq(Actors) /\ Distinct(latchWaiters)
  /\ \A a \in Actors : pc[a] = "draining" <=> a \in Listed(latchWaiters)

\* Whoever waits at a fence waits at the one that is held.
FenceInv ==
  /\ fence \in Evictors \cup {"none"}
  /\ fenceWaiters \in [Evictors -> Seq(Actors)]
  /\ \A e \in Evictors : Distinct(fenceWaiters[e])
  /\ \A e \in Evictors : fenceWaiters[e] # <<>> => fence = e
  /\ \A a \in Actors :
       pc[a] \in {"fenced", "waiting"} <=> fence # "none" /\ a \in Listed(fenceWaiters[fence])

\* The latch counts the commands that were admitted and have not ended.
InFlight == {c \in Commands : pc[c] \in Counted}
CountInv == active = Cardinality(InFlight)

GateTypes == KindInv /\ QueueInv /\ WaiterInv /\ FenceInv /\ CountInv /\ OneFence

-------------------------------------------------------------------------------
\* How far a command is on its way past an open fence.
Rank == [fenceOpen |-> 0, owned |-> 1, serving |-> 2, admitting |-> 3]

\* Commands that pass an open fence hop in step.
Lockstep ==
  \A i, j \in DOMAIN jobs :
    i < j /\ jobs[i] \in Commands /\ jobs[j] \in Commands
          /\ pc[jobs[i]] \in Hopping /\ pc[jobs[j]] \in Hopping
      => Rank[pc[jobs[i]]] <= Rank[pc[jobs[j]]] /\ Rank[pc[jobs[j]]] <= Rank[pc[jobs[i]]] + 1

NoneHops == \A c \in Commands : pc[c] \notin Hopping

\* While commands hop, or a restart is prepared, none waits at a fence and no worker is
\* being stopped.
PhaseInv ==
  /\ phase \in {"none", "draining", "fencing", "prepared"}
  /\ ~NoneHops \/ phase # "none" =>
       /\ \A c \in Commands : pc[c] # "fenced"
       /\ \A e \in Evictors : pc[e] # "stopping"

\* One restart prepares, in the phases that say so; what it waited for is over.
RestartInv ==
  /\ \A p, q \in Commands : pc[p] \in Preparing /\ pc[q] \in Preparing => p = q
  /\ \A p \in Commands : pc[p] \in Preparing => phase \in {"draining", "fencing"}
  /\ \A p \in Commands : pc[p] = "capturing" => phase = "fencing"
  /\ \A p \in Commands : pc[p] = "recheck" => NoneHops
  /\ phase \in {"fencing", "prepared"} => NoneHops
  /\ \A p \in Commands : 
       pc[p] = "capturing" \/ (pc[p] = "drained" /\ phase = "fencing")
         => \A c \in Commands : pc[c] # "running"
  /\ phase = "prepared" => \A c \in Commands : pc[c] # "running"

\* Between its first drain and its next step, only commands hop that come before it and
\* are about to be admitted.
DrainedLast ==
  \A i, j \in DOMAIN jobs :
    jobs[i] \in Commands /\ pc[jobs[i]] = "drained" /\ jobs[j] \in Commands /\ pc[jobs[j]] \in Hopping
      => j < i /\ pc[jobs[j]] = "admitting"

GateInv == GateTypes /\ NoLostWakeup /\ Lockstep /\ PhaseInv /\ RestartInv /\ DrainedLast
-------------------------------------------------------------------------------
(* Sequences as lists without duplicates *)

\* A list that an actor joins at its end.
LEMMA AppendList ==
  ASSUME NEW S, NEW s \in Seq(S), NEW a \in S
  PROVE  /\ Append(s, a) \in Seq(S) /\ Append(s, a) # <<>>
         /\ Listed(Append(s, a)) = Listed(s) \cup {a}
         /\ Distinct(s) /\ a \notin Listed(s) => Distinct(Append(s, a))
<1> DEFINE t == Append(s, a)
<1>1. /\ t \in Seq(S) /\ DOMAIN t = 1..(Len(s) + 1) /\ t[Len(s) + 1] = a
      /\ DOMAIN s = 1..Len(s) /\ Len(s) \in Nat
      /\ \A i \in DOMAIN s : t[i] = s[i]
  OBVIOUS
<1> HIDE DEF t
<1>2. \A i \in DOMAIN t : i \in DOMAIN s \/ i = Len(s) + 1
  BY <1>1
<1>3. DOMAIN s \subseteq DOMAIN t /\ Len(s) + 1 \in DOMAIN t
  BY <1>1
<1>4. Listed(t) = Listed(s) \cup {a}
  BY <1>1, <1>2, <1>3 DEF Listed
<1>5. Distinct(s) /\ a \notin Listed(s) => Distinct(t)
  BY <1>1, <1>2 DEF Distinct, Listed
<1>6. t # <<>>
  BY <1>3
<1>7. QED
  BY <1>1, <1>4, <1>5, <1>6 DEF t

\* A list whose head is served.
LEMMA TailList ==
  ASSUME NEW S, NEW s \in Seq(S), s # <<>>
  PROVE  /\ Head(s) \in S /\ Head(s) \in Listed(s) /\ Tail(s) \in Seq(S)
         /\ Distinct(s) => Distinct(Tail(s)) /\ Listed(Tail(s)) = Listed(s) \ {Head(s)}
<1> DEFINE t == Tail(s)
<1>1. /\ t \in Seq(S) /\ Len(s) \in Nat \ {0} /\ DOMAIN t = 1..(Len(s) - 1) /\ DOMAIN s = 1..Len(s)
      /\ \A i \in DOMAIN t : t[i] = s[i + 1] /\ i + 1 \in DOMAIN s
      /\ Head(s) = s[1]
  OBVIOUS
<1> HIDE DEF t
<1>2. \A i \in DOMAIN s : i = 1 \/ (i - 1 \in DOMAIN t /\ t[i - 1] = s[i])
  BY <1>1
<1>3. Head(s) \in S /\ Head(s) \in Listed(s)
  BY <1>1 DEF Listed
<1>4. ASSUME Distinct(s)
      PROVE  Distinct(t)
  BY <1>1, <1>4 DEF Distinct
<1>5. ASSUME Distinct(s)
      PROVE  Listed(t) = Listed(s) \ {Head(s)}
  <2>1. ASSUME NEW i \in DOMAIN t
        PROVE  t[i] \in Listed(s) /\ t[i] # Head(s)
    BY <1>1, <1>5 DEF Distinct, Listed
  <2>2. ASSUME NEW i \in DOMAIN s, s[i] # Head(s)
        PROVE  s[i] \in Listed(t)
    BY <1>1, <1>2, <2>2 DEF Listed
  <2>3. QED
    BY <2>1, <2>2 DEF Listed
<1>6. QED
  BY <1>1, <1>3, <1>4, <1>5 DEF t

\* Two lists put one behind the other.
LEMMA ConcatList ==
  ASSUME NEW S, NEW s \in Seq(S), NEW t \in Seq(S)
  PROVE  /\ s \o t \in Seq(S) /\ Listed(s \o t) = Listed(s) \cup Listed(t)
         /\ Distinct(s) /\ Distinct(t) /\ Listed(s) \cap Listed(t) = {} => Distinct(s \o t)
<1> DEFINE u == s \o t
<1>1. /\ u \in Seq(S) /\ Len(s) \in Nat /\ Len(t) \in Nat 
      /\ DOMAIN u = 1..(Len(s) + Len(t)) /\ DOMAIN s = 1..Len(s) /\ DOMAIN t = 1..Len(t)
      /\ \A i \in DOMAIN s : u[i] = s[i] /\ i \in DOMAIN u
      /\ \A i \in DOMAIN t : u[Len(s) + i] = t[i] /\ Len(s) + i \in DOMAIN u
  OBVIOUS
<1> HIDE DEF u
<1>2. \A i \in DOMAIN u : i \in DOMAIN s \/ (i - Len(s) \in DOMAIN t /\ u[i] = t[i - Len(s)])
  BY <1>1
<1>3. Listed(u) = Listed(s) \cup Listed(t)
  BY <1>1, <1>2 DEF Listed
<1>4. ASSUME Distinct(s), Distinct(t), Listed(s) \cap Listed(t) = {}
      PROVE  Distinct(u)
  <2>1. ASSUME NEW i \in DOMAIN s, NEW j \in DOMAIN u, u[i] = u[j]
        PROVE  i = j
    <3>1. j \in DOMAIN s
      <4>1. ASSUME j - Len(s) \in DOMAIN t, u[j] = t[j - Len(s)]
            PROVE  FALSE
        <5>1. s[i] \in Listed(s) /\ s[i] \in Listed(t)
          BY <1>1, <2>1, <4>1 DEF Listed
        <5>2. QED
          BY <1>4, <5>1
      <4>2. QED
        BY <1>2, <4>1
    <3>2. QED
      BY <1>1, <1>4, <2>1, <3>1 DEF Distinct
  <2>2. ASSUME NEW i \in DOMAIN u, NEW j \in DOMAIN u, u[i] = u[j], i \notin DOMAIN s, j \notin DOMAIN s
        PROVE  i = j
    <3>1. i - Len(s) = j - Len(s)
      BY <1>2, <1>4, <2>2 DEF Distinct
    <3>2. QED
      BY <1>1, <3>1
  <2>3. QED
    BY <1>1, <2>1, <2>2 DEF Distinct
<1>5. QED
  BY <1>1, <1>3, <1>4 DEF u

\* The empty list.
LEMMA EmptyList ==
  ASSUME NEW S
  PROVE  <<>> \in Seq(S) /\ Listed(<<>>) = {} /\ Distinct(<<>>)
BY DEF Listed, Distinct

\* A list that an actor leaves, wherever it is.
LEMMA UnlistedList ==
  ASSUME NEW S, NEW s \in Seq(S), NEW a \in S, Distinct(s)
  PROVE  /\ Unlisted(s, a) \in Seq(S) /\ Distinct(Unlisted(s, a))
         /\ Listed(Unlisted(s, a)) = Listed(s) \ {a}
<1>1. CASE a \notin Listed(s)
  BY <1>1 DEF Unlisted
<1>2. CASE a \in Listed(s)
  <2> DEFINE k == CHOOSE i \in DOMAIN s : s[i] = a
             l == SubSeq(s, 1, k - 1)
             r == SubSeq(s, k + 1, Len(s))
  <2>1. k \in DOMAIN s /\ s[k] = a
    BY <1>2 DEF Listed
  <2> Unlisted(s, a) = l \o r
    BY <1>2 DEF Unlisted
  <2> HIDE DEF k
  <2>2. /\ l \in Seq(S) /\ DOMAIN l = 1..(k - 1)
        /\ \A i \in DOMAIN l : l[i] = s[i] /\ i \in DOMAIN s
    BY <2>1
  <2>3. /\ r \in Seq(S) /\ DOMAIN r = 1..(Len(s) - k)
        /\ \A i \in DOMAIN r : r[i] = s[k + i] /\ k + i \in DOMAIN s
    BY <2>1
  <2>4. DOMAIN s = 1..Len(s) /\ Len(s) \in Nat /\ k \in 1..Len(s)
    BY <2>1
  <2> HIDE DEF l, r
  <2>5. \A i \in DOMAIN s : \/ i = k
                            \/ i \in DOMAIN l
                            \/ i - k \in DOMAIN r /\ s[i] = r[i - k]
    BY <2>2, <2>3, <2>4
  <2>6. Distinct(l) /\ Distinct(r)
    <3>1. Distinct(l)
      BY <2>2 DEF Distinct
    <3>2. ASSUME NEW i \in DOMAIN r, NEW j \in DOMAIN r, r[i] = r[j]
          PROVE  i = j
      <4>1. k + i = k + j
        BY <2>3, <3>2 DEF Distinct
      <4>2. QED
        BY <2>3, <2>4, <4>1
    <3>3. QED
      BY <3>1, <3>2 DEF Distinct
  <2>7. Listed(l) \cap Listed(r) = {}
    <3>1. ASSUME NEW i \in DOMAIN l, NEW j \in DOMAIN r
          PROVE  l[i] # r[j]
      BY <2>2, <2>3, <2>4 DEF Distinct
    <3>2. QED
      BY <3>1 DEF Listed
  <2>8. Listed(l) \cup Listed(r) = Listed(s) \ {a}
    <3>1. \A i \in DOMAIN l : l[i] \in Listed(s) /\ l[i] # a
      BY <2>1, <2>2, <2>4 DEF Listed, Distinct
    <3>2. \A i \in DOMAIN r : r[i] \in Listed(s) /\ r[i] # a
      BY <2>1, <2>3, <2>4 DEF Listed, Distinct
    <3>3. \A i \in DOMAIN s : s[i] # a => s[i] \in Listed(l) \cup Listed(r)
      BY <2>1, <2>2, <2>3, <2>5 DEF Listed
    <3>4. QED
      BY <3>1, <3>2, <3>3 DEF Listed
  <2>9. QED
    BY <2>2, <2>3, <2>6, <2>7, <2>8, ConcatList
<1>3. QED
  BY <1>1, <1>2
-------------------------------------------------------------------------------
(* What a step does to the lists: one actor moves on, a command ends and     *)
(* wakes the waiters of the latch, or an evictor opens the fence             *)

\* a runs: in an event of its own, or as the head of the microtask queue.
Runs(a) ==
  \/ jobs = <<>> /\ pc[a] \notin Queued
  \/ jobs # <<>> /\ Head(jobs) = a

\* a moves on to s, and joins the list that s stands for.
Move(a, s) ==
  /\ GoTo(a, s)
  /\ jobs' = IF s \in Queued THEN Append(Others, a) ELSE Others
  /\ latchWaiters' = IF s = "draining" THEN Append(latchWaiters, a) ELSE latchWaiters
  /\ fenceWaiters' = IF s \in {"fenced", "waiting"}
                     THEN [fenceWaiters EXCEPT ![fence] = Append(@, a)] ELSE fenceWaiters
  /\ fence' = IF s = "acquired" THEN a ELSE fence
  /\ active' = IF a \in Commands /\ s \in Counted /\ pc[a] \notin Counted
               THEN active + 1 ELSE active

\* Where a may move on to from its place.
MayMove(a, s) ==
  /\ Runs(a) /\ pc[a] \notin Parked
  /\ a \in Commands => /\ s \in CommandPoints
                       /\ s \in Preparing => a \in Restarts
                       /\ pc[a] \in Counted => s \in Counted
                       /\ s = "fenced" => fence # "none"
  /\ a \in Evictors => /\ s \in EvictorPoints
                       /\ s = "waiting" => fence # "none"
                       /\ s = "acquired" => fence = "none"
                       /\ s \in Holding => s = "acquired" \/ pc[a] \in Holding

\* Whoever is parked in waitForDrain is outnumbered, whoever passes is not.
Drains(a, s) ==
  /\ s = "draining" => active' > Remaining(a)
  /\ s = "drained"  => active' <= Remaining(a)

\* What a command does with the phase as it moves on, and where from.
CommandMove(c, s) ==
  /\ Drains(c, s)
  /\ \/ s = "refused" /\ UNCHANGED phase
     \/ s = "fenced" /\ jobs = <<>> /\ phase = "none" /\ UNCHANGED phase
     \/ s = "running" /\ UNCHANGED phase
        /\ (pc[c] = "admitting" \/ (jobs = <<>> /\ ~HeldOff(c)))
     \/ s \in DOMAIN Rank /\ pc[c] \in DOMAIN Hops /\ Rank[s] = Rank[pc[c]] + 1 /\ UNCHANGED phase
     \/ s \in {"draining", "drained"} /\ phase = "none" /\ phase' = "draining"
        /\ (pc[c] = "admitting" \/ (jobs = <<>> /\ fence = "none"))
     \/ s \in {"draining", "drained"} /\ pc[c] = "recheck" /\ UNCHANGED phase
     \/ s \in {"draining", "drained"} /\ pc[c] = "drained"
        /\ phase = "draining" /\ phase' = "fencing"
     \/ s = "capturing" /\ pc[c] = "drained" /\ phase # "draining" /\ UNCHANGED phase

EvictorMove(e, s) ==
  /\ Drains(e, s)
  /\ s = "stopping" => jobs = <<>> /\ phase = "none"
  /\ UNCHANGED phase

\* c ends; every other waiter of the latch checks the count again.
Ends(c) ==
  /\ jobs = <<>> /\ pc[c] \in {"running", "capturing", "draining"}
  /\ EndAs(c, "done", Unlisted(latchWaiters, c))
  /\ phase' \in IF pc[c] = "running" THEN {phase} ELSE {"none", "prepared"}
  /\ phase' = "prepared" => pc[c] \in {"running", "capturing"}
  /\ UNCHANGED <<fence, fenceWaiters>>

\* e gives up its fence, and with it its place among the waiters of the latch.
Opens(e) ==
  /\ Runs(e) /\ pc[e] \in Holding
  /\ latchWaiters' = Unlisted(latchWaiters, e)
  /\ ReleaseFence(e)
  /\ UNCHANGED <<phase, active>>

\* Nobody is a command and an evictor.
LEMMA Kinds ==
  /\ \A a \in Actors : a \in Commands <=> a \notin Evictors
  /\ \A a \in Restarts : a \in Commands
  /\ \A a \in Commands : a \in Actors
  /\ \A a \in Evictors : a \in Actors /\ a # "none"
BY DEF Actors, Commands, Evictors

\* The queue without the actor that runs.
LEMMA OthersList ==
  ASSUME QueueInv, NEW a \in Actors, Runs(a)
  PROVE  /\ Others \in Seq(Actors) /\ Distinct(Others)
         /\ Listed(Others) = Listed(jobs) \ {a} /\ a \notin Listed(Others)
<1>1. CASE jobs = <<>>
  BY <1>1, EmptyList DEF Others
<1>2. CASE jobs # <<>>
  BY <1>2, TailList DEF Others, Runs, QueueInv
<1>3. QED
  BY <1>1, <1>2

\* One more command in flight, or one less, counts as one.
LEMMA CountOne ==
  ASSUME NEW S, NEW T, IsFiniteSet(S), NEW a, a \notin S, T = S \cup {a}
  PROVE  IsFiniteSet(T) /\ Cardinality(T) = Cardinality(S) + 1 /\ Cardinality(S) \in Nat
BY FS_AddElement, FS_CardinalityType

\* The commands in flight are finitely many.
LEMMA InFlightFinite ==
  /\ IsFiniteSet(InFlight) /\ IsFiniteSet(Commands) 
  /\ Cardinality(InFlight) \in 0..Cardinality(Commands)
<1>1. InFlight \subseteq Commands /\ Commands \subseteq Actors
  BY DEF InFlight, Actors
<1>2. QED
  BY <1>1, FS_Subset, FS_CardinalityType

\* The latch counts up to the number of commands.
LEMMA ActiveType ==
  ASSUME GateTypes
  PROVE  active \in 0..Cardinality(Commands) /\ active \in Nat
BY InFlightFinite, FS_CardinalityType DEF GateTypes, CountInv

\* waitForDrain parks an actor that is outnumbered, and lets the others pass.
LEMMA WaitForDrainMoves ==
  ASSUME NEW a, NEW n \in Nat, WaitForDrain(a, n), active' = n
  PROVE  \E s \in {"draining", "drained"} :
           /\ GoTo(a, s) /\ Drains(a, s)
           /\ jobs' = IF s = "drained" THEN Append(Others, a) ELSE Others
           /\ latchWaiters' = IF s = "draining" THEN Append(latchWaiters, a) ELSE latchWaiters
BY DEF WaitForDrain, Continue, Drains, Remaining

\* Every step but the end of a command and the opening of a fence moves one actor on.
LEMMA CommandMoves ==
  ASSUME GateTypes, NEW c \in Commands,
         \/ Refuse(c) \/ WaitAtFence(c) \/ AdmitAtOnce(c) \/ PassFence(c) \/ AdmitAfterFence(c)
         \/ Recheck(c) \/ (c \in Restarts /\ RestartDrained(c))
  PROVE  \E s : Move(c, s) /\ MayMove(c, s) /\ CommandMove(c, s)
<1> c \in Actors /\ c \notin Evictors
  BY Kinds
<1>1. pc[c] \in CommandPoints /\ (pc[c] \in Preparing => c \in Restarts)
  BY DEF GateTypes, KindInv
<1>2. jobs = <<>> => Others = jobs
  BY DEF Others
<1>3. CASE Refuse(c)
  <2>1. Move(c, "refused") /\ MayMove(c, "refused") /\ CommandMove(c, "refused")
    BY <1>2, <1>3 DEF Refuse, Event, Move, MayMove, Runs, Queued, Hops, Parked, CommandPoints,
                      Preparing, Counted, CommandMove, Drains
  <2>2. QED
    BY <2>1
<1>4. CASE WaitAtFence(c)
  <2>1. Move(c, "fenced") /\ MayMove(c, "fenced") /\ CommandMove(c, "fenced")
    BY <1>2, <1>4 DEF WaitAtFence, Event, Move, MayMove, Runs, Queued, Hops, Parked, CommandPoints,
                      Preparing, Counted, CommandMove, Drains, HeldOff
  <2>2. QED
    BY <2>1
<1>5. CASE AdmitAtOnce(c) \/ AdmitAfterFence(c)
  <2>1. /\ Admit(c) /\ Runs(c) /\ pc[c] \in {"idle", "admitting"}
        /\ pc[c] = "admitting" \/ (jobs = <<>> /\ ~HeldOff(c) /\ (c \in Restarts => fence = "none"))
    BY <1>5 DEF AdmitAtOnce, AdmitAfterFence, Event, Job, Runs, Queued, Hops, Commands
  <2>2. CASE c \in Restarts /\ phase = "none"
    <3>1. PICK s \in {"draining", "drained"} :
            /\ GoTo(c, s) /\ Drains(c, s)
            /\ jobs' = IF s = "drained" THEN Append(Others, c) ELSE Others
            /\ latchWaiters' = IF s = "draining" THEN Append(latchWaiters, c) ELSE latchWaiters
      BY <2>1, <2>2, WaitForDrainMoves, ActiveType DEF Admit
    <3>2. active' = active + 1 /\ phase' = "draining" /\ UNCHANGED <<fence, fenceWaiters>>
      BY <2>1, <2>2 DEF Admit
    <3>3. Move(c, s) /\ MayMove(c, s)
      BY <2>1, <2>2, <3>1, <3>2
         DEF Move, MayMove, Queued, Hops, Parked, CommandPoints, Preparing, Counted
    <3>4. CommandMove(c, s)
      BY <2>1, <2>2, <3>1, <3>2 DEF CommandMove
    <3>5. QED
      BY <3>3, <3>4
  <2>3. CASE ~(c \in Restarts /\ phase = "none")
    <3>1. /\ active' = active + 1 /\ jobs' = Others /\ GoTo(c, "running")
          /\ UNCHANGED <<phase, latchWaiters, fence, fenceWaiters>>
      BY <2>1, <2>3 DEF Admit
    <3>2. Move(c, "running") /\ MayMove(c, "running")
      BY <2>1, <3>1 DEF Move, MayMove, Queued, Hops, Parked, CommandPoints, Preparing, Counted
    <3>3. CommandMove(c, "running")
      BY <2>1, <3>1 DEF CommandMove, Drains
    <3>4. QED
      BY <3>2, <3>3
  <2>4. QED
    BY <2>2, <2>3
<1>6. CASE PassFence(c)
  <2>1. PICK s \in Hopping : /\ GoTo(c, s) /\ jobs' = Append(Others, c)
                             /\ s = Hops[pc[c]]
    BY <1>6 DEF PassFence, Continue, Hopping, Hops
  <2>2. Move(c, s) /\ MayMove(c, s)
    BY <1>6, <2>1 DEF PassFence, Job, Runs, Move, MayMove, Queued, Hops, Hopping, Parked,
                      CommandPoints, Preparing, Counted
  <2>3. CommandMove(c, s)
    BY <1>6, <2>1 DEF PassFence, CommandMove, Drains, Hopping, Hops, Rank
  <2>4. QED
    BY <2>2, <2>3
<1>7. CASE Recheck(c)
  <2>1. PICK s \in {"draining", "drained"} :
          /\ GoTo(c, s) /\ Drains(c, s)
          /\ jobs' = IF s = "drained" THEN Append(Others, c) ELSE Others
          /\ latchWaiters' = IF s = "draining" THEN Append(latchWaiters, c) ELSE latchWaiters
    BY <1>7, WaitForDrainMoves, ActiveType DEF Recheck
  <2>2. pc[c] = "recheck" /\ Runs(c) /\ UNCHANGED <<phase, fence, fenceWaiters, active>>
    BY <1>7 DEF Recheck, Job, Runs
  <2>3. Move(c, s) /\ MayMove(c, s)
    BY <1>1, <2>1, <2>2 DEF Move, MayMove, Queued, Hops, Parked, CommandPoints, Preparing, Counted
  <2>4. CommandMove(c, s)
    BY <2>1, <2>2 DEF CommandMove
  <2>5. QED
    BY <2>3, <2>4
<1>8. CASE RestartDrained(c)
  <2>1. pc[c] = "drained" /\ Runs(c) /\ UNCHANGED <<fence, fenceWaiters, active>>
    BY <1>8 DEF RestartDrained, Job, Runs
  <2>2. CASE phase = "draining"
    <3>1. PICK s \in {"draining", "drained"} :
            /\ GoTo(c, s) /\ Drains(c, s)
            /\ jobs' = IF s = "drained" THEN Append(Others, c) ELSE Others
            /\ latchWaiters' = IF s = "draining" THEN Append(latchWaiters, c) ELSE latchWaiters
      BY <1>8, <2>1, <2>2, WaitForDrainMoves, ActiveType DEF RestartDrained
    <3>2. Move(c, s) /\ MayMove(c, s)
      BY <1>1, <2>1, <3>1 DEF Move, MayMove, Queued, Hops, Parked, CommandPoints, Preparing, Counted
    <3>3. CommandMove(c, s)
      BY <1>8, <2>1, <2>2, <3>1 DEF CommandMove, RestartDrained
    <3>4. QED
      BY <3>2, <3>3
  <2>3. CASE phase # "draining"
    <3>1. jobs' = Others /\ GoTo(c, "capturing") /\ UNCHANGED <<phase, latchWaiters>>
      BY <1>8, <2>3 DEF RestartDrained
    <3>2. Move(c, "capturing") /\ MayMove(c, "capturing")
      BY <1>1, <2>1, <3>1 DEF Move, MayMove, Queued, Hops, Parked, CommandPoints, Preparing, Counted
    <3>3. CommandMove(c, "capturing")
      BY <2>1, <2>3, <3>1 DEF CommandMove, Drains
    <3>4. QED
      BY <3>2, <3>3
  <2>4. QED
    BY <2>2, <2>3
<1>9. QED
  BY <1>3, <1>4, <1>5, <1>6, <1>7, <1>8

\* So it is with evictors.
LEMMA EvictorMoves ==
  ASSUME GateTypes, NEW e \in Evictors,
         \/ Recheck(e) \/ StartEviction(e) \/ Woken(e) \/ Acquired(e) \/ StopWorker(e)
         \/ Decide(e) /\ ~ReleaseFence(e)
  PROVE  \E s : Move(e, s) /\ MayMove(e, s) /\ EvictorMove(e, s)
<1> e \in Actors /\ e \notin Commands
  BY Kinds
<1> USE DEF Queued, Hops, Parked, EvictorPoints, Holding, Counted, Preparing
<1>1. CASE StartEviction(e) \/ Woken(e)
  <2>1. /\ AcquireFence(e) /\ Runs(e) /\ pc[e] \notin Parked
        /\ UNCHANGED <<phase, active, latchWaiters>>
    BY <1>1 DEF StartEviction, Woken, Event, Job, Runs
  <2>2. CASE fence = "none"
    <3>1. Move(e, "acquired") /\ MayMove(e, "acquired")
      BY <2>1, <2>2 DEF AcquireFence, Continue, Move, MayMove
    <3>2. QED
      BY <2>1, <3>1 DEF EvictorMove, Drains
  <2>3. CASE fence # "none"
    <3>1. Move(e, "waiting") /\ MayMove(e, "waiting")
      BY <2>1, <2>3 DEF AcquireFence, Move, MayMove
    <3>2. QED
      BY <2>1, <3>1 DEF EvictorMove, Drains
  <2>4. QED
    BY <2>2, <2>3
<1>2. CASE Recheck(e) \/ Acquired(e)
  <2>1. /\ pc[e] \in {"recheck", "acquired"} /\ Runs(e) /\ WaitForDrain(e, active)
        /\ UNCHANGED <<phase, fence, fenceWaiters, active>>
    BY <1>2 DEF Recheck, Acquired, Job, Runs
  <2>2. PICK s \in {"draining", "drained"} :
          /\ GoTo(e, s) /\ Drains(e, s)
          /\ jobs' = IF s = "drained" THEN Append(Others, e) ELSE Others
          /\ latchWaiters' = IF s = "draining" THEN Append(latchWaiters, e) ELSE latchWaiters
    BY <2>1, WaitForDrainMoves, ActiveType
  <2>3. Move(e, s) /\ MayMove(e, s)
    BY <2>1, <2>2 DEF Move, MayMove
  <2>4. EvictorMove(e, s)
    BY <2>1, <2>2 DEF EvictorMove
  <2>5. QED
    BY <2>3, <2>4
<1>3. CASE Decide(e) /\ ~ReleaseFence(e)
  <2>1. Move(e, "refreshing") /\ MayMove(e, "refreshing")
    BY <1>3 DEF Decide, Job, Runs, Move, MayMove
  <2>2. QED
    BY <1>3, <2>1 DEF Decide, EvictorMove, Drains
<1>4. CASE StopWorker(e)
  <2>1. jobs = <<>> => Others = jobs
    BY DEF Others
  <2>2. Move(e, "stopping") /\ MayMove(e, "stopping")
    BY <1>4, <2>1 DEF StopWorker, Event, Runs, Move, MayMove
  <2>3. QED
    BY <1>4, <2>2 DEF StopWorker, Event, EvictorMove, Drains
<1>5. QED
  BY <1>1, <1>2, <1>3, <1>4

\* The end of a command wakes the waiters, also when it is one of them.
LEMMA CommandEnds ==
  ASSUME GateTypes, NEW c \in Commands,
         \/ EndCommand(c) \/ (c \in Restarts /\ (CaptureEnds(c) \/ RestartTimesOut(c)))
  PROVE  Ends(c)
<1>1. CASE EndCommand(c) \/ CaptureEnds(c)
  <2>1. pc[c] \in {"running", "capturing"}
    BY <1>1 DEF EndCommand, CaptureEnds, Event
  <2>2. Unlisted(latchWaiters, c) = latchWaiters
    BY <2>1, Kinds DEF GateTypes, WaiterInv, Unlisted
  <2>3. QED
    BY <1>1, <2>2 DEF EndCommand, CaptureEnds, Event, Ends
<1>2. CASE RestartTimesOut(c)
  BY <1>2 DEF RestartTimesOut, Event, Ends
<1>3. QED
  BY <1>1, <1>2

\* An eviction that ends, or times out, opens its fence.
LEMMA EvictionOpens ==
  ASSUME GateTypes, NEW e \in Evictors,
         EvictionTimesOut(e) \/ EndEviction(e) \/ (Decide(e) /\ ReleaseFence(e))
  PROVE  Opens(e)
<1> USE DEF Queued, Hops, Holding
<1>1. CASE EvictionTimesOut(e)
  BY <1>1 DEF EvictionTimesOut, Event, Opens, Runs
<1>2. CASE EndEviction(e) \/ (Decide(e) /\ ReleaseFence(e))
  <2>1. pc[e] \in {"refreshing", "stopping", "drained"} /\ Runs(e) /\ ReleaseFence(e)
        /\ UNCHANGED <<phase, active, latchWaiters>>
    BY <1>2 DEF EndEviction, Decide, Event, Job, Runs
  <2>2. Unlisted(latchWaiters, e) = latchWaiters
    BY <2>1, Kinds DEF GateTypes, WaiterInv, Unlisted
  <2>3. QED
    BY <2>1, <2>2 DEF Opens
<1>3. QED
  BY <1>1, <1>2
-------------------------------------------------------------------------------
(* The lists, the count and the fence *)

\* Lists, count and fence are right initially.
LEMMA GateTypesInit == Init => GateTypes
<1> SUFFICES ASSUME Init
             PROVE  GateTypes
  OBVIOUS
<1>1. KindInv
  BY Kinds DEF Init, KindInv, CommandPoints, EvictorPoints, Preparing
<1>2. QueueInv /\ WaiterInv
  BY EmptyList DEF Init, QueueInv, WaiterInv, Queued, Hops
<1>3. FenceInv
  BY EmptyList DEF Init, FenceInv
<1>4. InFlight = {}
  BY Kinds DEF Init, InFlight, Counted, Preparing
<1>5. CountInv
  BY <1>4, FS_EmptySet DEF Init, CountInv
<1>6. QED
  BY <1>1, <1>2, <1>3, <1>5, Kinds DEF Init, GateTypes, OneFence, Holding

\* An actor that moves on.
LEMMA MoveStep ==
  ASSUME GateTypes, NEW a \in Actors, NEW s, Move(a, s), MayMove(a, s)
  PROVE  GateTypes'
<1>1. KindInv /\ QueueInv /\ WaiterInv /\ FenceInv /\ CountInv /\ OneFence /\ Runs(a)
  BY DEF GateTypes, MayMove
<1>2. \A b \in Actors : pc'[b] = IF b = a THEN s ELSE pc[b]
  BY <1>1 DEF Move, GoTo, KindInv
<1>3. s \in CommandPoints \cup EvictorPoints
  BY Kinds DEF MayMove
<1>4. KindInv'
  <2>1. pc' \in [Actors -> CommandPoints \cup EvictorPoints]
    BY <1>1, <1>3 DEF Move, GoTo, KindInv
  <2>2. QED
    BY <1>1, <1>2, <2>1, Kinds DEF MayMove, KindInv
<1>5. QueueInv'
  <2>1. /\ Others \in Seq(Actors) /\ Distinct(Others)
        /\ Listed(Others) = Listed(jobs) \ {a} /\ a \notin Listed(Others)
    BY <1>1, OthersList
  <2>2. CASE s \in Queued
    <3>1. /\ jobs' \in Seq(Actors) /\ Distinct(jobs')
          /\ Listed(jobs') = Listed(Others) \cup {a}
      BY <2>1, <2>2, AppendList DEF Move
    <3>2. QED
      BY <1>1, <1>2, <2>1, <2>2, <3>1 DEF QueueInv, Listed
  <2>3. CASE s \notin Queued
    BY <1>1, <1>2, <2>1, <2>3 DEF QueueInv, Move
  <2>4. QED
    BY <2>2, <2>3
<1>6. WaiterInv'
  <2>1. pc[a] # "draining" /\ a \notin Listed(latchWaiters)
    BY <1>1 DEF MayMove, Parked, WaiterInv
  <2>2. CASE s = "draining"
    <3>1. /\ latchWaiters' \in Seq(Actors) /\ Distinct(latchWaiters')
          /\ Listed(latchWaiters') = Listed(latchWaiters) \cup {a}
      BY <1>1, <2>1, <2>2, AppendList DEF Move, WaiterInv
    <3>2. QED
      BY <1>1, <1>2, <2>2, <3>1 DEF WaiterInv
  <2>3. CASE s # "draining"
    BY <1>1, <1>2, <2>1, <2>3 DEF WaiterInv, Move
  <2>4. QED
    BY <2>2, <2>3
<1>7. FenceInv'
  <2>1. pc[a] \notin {"fenced", "waiting"}
    BY DEF MayMove, Parked
  <2>2. CASE s \in {"fenced", "waiting"}
    <3>1. fence \in Evictors /\ fence' = fence
      BY <1>1, <2>2, Kinds DEF MayMove, Move, FenceInv, CommandPoints, EvictorPoints, Hopping, Hops,
                               Preparing, Holding
    <3>2. fenceWaiters[fence] \in Seq(Actors) /\ Distinct(fenceWaiters[fence])
          /\ a \notin Listed(fenceWaiters[fence])
      BY <1>1, <2>1, <3>1, Kinds DEF FenceInv
    <3> DEFINE w == Append(fenceWaiters[fence], a)
    <3>3. /\ w \in Seq(Actors) /\ w # <<>> /\ Distinct(w)
          /\ Listed(w) = Listed(fenceWaiters[fence]) \cup {a}
      BY <3>2, AppendList
    <3> HIDE DEF w
    <3>4. fenceWaiters' = [fenceWaiters EXCEPT ![fence] = w]
      BY <2>2 DEF Move, w
    <3>5. \A e \in Evictors : fenceWaiters'[e] = IF e = fence THEN w ELSE fenceWaiters[e]
      BY <1>1, <3>4 DEF FenceInv
    <3>6. fenceWaiters' \in [Evictors -> Seq(Actors)]
      BY <1>1, <3>3, <3>4 DEF FenceInv
    <3>7. \A e \in Evictors : Distinct(fenceWaiters'[e]) /\ (fenceWaiters'[e] # <<>> => fence' = e)
      BY <1>1, <3>1, <3>3, <3>5 DEF FenceInv
    <3>8. ASSUME NEW b \in Actors
          PROVE  pc'[b] \in {"fenced", "waiting"}
                   <=> fence' # "none" /\ b \in Listed(fenceWaiters'[fence'])
      BY <1>1, <1>2, <2>1, <2>2, <3>1, <3>3, <3>5, Kinds DEF FenceInv
    <3>9. QED
      BY <3>1, <3>6, <3>7, <3>8 DEF FenceInv
  <2>3. CASE s = "acquired"
    <3>1. a \in Evictors /\ fence = "none" /\ fence' = a /\ fenceWaiters' = fenceWaiters
      BY <2>3, Kinds DEF MayMove, Move, CommandPoints, Hopping, Hops, Preparing
    <3>2. \A e \in Evictors : fenceWaiters[e] = <<>>
      BY <1>1, <3>1, Kinds DEF FenceInv
    <3>3. \A b \in Actors : pc'[b] \notin {"fenced", "waiting"}
      BY <1>1, <1>2, <2>3, <3>1 DEF FenceInv
    <3>4. QED
      BY <1>1, <3>1, <3>2, <3>3, EmptyList DEF FenceInv
  <2>4. CASE s \notin {"fenced", "waiting", "acquired"}
    <3>1. fence' = fence /\ fenceWaiters' = fenceWaiters
      BY <2>4 DEF Move
    <3>2. QED
      BY <1>1, <1>2, <2>1, <2>4, <3>1 DEF FenceInv
  <2>5. QED
    BY <2>2, <2>3, <2>4
<1>8. CountInv'
  <2>1. CASE a \in Commands /\ s \in Counted /\ pc[a] \notin Counted
    <3>1. InFlight' = InFlight \cup {a} /\ a \notin InFlight
      BY <1>2, <2>1, Kinds DEF InFlight
    <3>2. active' = active + 1
      BY <2>1 DEF Move
    <3>3. QED
      BY <1>1, <3>1, <3>2, InFlightFinite, CountOne DEF CountInv
  <2>2. CASE ~(a \in Commands /\ s \in Counted /\ pc[a] \notin Counted)
    <3>1. InFlight' = InFlight
      BY <1>2, <2>2, Kinds DEF InFlight, MayMove
    <3>2. active' = active
      BY <2>2 DEF Move
    <3>3. QED
      BY <1>1, <3>1, <3>2 DEF CountInv
  <2>3. QED
    BY <2>1, <2>2
<1>9. OneFence'
  <2>1. CASE s = "acquired"
    <3>1. a \in Evictors /\ fence = "none" /\ fence' = a
      BY <2>1, Kinds DEF MayMove, Move, CommandPoints, Hopping, Hops, Preparing
    <3>2. \A e \in Evictors : pc[e] \notin Holding
      BY <1>1, <3>1, Kinds DEF OneFence
    <3>3. QED
      BY <1>2, <3>1, <3>2, Kinds DEF OneFence
  <2>2. CASE s # "acquired"
    <3>1. fence' = fence /\ (a \in Evictors /\ s \in Holding => pc[a] \in Holding)
      BY <2>2 DEF MayMove, Move
    <3>2. QED
      BY <1>1, <1>2, <3>1, Kinds DEF OneFence
  <2>3. QED
    BY <2>1, <2>2
<1>10. QED
  BY <1>4, <1>5, <1>6, <1>7, <1>8, <1>9 DEF GateTypes

\* A command that ends.
LEMMA EndStep ==
  ASSUME GateTypes, NEW c \in Commands, Ends(c)
  PROVE  /\ GateTypes' /\ \A a \in Actors : pc'[a] # "draining"
         /\ \A a \in Actors : pc'[a] = IF a = c THEN "done"
                                       ELSE IF pc[a] = "draining" THEN "recheck" ELSE pc[a]
<1> c \in Actors /\ c \notin Evictors
  BY Kinds
<1>1. KindInv /\ QueueInv /\ WaiterInv /\ FenceInv /\ CountInv /\ OneFence
  BY DEF GateTypes
<1> DEFINE w == Unlisted(latchWaiters, c)
<1>2. w \in Seq(Actors) /\ Distinct(w) /\ Listed(w) = Listed(latchWaiters) \ {c}
  BY <1>1, UnlistedList DEF WaiterInv
<1>3. /\ active' = active - 1 /\ latchWaiters' = <<>> /\ jobs' = w
      /\ pc' = [a \in Actors |-> CASE a = c -> "done"
                                   [] a \in Listed(w) -> "recheck"
                                   [] OTHER -> pc[a]]
  BY DEF Ends, EndAs
<1> HIDE DEF w
<1>4. \A a \in Actors : a \in Listed(w) <=> pc[a] = "draining" /\ a # c
  BY <1>1, <1>2 DEF WaiterInv
<1>5. \A a \in Actors : pc'[a] = IF a = c THEN "done" 
                                 ELSE IF pc[a] = "draining" THEN "recheck" ELSE pc[a]
  BY <1>3, <1>4
<1>6. \A a \in Actors : pc[a] \notin Queued
  BY <1>1 DEF Ends, QueueInv, Listed
<1>7. pc[c] \in {"running", "capturing", "draining"} /\ UNCHANGED <<fence, fenceWaiters>>
  BY DEF Ends
<1>8. KindInv'
  <2>1. \A a \in Actors : pc'[a] \in CommandPoints \cup EvictorPoints
    BY <1>1, <1>5 DEF KindInv, CommandPoints, EvictorPoints, Preparing
  <2>2. pc' \in [Actors -> CommandPoints \cup EvictorPoints]
    BY <1>3, <2>1
  <2>3. QED
    BY <1>1, <1>5, <2>2, Kinds DEF KindInv, CommandPoints, EvictorPoints, Preparing, Holding
<1>9. QueueInv'
  <2>1. \A a \in Actors : pc'[a] \in Queued <=> pc[a] = "draining" /\ a # c
    BY <1>5, <1>6 DEF Queued, Hops
  <2>2. QED
    BY <1>2, <1>3, <1>4, <2>1 DEF QueueInv
<1>10. \A a \in Actors : pc'[a] # "draining"
  BY <1>5
<1>11. WaiterInv'
  BY <1>3, <1>10, EmptyList DEF WaiterInv
<1>12. FenceInv'
  BY <1>1, <1>5, <1>7 DEF FenceInv
<1>13. CountInv'
  <2>1. c \in InFlight /\ InFlight' = InFlight \ {c} /\ InFlight = InFlight' \cup {c}
    BY <1>5, <1>7, Kinds DEF InFlight, Counted, Preparing
  <2>2. IsFiniteSet(InFlight') /\ c \notin InFlight'
    BY <2>1, InFlightFinite, FS_Subset
  <2>3. Cardinality(InFlight) = Cardinality(InFlight') + 1 /\ Cardinality(InFlight') \in Nat
    BY <2>1, <2>2, CountOne
  <2>4. QED
    BY <1>1, <1>3, <2>3 DEF CountInv
<1>14. OneFence'
  BY <1>1, <1>5, <1>7, Kinds DEF OneFence, Holding
<1>15. QED
  BY <1>5, <1>8, <1>9, <1>10, <1>11, <1>12, <1>13, <1>14 DEF GateTypes

\* An evictor that opens its fence: whoever waited at it has a continuation in the queue.
LEMMA OpenStep ==
  ASSUME GateTypes, NEW e \in Evictors, Opens(e)
  PROVE  /\ GateTypes' /\ fence = e /\ fence' = "none"
         /\ \A a \in Actors : pc'[a] = IF a = e THEN "idle"
                                       ELSE IF pc[a] = "waiting" THEN "woken"
                                       ELSE IF pc[a] = "fenced" THEN "fenceOpen" ELSE pc[a]
<1> e \in Actors /\ e \notin Commands
  BY Kinds
<1>1. KindInv /\ QueueInv /\ WaiterInv /\ FenceInv /\ CountInv /\ OneFence /\ Runs(e)
  BY DEF GateTypes, Opens
<1>2. fence = e /\ e # "none"
  BY <1>1, Kinds DEF Opens, OneFence
<1> DEFINE w == fenceWaiters[e]
<1>3. w \in Seq(Actors) /\ Distinct(w)
  BY <1>1 DEF FenceInv
<1>4. /\ fence' = "none" /\ jobs' = Others \o w
      /\ fenceWaiters' = [fenceWaiters EXCEPT ![e] = <<>>]
      /\ pc' = [a \in Actors |-> CASE a = e -> "idle"
                                   [] a \in Listed(w) ->
                                        IF a \in Evictors THEN "woken" ELSE "fenceOpen"
                                   [] OTHER -> pc[a]]
  BY <1>2 DEF Opens, ReleaseFence
<1>5. \A a \in Actors : a \in Listed(w) <=> pc[a] \in {"fenced", "waiting"}
  BY <1>1, <1>2 DEF FenceInv
<1> HIDE DEF w
<1>6. pc[e] \notin {"fenced", "waiting"}
  BY DEF Opens, Holding
<1>7. \A a \in Actors : pc[a] = "fenced" => a \in Commands
  BY <1>1, Kinds DEF KindInv, EvictorPoints, Holding
<1>8. \A a \in Actors : pc[a] = "waiting" => a \in Evictors
  BY <1>1, Kinds DEF KindInv, CommandPoints, Hopping, Hops, Preparing
<1>9. \A a \in Actors : pc'[a] = IF a = e THEN "idle"
                                 ELSE IF pc[a] = "waiting" THEN "woken"
                                 ELSE IF pc[a] = "fenced" THEN "fenceOpen" ELSE pc[a]
  <2> SUFFICES ASSUME NEW a \in Actors
               PROVE  pc'[a] = IF a = e THEN "idle"
                               ELSE IF pc[a] = "waiting" THEN "woken"
                               ELSE IF pc[a] = "fenced" THEN "fenceOpen" ELSE pc[a]
    OBVIOUS
  <2>1. pc'[a] = CASE a = e -> "idle"
                   [] a \in Listed(w) -> IF a \in Evictors THEN "woken" ELSE "fenceOpen"
                   [] OTHER -> pc[a]
    BY <1>4
  <2>2. CASE a = e
    BY <1>5, <1>6, <2>1, <2>2
  <2>3. CASE a # e /\ a \in Listed(w)
    <3>1. pc'[a] = IF a \in Evictors THEN "woken" ELSE "fenceOpen"
      BY <2>1, <2>3
    <3>2. QED
      BY <1>5, <1>7, <1>8, <2>3, <3>1, Kinds
  <2>4. CASE a # e /\ a \notin Listed(w)
    BY <1>5, <2>1, <2>4
  <2>5. QED
    BY <2>2, <2>3, <2>4
<1>10. KindInv'
  <2>1. \A a \in Actors : pc'[a] \in CommandPoints \cup EvictorPoints
    BY <1>1, <1>9 DEF KindInv, CommandPoints, EvictorPoints, Hopping, Hops
  <2>2. pc' \in [Actors -> CommandPoints \cup EvictorPoints]
    BY <1>4, <2>1
  <2>3. \A c \in Commands : pc'[c] = IF pc[c] = "fenced" THEN "fenceOpen" ELSE pc[c]
    BY <1>8, <1>9, Kinds
  <2>4. \A d \in Evictors : pc'[d] \in EvictorPoints
    BY <1>1, <1>7, <1>9, Kinds DEF KindInv, EvictorPoints
  <2>5. QED
    BY <1>1, <2>2, <2>3, <2>4 DEF KindInv, CommandPoints, Hopping, Hops, Preparing
<1>11. QueueInv'
  <2>1. /\ Others \in Seq(Actors) /\ Distinct(Others)
        /\ Listed(Others) = Listed(jobs) \ {e}
    BY <1>1, OthersList
  <2>2. Listed(Others) \cap Listed(w) = {}
    <3>1. ASSUME NEW a \in Listed(Others)
          PROVE  a \notin Listed(w)
      <4>1. a \in Listed(jobs) /\ Listed(jobs) \subseteq Actors
        <5>1. Listed(jobs) \subseteq Actors
          BY <1>1 DEF QueueInv, Listed
        <5>2. QED
          BY <2>1, <3>1, <5>1
      <4>2. a \in Actors /\ pc[a] \in Queued
        BY <1>1, <4>1 DEF QueueInv
      <4>3. QED
        BY <1>5, <4>2 DEF Queued, Hops
    <3>2. QED
      BY <3>1
  <2>3. /\ jobs' \in Seq(Actors) /\ Distinct(jobs')
        /\ Listed(jobs') = Listed(Others) \cup Listed(w)
    BY <1>3, <1>4, <2>1, <2>2, ConcatList
  <2>4. ASSUME NEW a \in Actors
        PROVE  pc'[a] \in Queued <=> a \in Listed(jobs')
    BY <1>1, <1>5, <1>6, <1>9, <2>1, <2>3 DEF QueueInv, Queued, Hops
  <2>5. QED
    BY <2>3, <2>4 DEF QueueInv
<1>12. WaiterInv'
  <2>1. /\ latchWaiters' \in Seq(Actors) /\ Distinct(latchWaiters')
        /\ Listed(latchWaiters') = Listed(latchWaiters) \ {e}
    BY <1>1, UnlistedList DEF WaiterInv, Opens
  <2>2. QED
    BY <1>1, <1>9, <2>1 DEF WaiterInv
<1>13. FenceInv'
  <2>1. \A d \in Evictors : fenceWaiters'[d] = <<>>
    BY <1>1, <1>2, <1>4 DEF FenceInv
  <2>2. fenceWaiters' \in [Evictors -> Seq(Actors)]
    BY <1>1, <1>4, EmptyList DEF FenceInv
  <2>3. \A a \in Actors : pc'[a] \notin {"fenced", "waiting"}
    BY <1>9
  <2>4. QED
    BY <1>4, <2>1, <2>2, <2>3, EmptyList DEF FenceInv
<1>14. CountInv'
  <2>1. InFlight' = InFlight
    BY <1>8, <1>9, Kinds DEF InFlight, Counted, Preparing
  <2>2. QED
    BY <1>1, <2>1 DEF CountInv, Opens
<1>15. OneFence'
  BY <1>1, <1>2, <1>9, Kinds DEF OneFence, Holding
<1>16. QED
  BY <1>2, <1>4, <1>9, <1>10, <1>11, <1>12, <1>13, <1>14, <1>15 DEF GateTypes
\* Every step is one of the three, or nothing.
LEMMA StepCases ==
  ASSUME GateTypes, [Next]_gateVars
  PROVE  \/ \E c \in Commands : \E s : Move(c, s) /\ MayMove(c, s) /\ CommandMove(c, s)
         \/ \E e \in Evictors : \E s : Move(e, s) /\ MayMove(e, s) /\ EvictorMove(e, s)
         \/ \E c \in Commands : Ends(c)
         \/ \E e \in Evictors : Opens(e)
         \/ UNCHANGED gateVars
<1>1. ASSUME NEW a \in Actors, Recheck(a)
      PROVE  \/ \E s : Move(a, s) /\ MayMove(a, s) /\ CommandMove(a, s) /\ a \in Commands
             \/ \E s : Move(a, s) /\ MayMove(a, s) /\ EvictorMove(a, s) /\ a \in Evictors
  BY <1>1, CommandMoves, EvictorMoves, Kinds
<1>2. ASSUME NEW c \in Commands, PassFence(c) \/ AdmitAfterFence(c) \/ Arrive(c)
      PROVE  \E s : Move(c, s) /\ MayMove(c, s) /\ CommandMove(c, s)
  BY <1>2, CommandMoves DEF Arrive
<1>3. ASSUME NEW p \in Restarts, RestartDrained(p)
      PROVE  p \in Commands /\ \E s : Move(p, s) /\ MayMove(p, s) /\ CommandMove(p, s)
  BY <1>3, CommandMoves DEF Commands
<1>4. ASSUME NEW c \in Commands, CommandEvent(c)
      PROVE  Ends(c)
  BY <1>4, CommandEnds DEF CommandEvent
<1>5. ASSUME NEW e \in Evictors, 
             Woken(e) \/ Acquired(e) \/ Decide(e) \/ StartEviction(e) \/ EvictionEvent(e)
      PROVE  \/ \E s : Move(e, s) /\ MayMove(e, s) /\ EvictorMove(e, s)
             \/ Opens(e)
  BY <1>5, EvictorMoves, EvictionOpens DEF EvictionEvent
<1>6. QED
  BY <1>1, <1>2, <1>3, <1>4, <1>5 DEF Next, Microtask

\* Lists, count and fence stay right.
LEMMA GateTypesStep == GateTypes /\ [Next]_gateVars => GateTypes'
<1> SUFFICES ASSUME GateTypes, [Next]_gateVars
             PROVE  GateTypes'
  OBVIOUS
<1>1. CASE UNCHANGED gateVars
  BY <1>1 DEF gateVars, GateTypes, KindInv, QueueInv, WaiterInv, FenceInv, CountInv, InFlight, OneFence
<1>2. QED
  BY <1>1, StepCases, MoveStep, EndStep, OpenStep, Kinds

-------------------------------------------------------------------------------
(* What the lists are for *)

\* The place of an actor after it, or another one, has moved on.
LEMMA MovedTo ==
  ASSUME GateTypes, NEW a \in Actors, NEW s, Move(a, s)
  PROVE  \A b \in Actors : pc'[b] = IF b = a THEN s ELSE pc[b]
BY DEF Move, GoTo, GateTypes, KindInv

\* Nobody has a continuation in an empty queue.
LEMMA NothingQueued ==
  ASSUME GateTypes, jobs = <<>>
  PROVE  (\A a \in Actors : pc[a] \notin Queued) /\ NoneHops
<1>1. \A a \in Actors : pc[a] \notin Queued
  BY EmptyList DEF GateTypes, QueueInv, Listed
<1>2. QED
  BY <1>1, Kinds DEF NoneHops, Queued, Hopping

\* Of a set with at most one element, any two are the same.
LEMMA OnlyOne ==
  ASSUME NEW S, IsFiniteSet(S), Cardinality(S) <= 1, NEW a \in S, NEW b \in S
  PROVE  a = b
<1> SUFFICES ASSUME a # b
             PROVE  FALSE
  OBVIOUS
<1> DEFINE T == {a, b}
<1>1. T = {a} \cup {b} /\ b \notin {a} /\ IsFiniteSet({a}) /\ Cardinality({a}) = 1
  BY FS_Singleton
<1> HIDE DEF T
<1>2. Cardinality(T) = 2
  <2>1. Cardinality(T) = Cardinality({a}) + 1
    BY <1>1, FS_AddElement
  <2>2. QED
    BY <1>1, <2>1
<1>3. Cardinality(T) <= Cardinality(S) /\ Cardinality(S) \in Nat
  BY FS_Subset, FS_CardinalityType DEF T
<1>4. QED
  BY <1>2, <1>3

\* When a restart has passed waitForDrain, no other command is in flight.
LEMMA DrainedAlone ==
  ASSUME GateTypes', NEW c \in Commands, Drains(c, "drained"), pc'[c] = "drained"
  PROVE  \A d \in Commands : pc'[d] \in Counted => d = c
<1>1. Cardinality(InFlight') <= 1
  BY Kinds DEF Drains, Remaining, GateTypes, CountInv
<1>2. c \in InFlight' /\ IsFiniteSet(InFlight')
  <2>1. IsFiniteSet(Commands) /\ InFlight' \subseteq Commands
    BY InFlightFinite DEF InFlight
  <2>2. IsFiniteSet(InFlight')
    BY <2>1, FS_Subset
  <2>3. QED
    BY <2>2 DEF InFlight, Counted, Preparing
<1>3. QED
  BY <1>1, <1>2, OnlyOne DEF InFlight

\* Whoever is parked in waitForDrain is woken by the mutation it waits for.
LEMMA WakeupStep == GateTypes /\ NoLostWakeup /\ [Next]_gateVars => NoLostWakeup'
<1> SUFFICES ASSUME GateTypes, NoLostWakeup, [Next]_gateVars
             PROVE  NoLostWakeup'
  OBVIOUS
<1>1. ASSUME NEW a \in Actors, NEW s, Move(a, s), Drains(a, s)
      PROVE  NoLostWakeup'
  <2>1. active' \in {active, active + 1} /\ active \in Nat
    BY <1>1, ActiveType DEF Move
  <2>2. \A b \in Actors : Remaining(b) \in {0, 1}
    BY DEF Remaining
  <2>3. \A b \in Actors : pc'[b] = IF b = a THEN s ELSE pc[b]
    BY <1>1, MovedTo
  <2>4. QED
    BY <1>1, <2>1, <2>2, <2>3 DEF NoLostWakeup, Drains
<1>2. ASSUME NEW c \in Commands, Ends(c)
      PROVE  NoLostWakeup'
  BY <1>2, EndStep DEF NoLostWakeup
<1>3. ASSUME NEW e \in Evictors, Opens(e)
      PROVE  NoLostWakeup'
  <2>1. active' = active /\ \A a \in Actors : pc'[a] = "draining" => pc[a] = "draining"
    BY <1>3, OpenStep DEF Opens
  <2>2. QED
    BY <2>1 DEF NoLostWakeup, Remaining
<1>4. CASE UNCHANGED gateVars
  BY <1>4 DEF gateVars, NoLostWakeup
<1>5. QED
  BY <1>1, <1>2, <1>3, <1>4, StepCases, Kinds DEF CommandMove, EvictorMove
-------------------------------------------------------------------------------
(* The phases of an update restart *)

\* What the invariants of this part say of commands only changes when commands move.
LEMMA OnlyEvictors ==
  ASSUME GateTypes, NEW e \in Evictors, NEW s, Move(e, s), MayMove(e, s)
  PROVE  /\ \A c \in Commands : pc'[c] = pc[c]
         /\ NoneHops' <=> NoneHops
         /\ \A d \in Evictors : pc'[d] = IF d = e THEN s ELSE pc[d]
BY MovedTo, Kinds DEF NoneHops

\* While commands hop, or a restart is prepared, no command waits at a fence, and no
\* worker is being stopped.
LEMMA PhaseStep ==
  ASSUME GateTypes, PhaseInv, RestartInv, [Next]_gateVars
  PROVE  PhaseInv'
<1> DEFINE Clear == /\ \A c \in Commands : pc[c] # "fenced"
                    /\ \A e \in Evictors : pc[e] # "stopping"
<1>1. ASSUME NEW c \in Commands, NEW s, Move(c, s), MayMove(c, s), CommandMove(c, s)
      PROVE  PhaseInv'
  <2> USE DEF Hopping, Hops, Rank
  <2>1. /\ \A d \in Commands : pc'[d] = IF d = c THEN s ELSE pc[d]
        /\ \A e \in Evictors : pc'[e] = pc[e]
    BY <1>1, MovedTo, Kinds
  <2>2. phase' \in {"none", "draining", "fencing", "prepared"}
    BY <1>1 DEF CommandMove, PhaseInv
  <2>3. CASE s = "fenced"
    <3>1. jobs = <<>> /\ phase' = "none"
      BY <1>1, <2>3 DEF CommandMove
    <3>2. NoneHops'
      BY <2>1, <2>3, <3>1, NothingQueued DEF NoneHops
    <3>3. QED
      BY <2>2, <3>1, <3>2 DEF PhaseInv
  <2>4. CASE s # "fenced"
    <3>1. Clear => Clear'
      BY <2>1, <2>4
    <3>2. CASE phase = "none" /\ phase' = "draining"
      <4>1. CASE pc[c] = "admitting"
        BY <2>2, <3>1, <4>1 DEF PhaseInv, NoneHops
      <4>2. CASE pc[c] # "admitting"
        <5>1. fence = "none"
          BY <1>1, <3>2, <4>2 DEF CommandMove
        <5>2. Clear
          BY <5>1, Kinds DEF GateTypes, FenceInv, OneFence, Holding
        <5>3. QED
          BY <2>2, <3>1, <5>2 DEF PhaseInv
      <4>3. QED
        BY <4>1, <4>2
    <3>3. CASE ~(phase = "none" /\ phase' = "draining")
      <4>1. ~NoneHops' \/ phase' # "none" => ~NoneHops \/ phase # "none"
        <5>1. s \in Hopping => pc[c] \in Hopping
          BY <1>1, <3>3 DEF CommandMove
        <5>2. ~NoneHops' => ~NoneHops
          BY <2>1, <5>1 DEF NoneHops
        <5>3. phase' # "none" => phase # "none"
          BY <1>1, <3>3 DEF CommandMove
        <5>4. QED
          BY <5>2, <5>3
      <4>2. QED
        BY <2>2, <3>1, <4>1 DEF PhaseInv
    <3>4. QED
      BY <3>2, <3>3
  <2>5. QED
    BY <2>3, <2>4
<1>2. ASSUME NEW e \in Evictors, NEW s, Move(e, s), MayMove(e, s), EvictorMove(e, s)
      PROVE  PhaseInv'
  <2>1. /\ \A c \in Commands : pc'[c] = pc[c]
        /\ NoneHops' <=> NoneHops
        /\ \A d \in Evictors : pc'[d] = IF d = e THEN s ELSE pc[d]
    BY <1>2, OnlyEvictors
  <2>2. s = "stopping" => NoneHops /\ phase' = "none"
    BY <1>2, NothingQueued DEF EvictorMove
  <2>3. phase' = phase
    BY <1>2 DEF EvictorMove
  <2>4. QED
    BY <2>1, <2>2, <2>3 DEF PhaseInv
<1>3. ASSUME NEW c \in Commands, Ends(c)
      PROVE  PhaseInv'
  <2>1. /\ \A a \in Actors : pc'[a] \in {pc[a], "done", "recheck"}
        /\ phase' \in {phase, "none", "prepared"}
        /\ jobs = <<>>
    BY <1>3 DEF Ends, EndAs
  <2>2. NoneHops /\ NoneHops'
    BY <2>1, NothingQueued, Kinds DEF NoneHops, Hopping, Hops
  <2>3. phase' # "none" => phase # "none"
    BY <1>3 DEF Ends, RestartInv
  <2>4. QED
    BY <2>1, <2>2, <2>3, Kinds DEF PhaseInv
<1>4. ASSUME NEW e \in Evictors, Opens(e)
      PROVE  PhaseInv'
  <2>1. \A a \in Actors : pc'[a] = IF a = e THEN "idle"
                                   ELSE IF pc[a] = "waiting" THEN "woken"
                                   ELSE IF pc[a] = "fenced" THEN "fenceOpen" ELSE pc[a]
    BY <1>4, OpenStep
  <2>2. \A d \in Evictors : pc[d] = "stopping" => d = e
    BY <1>4, OpenStep DEF GateTypes, OneFence, Holding
  <2>3. Clear'
    BY <2>1, <2>2, Kinds
  <2>4. QED
    BY <1>4, <2>3 DEF PhaseInv, Opens
<1>5. CASE UNCHANGED gateVars
  BY <1>5 DEF gateVars, PhaseInv, NoneHops
<1>6. QED
  BY <1>1, <1>2, <1>3, <1>4, <1>5, StepCases

\* A restart at the head of the queue has no commands hopping behind it.
LEMMA DrainedAtHead ==
  ASSUME GateTypes, DrainedLast, NEW c \in Commands, Runs(c), pc[c] = "drained"
  PROVE  NoneHops
<1>1. jobs # <<>> /\ jobs[1] = c /\ 1 \in DOMAIN jobs
  <2>1. jobs # <<>> /\ Head(jobs) = c
    BY DEF Runs, Queued
  <2>2. QED
    BY <2>1 DEF GateTypes, QueueInv
<1>2. ASSUME NEW d \in Commands, pc[d] \in Hopping
      PROVE  FALSE
  <2>1. d \in Listed(jobs)
    BY <1>2, Kinds DEF GateTypes, QueueInv, Queued, Hopping
  <2>2. PICK j \in DOMAIN jobs : jobs[j] = d
    BY <2>1 DEF Listed
  <2>3. j < 1
    BY <1>1, <1>2, <2>2 DEF DrainedLast
  <2>4. QED
    BY <2>2, <2>3 DEF GateTypes, QueueInv
<1>3. QED
  BY <1>2 DEF NoneHops

\* One restart is prepared at a time, and what it waited for is over when it says so.
LEMMA RestartStep ==
  ASSUME GateTypes, PhaseInv, RestartInv, DrainedLast, [Next]_gateVars
  PROVE  RestartInv'
<1> DEFINE Alone(p) == pc[p] = "capturing" \/ (pc[p] = "drained" /\ phase = "fencing")
           NoneRuns == \A c \in Commands : pc[c] # "running"
<1>1. ASSUME NEW c \in Commands, NEW s, Move(c, s), MayMove(c, s), CommandMove(c, s)
      PROVE  RestartInv'
  <2>1. \A d \in Commands : pc'[d] = IF d = c THEN s ELSE pc[d]
    BY <1>1, MovedTo, Kinds
  <2> USE DEF Hopping, Hops, Rank, Preparing
  <2>2. CASE s \in {"refused", "fenced"} /\ UNCHANGED phase
    BY <2>1, <2>2 DEF RestartInv, NoneHops
  <2>3. CASE s = "running" /\ UNCHANGED phase
    <3>1. phase \in {"none", "draining"}
      <4>1. CASE pc[c] = "admitting"
        BY <4>1 DEF RestartInv, PhaseInv, NoneHops
      <4>2. CASE pc[c] # "admitting"
        BY <1>1, <2>3, <4>2 DEF CommandMove, HeldOff, PhaseInv
      <4>3. QED
        BY <4>1, <4>2
    <3>2. QED
      BY <2>1, <2>3, <3>1 DEF RestartInv, NoneHops
  <2>4. CASE s \in DOMAIN Rank /\ pc[c] \in DOMAIN Hops /\ UNCHANGED phase
    <3>1. ~NoneHops
      BY <2>4 DEF NoneHops
    <3>2. /\ phase \notin {"fencing", "prepared"} 
          /\ \A p \in Commands : pc[p] # "recheck" /\ pc[p] # "capturing"
      BY <3>1 DEF RestartInv
    <3>3. QED
      BY <2>1, <2>4, <3>2 DEF RestartInv
  <2>5. CASE s \in {"draining", "drained"} /\ phase = "none" /\ phase' = "draining"
    <3>1. \A p \in Commands : pc[p] \notin Preparing
      BY <2>5 DEF RestartInv
    <3>2. QED
      BY <2>1, <2>5, <3>1 DEF RestartInv
  <2>6. ASSUME s \in {"draining", "drained"}, pc[c] \in {"recheck", "drained"}, NoneHops,
               phase' \in {"draining", "fencing"}
        PROVE  RestartInv'
    <3>1. \A p \in Commands : pc'[p] \in Preparing => p = c
      BY <2>1, <2>6 DEF RestartInv
    <3>2. NoneHops'
      BY <2>1, <2>6 DEF NoneHops
    <3>3. s = "drained" => NoneRuns'
      <4>1. GateTypes'
        BY <1>1, MoveStep, Kinds
      <4>2. s = "drained" => \A d \in Commands : pc'[d] \in Counted => d = c
        BY <1>1, <2>1, <4>1, DrainedAlone DEF CommandMove
      <4>3. QED
        BY <2>1, <4>2 DEF Counted
    <3>4. QED
      BY <2>1, <2>6, <3>1, <3>2, <3>3 DEF RestartInv
  <2>7. CASE s \in {"draining", "drained"} /\ pc[c] = "recheck" /\ UNCHANGED phase
    BY <2>6, <2>7 DEF RestartInv
  <2>8. CASE s \in {"draining", "drained"} /\ pc[c] = "drained" 
             /\ phase = "draining" /\ phase' = "fencing"
    BY <1>1, <2>6, <2>8, DrainedAtHead DEF MayMove
  <2>9. CASE s = "capturing" /\ pc[c] = "drained" /\ phase # "draining" /\ UNCHANGED phase
    <3>1. phase = "fencing"
      BY <2>9 DEF RestartInv
    <3>2. NoneHops /\ NoneRuns /\ \A p \in Commands : pc[p] \in Preparing => p = c
      BY <2>9, <3>1 DEF RestartInv
    <3>3. NoneHops' /\ NoneRuns' /\ \A p \in Commands : pc'[p] \in Preparing => p = c
      BY <2>1, <2>9, <3>2 DEF NoneHops
    <3>4. QED
      BY <2>1, <2>9, <3>1, <3>3 DEF RestartInv
  <2>10. QED
    BY <1>1, <2>2, <2>3, <2>4, <2>5, <2>7, <2>8, <2>9 DEF CommandMove
<1>2. ASSUME NEW e \in Evictors, NEW s, Move(e, s), MayMove(e, s), EvictorMove(e, s)
      PROVE  RestartInv'
  <2>1. /\ \A c \in Commands : pc'[c] = pc[c]
        /\ NoneHops' <=> NoneHops
        /\ phase' = phase
    BY <1>2, OnlyEvictors DEF EvictorMove
  <2>2. QED
    BY <2>1 DEF RestartInv
<1>3. ASSUME NEW c \in Commands, Ends(c)
      PROVE  RestartInv'
  <2>1. /\ \A d \in Commands : d # c => pc'[d] = IF pc[d] = "draining" THEN "recheck" ELSE pc[d]
        /\ pc'[c] = "done"
    BY <1>3, EndStep, Kinds
  <2>2. NoneHops'
    <3>1. NoneHops
      BY <1>3, NothingQueued DEF Ends
    <3>2. QED
      BY <2>1, <3>1 DEF NoneHops, Hopping, Hops
  <2>3. CASE pc[c] = "running"
    <3>1. phase' = phase
      BY <1>3, <2>3 DEF Ends
    <3>2. QED
      BY <2>1, <2>2, <2>3, <3>1 DEF RestartInv, Preparing
  <2>4. CASE pc[c] \in {"capturing", "draining"}
    <3>1. \A p \in Commands : pc'[p] \notin Preparing
      BY <2>1, <2>4 DEF RestartInv, Preparing
    <3>2. phase' = "prepared" => NoneRuns'
      BY <1>3, <2>1, <2>4 DEF RestartInv, Ends
    <3>3. QED
      BY <2>2, <3>1, <3>2 DEF RestartInv, Preparing
  <2>5. QED
    BY <1>3, <2>3, <2>4 DEF Ends
<1>4. ASSUME NEW e \in Evictors, Opens(e)
      PROVE  RestartInv'
  <2>1. \A c \in Commands : pc'[c] = IF pc[c] = "fenced" THEN "fenceOpen" ELSE pc[c]
    <3>1. \A c \in Commands : pc[c] # "waiting"
      BY DEF GateTypes, KindInv, CommandPoints, Hopping, Hops, Preparing
    <3>2. \A a \in Actors : pc'[a] = IF a = e THEN "idle"
                                     ELSE IF pc[a] = "waiting" THEN "woken"
                                     ELSE IF pc[a] = "fenced" THEN "fenceOpen" ELSE pc[a]
      BY <1>4, OpenStep
    <3>3. QED
      BY <3>1, <3>2, Kinds
  <2>2. phase' = phase
    BY <1>4 DEF Opens
  <2>3. CASE \E c \in Commands : pc[c] = "fenced"
    <3>1. phase = "none"
      BY <2>3 DEF PhaseInv
    <3>2. \A p \in Commands : pc[p] \notin Preparing
      BY <3>1 DEF RestartInv
    <3>3. \A p \in Commands : pc'[p] \notin Preparing
      BY <2>1, <3>2 DEF Preparing
    <3>4. QED
      BY <2>2, <3>1, <3>3 DEF RestartInv, Preparing
  <2>4. CASE \A c \in Commands : pc[c] # "fenced"
    <3>1. \A c \in Commands : pc'[c] = pc[c]
      BY <2>1, <2>4
    <3>2. QED
      BY <2>2, <3>1 DEF RestartInv, NoneHops
  <2>5. QED
    BY <2>3, <2>4
<1>5. CASE UNCHANGED gateVars
  BY <1>5 DEF gateVars, RestartInv, NoneHops
<1>6. QED
  BY <1>1, <1>2, <1>3, <1>4, <1>5, StepCases
-------------------------------------------------------------------------------
(* The order of the queue *)

\* Where a continuation stood before a step that another one ran in.
LEMMA OthersOrder ==
  ASSUME GateTypes, NEW a \in Actors, Runs(a)
  PROVE  /\ Len(Others) \in Nat /\ DOMAIN Others = 1..Len(Others)
         /\ \A i \in DOMAIN Others : /\ i + 1 \in DOMAIN jobs /\ Others[i] = jobs[i + 1]
                                     /\ Others[i] \in Actors /\ Others[i] # a
                                     /\ 1 \in DOMAIN jobs /\ jobs[1] = a
<1>1. jobs \in Seq(Actors) /\ a \notin Listed(Others)
  BY OthersList DEF GateTypes, QueueInv
<1>2. CASE jobs = <<>>
  BY <1>1, <1>2 DEF Others
<1>3. CASE jobs # <<>>
  <2>1. Others = Tail(jobs) /\ Head(jobs) = a
    BY <1>3 DEF Others, Runs
  <2>2. /\ Len(Others) \in Nat /\ DOMAIN Others = 1..Len(Others)
        /\ \A i \in DOMAIN Others : /\ i + 1 \in DOMAIN jobs /\ Others[i] = jobs[i + 1]
                                    /\ Others[i] \in Actors
                                    /\ 1 \in DOMAIN jobs /\ jobs[1] = a
    BY <1>1, <1>3, <2>1
  <2>3. \A i \in DOMAIN Others : Others[i] # a
    BY <1>1 DEF Listed
  <2>4. QED
    BY <2>2, <2>3
<1>4. QED
  BY <1>2, <1>3

\* The queue after a moved on: the others as they were, and a at the end if at all.
LEMMA QueueOrder ==
  ASSUME GateTypes, NEW a \in Actors, NEW s, Move(a, s), MayMove(a, s)
  PROVE  \A i \in DOMAIN jobs' :
           \/ /\ i \in DOMAIN Others /\ i + 1 \in DOMAIN jobs /\ jobs'[i] = jobs[i + 1]
              /\ pc'[jobs'[i]] = pc[jobs[i + 1]] /\ jobs'[i] \in Actors
              /\ 1 \in DOMAIN jobs /\ jobs[1] = a
           \/ /\ i = Len(Others) + 1 /\ jobs'[i] = a /\ pc'[jobs'[i]] = s
              /\ \A j \in DOMAIN jobs' : j # i => j < i
<1>1. /\ Len(Others) \in Nat /\ DOMAIN Others = 1..Len(Others) /\ Others \in Seq(Actors)
      /\ \A i \in DOMAIN Others : /\ i + 1 \in DOMAIN jobs /\ Others[i] = jobs[i + 1]
                                  /\ Others[i] \in Actors /\ Others[i] # a
                                  /\ 1 \in DOMAIN jobs /\ jobs[1] = a
  BY OthersOrder, OthersList DEF MayMove, GateTypes
<1>2. \A b \in Actors : pc'[b] = IF b = a THEN s ELSE pc[b]
  BY MovedTo
<1>3. \A i \in DOMAIN Others : pc'[Others[i]] = pc[jobs[i + 1]]
  BY <1>1, <1>2
<1>4. CASE jobs' = Others
  BY <1>1, <1>3, <1>4
<1>5. CASE jobs' = Append(Others, a)
  <2>1. /\ DOMAIN jobs' = 1..(Len(Others) + 1) /\ jobs'[Len(Others) + 1] = a
        /\ \A i \in DOMAIN Others : jobs'[i] = Others[i]
    BY <1>1, <1>5
  <2>2. pc'[a] = s
    BY <1>2
  <2>3. \A i \in DOMAIN jobs' : i \in DOMAIN Others \/ i = Len(Others) + 1
    BY <1>1, <2>1
  <2>4. \A j \in DOMAIN jobs' : j # Len(Others) + 1 => j < Len(Others) + 1
    BY <1>1, <2>1
  <2>5. QED
    BY <1>1, <1>3, <2>1, <2>2, <2>3, <2>4
<1>6. QED
  BY <1>4, <1>5 DEF Move

\* A command that hops at the head of the queue goes behind all that hop with it.
LEMMA LockstepMove ==
  ASSUME GateTypes, Lockstep, NEW a \in Actors, NEW s, Move(a, s), MayMove(a, s),
         a \in Commands /\ s \in Hopping => pc[a] \in DOMAIN Hops /\ Rank[s] = Rank[pc[a]] + 1
  PROVE  Lockstep'
<1> DEFINE Hops1(i) == jobs[i] \in Commands /\ pc[jobs[i]] \in Hopping
<1>1. SUFFICES ASSUME NEW i \in DOMAIN jobs', NEW j \in DOMAIN jobs', i < j, Hops1(i)', Hops1(j)'
               PROVE  /\ Rank[pc'[jobs'[i]]] <= Rank[pc'[jobs'[j]]]
                      /\ Rank[pc'[jobs'[j]]] <= Rank[pc'[jobs'[i]]] + 1
  BY DEF Lockstep
<1>2. /\ i \in DOMAIN Others /\ i + 1 \in DOMAIN jobs /\ jobs'[i] = jobs[i + 1]
      /\ pc'[jobs'[i]] = pc[jobs[i + 1]] /\ 1 \in DOMAIN jobs /\ jobs[1] = a /\ i \in Nat /\ j \in Nat
  <2>1. i \in Nat /\ j \in Nat
    BY MoveStep DEF GateTypes, QueueInv
  <2>2. ~(j < i)
    BY <1>1, <2>1
  <2>3. QED
    BY <1>1, <2>1, <2>2, QueueOrder
<1>3. CASE j \in DOMAIN Others /\ j + 1 \in DOMAIN jobs /\ pc'[jobs'[j]] = pc[jobs[j + 1]]
           /\ jobs'[j] = jobs[j + 1]
  <2>1. i + 1 < j + 1
    BY <1>1, <1>2
  <2>2. QED
    BY <1>1, <1>2, <1>3, <2>1 DEF Lockstep
<1>4. CASE jobs'[j] = a /\ pc'[jobs'[j]] = s
  <2>1. pc[a] \in DOMAIN Hops /\ Rank[s] = Rank[pc[a]] + 1 /\ a \in Commands /\ pc[a] \in Hopping
    BY <1>1, <1>4 DEF Hopping
  <2>2. 1 < i + 1
    BY <1>2, OthersOrder DEF MayMove
  <2>3. /\ Rank[pc[a]] <= Rank[pc[jobs[i + 1]]] /\ Rank[pc[jobs[i + 1]]] <= Rank[pc[a]] + 1
    BY <1>1, <1>2, <2>1, <2>2 DEF Lockstep
  <2>4. Rank[pc[a]] \in Nat /\ Rank[pc[jobs[i + 1]]] \in Nat
    BY <1>1, <1>2, <2>1 DEF Rank, Hopping, Hops
  <2>5. QED
    BY <1>2, <1>4, <2>1, <2>3, <2>4
<1>5. QED
  BY <1>3, <1>4, QueueOrder
\* A restart that passes waitForDrain goes behind every command that hops.
LEMMA DrainedMove ==
  ASSUME GateTypes, Lockstep, RestartInv, DrainedLast, RestartInv', 
         NEW a \in Actors, NEW s, Move(a, s), MayMove(a, s),
         a \in Commands => CommandMove(a, s)
  PROVE  DrainedLast'
<1> DEFINE Waits(i) == jobs[i] \in Commands /\ pc[jobs[i]] = "drained"
           OnItsWay(i) == jobs[i] \in Commands /\ pc[jobs[i]] \in Hopping
<1> USE DEF Hopping, Hops, Rank
<1>1. SUFFICES ASSUME NEW i \in DOMAIN jobs', NEW j \in DOMAIN jobs', Waits(i)', OnItsWay(j)'
               PROVE  j < i /\ pc'[jobs'[j]] = "admitting"
  BY DEF DrainedLast
<1> i \in Nat /\ j \in Nat
  BY MoveStep DEF GateTypes, QueueInv
<1>2. ~NoneHops'
  BY <1>1 DEF NoneHops
<1>3. CASE jobs'[j] = a /\ pc'[jobs'[j]] = s
  <2>1. a \in Commands /\ pc[a] \in DOMAIN Hops
    BY <1>1, <1>3 DEF CommandMove
  <2>2. Waits(i + 1) /\ jobs[1] = a /\ 1 \in DOMAIN jobs /\ i + 1 \in DOMAIN jobs
    BY <1>1, <1>3, QueueOrder
  <2>3. pc[a] = "admitting"
    BY <2>1, <2>2 DEF DrainedLast
  <2>4. QED
    BY <2>1, <2>3
<1>4. CASE /\ j \in DOMAIN Others /\ j + 1 \in DOMAIN jobs /\ jobs'[j] = jobs[j + 1]
           /\ pc'[jobs'[j]] = pc[jobs[j + 1]] /\ 1 \in DOMAIN jobs /\ jobs[1] = a
  <2>1. CASE i \in DOMAIN Others /\ i + 1 \in DOMAIN jobs /\ jobs'[i] = jobs[i + 1]
             /\ pc'[jobs'[i]] = pc[jobs[i + 1]]
    <3>1. j + 1 < i + 1 /\ pc[jobs[j + 1]] = "admitting"
      BY <1>1, <1>4, <2>1 DEF DrainedLast
    <3>2. QED
      BY <1>4, <3>1
  <2>2. CASE /\ jobs'[i] = a /\ pc'[jobs'[i]] = s /\ \A k \in DOMAIN jobs' : k # i => k < i
    <3>1. a \in Commands /\ s = "drained" /\ j < i
      BY <1>1, <2>2
    <3>2. pc[a] # "recheck"
      <4>1. ~NoneHops
        BY <1>1, <1>4 DEF NoneHops
      <4>2. QED
        BY <3>1, <4>1 DEF RestartInv
    <3>3. phase' # "fencing"
      BY <1>2 DEF RestartInv
    <3>4. pc[a] = "admitting"
      <4>1. jobs # <<>>
        BY <1>4
      <4>2. QED
        BY <3>1, <3>2, <3>3, <4>1 DEF CommandMove
    <3>5. 1 < j + 1
      BY <1>4, OthersOrder DEF MayMove
    <3>6. Rank[pc[a]] <= Rank[pc[jobs[j + 1]]]
      BY <1>1, <1>4, <3>1, <3>4, <3>5 DEF Lockstep
    <3>7. pc[jobs[j + 1]] = "admitting"
      BY <1>1, <1>4, <3>4, <3>6
    <3>8. QED
      BY <1>4, <3>1, <3>7
  <2>3. QED
    BY <2>1, <2>2, QueueOrder
<1>5. QED
  BY <1>3, <1>4, QueueOrder

\* Opening a fence puts the commands that waited behind others, but then none hopped.
LEMMA OpenOrder ==
  ASSUME GateTypes, Lockstep, PhaseInv, RestartInv, DrainedLast, NEW e \in Evictors, Opens(e)
  PROVE  Lockstep' /\ DrainedLast'
<1> USE DEF Hopping, Hops
<1>1. \A a \in Actors : pc'[a] = IF a = e THEN "idle"
                                 ELSE IF pc[a] = "waiting" THEN "woken"
                                 ELSE IF pc[a] = "fenced" THEN "fenceOpen" ELSE pc[a]
  BY OpenStep
<1>2. \A c \in Commands : pc'[c] = IF pc[c] = "fenced" THEN "fenceOpen" ELSE pc[c]
  <2>1. \A c \in Commands : pc[c] # "waiting"
    BY DEF GateTypes, KindInv, CommandPoints, Preparing
  <2>2. QED
    BY <1>1, <2>1, Kinds
<1>3. jobs' \in Seq(Actors) /\ jobs \in Seq(Actors)
  BY OpenStep DEF GateTypes, QueueInv
<1>4. CASE \E c \in Commands : pc[c] = "fenced"
  <2>1. NoneHops /\ phase = "none"
    BY <1>4 DEF PhaseInv
  <2>2. \A c \in Commands : pc[c] \notin Preparing
    BY <2>1 DEF RestartInv
  <2>3. \A c \in Commands : pc'[c] # "drained" /\ (pc'[c] \in Hopping => pc'[c] = "fenceOpen")
    BY <1>2, <2>1, <2>2 DEF NoneHops, Preparing
  <2>4. Lockstep'
    BY <2>3 DEF Lockstep, Rank
  <2>5. DrainedLast'
    BY <2>3 DEF DrainedLast
  <2>6. QED
    BY <2>4, <2>5
<1>5. CASE \A c \in Commands : pc[c] # "fenced"
  <2>1. \A c \in Commands : pc'[c] = pc[c]
    BY <1>2, <1>5
  <2> DEFINE w == fenceWaiters[e]
  <2>2. jobs' = Others \o w /\ w \in Seq(Actors) /\ fence = e /\ e # "none"
    BY OpenStep, Kinds DEF Opens, ReleaseFence, GateTypes, FenceInv
  <2>3. \A c \in Commands : c \notin Listed(w)
    <3>1. ASSUME NEW c \in Commands
          PROVE  c \notin Listed(w)
      <4>1. pc[c] \notin {"fenced", "waiting"}
        BY <1>5 DEF GateTypes, KindInv, CommandPoints, Preparing
      <4>2. QED
        BY <2>2, <4>1, Kinds DEF GateTypes, FenceInv
    <3>2. QED
      BY <3>1
  <2> HIDE DEF w
  <2>4. /\ Others \in Seq(Actors) /\ Len(Others) \in Nat /\ DOMAIN Others = 1..Len(Others)
        /\ \A i \in DOMAIN Others : i + 1 \in DOMAIN jobs /\ Others[i] = jobs[i + 1]
    BY OthersOrder, OthersList, Kinds DEF Opens, GateTypes
  <2>5. ASSUME NEW i \in DOMAIN jobs', jobs'[i] \in Commands
        PROVE  i + 1 \in DOMAIN jobs /\ jobs'[i] = jobs[i + 1] /\ pc'[jobs'[i]] = pc[jobs[i + 1]]
               /\ i \in Nat
    <3>1. /\ i \in Nat
          /\ \/ i \in DOMAIN Others /\ jobs'[i] = Others[i]
             \/ i - Len(Others) \in DOMAIN w /\ jobs'[i] = w[i - Len(Others)]
      BY <2>2, <2>4
    <3>2. i \in DOMAIN Others /\ jobs'[i] = Others[i]
      BY <2>3, <2>5, <3>1 DEF Listed
    <3>3. QED
      BY <2>1, <2>4, <2>5, <3>1, <3>2
  <2>6. Lockstep'
    <3> SUFFICES ASSUME NEW i \in DOMAIN jobs', NEW j \in DOMAIN jobs', i < j,
                        jobs'[i] \in Commands, jobs'[j] \in Commands,
                        pc'[jobs'[i]] \in Hopping, pc'[jobs'[j]] \in Hopping
                 PROVE  /\ Rank[pc'[jobs'[i]]] <= Rank[pc'[jobs'[j]]]
                        /\ Rank[pc'[jobs'[j]]] <= Rank[pc'[jobs'[i]]] + 1
      BY DEF Lockstep
    <3>1. i + 1 < j + 1
      BY <2>5
    <3>2. QED
      BY <2>5, <3>1 DEF Lockstep
  <2>7. DrainedLast'
    <3> SUFFICES ASSUME NEW i \in DOMAIN jobs', NEW j \in DOMAIN jobs',
                        jobs'[i] \in Commands, pc'[jobs'[i]] = "drained",
                        jobs'[j] \in Commands, pc'[jobs'[j]] \in Hopping
                 PROVE  j < i /\ pc'[jobs'[j]] = "admitting"
      BY DEF DrainedLast
    <3>1. j + 1 < i + 1 /\ pc[jobs[j + 1]] = "admitting"
      BY <2>5 DEF DrainedLast
    <3>2. QED
      BY <2>5, <3>1
  <2>8. QED
    BY <2>6, <2>7
<1>6. QED
  BY <1>4, <1>5

\* The queue keeps its order.
LEMMA OrderStep ==
  ASSUME GateTypes, Lockstep, PhaseInv, RestartInv, DrainedLast, [Next]_gateVars
  PROVE  Lockstep' /\ DrainedLast'
<1>1. ASSUME NEW c \in Commands, NEW s, Move(c, s), MayMove(c, s), CommandMove(c, s)
      PROVE  Lockstep' /\ DrainedLast'
  <2>1. s \in Hopping => pc[c] \in DOMAIN Hops /\ Rank[s] = Rank[pc[c]] + 1
    BY <1>1 DEF CommandMove, Hopping, Hops, Rank
  <2>2. RestartInv'
    BY RestartStep
  <2>3. QED
    BY <1>1, <2>1, <2>2, LockstepMove, DrainedMove, Kinds
<1>2. ASSUME NEW e \in Evictors, NEW s, Move(e, s), MayMove(e, s)
      PROVE  Lockstep' /\ DrainedLast'
  <2>1. RestartInv'
    BY RestartStep
  <2>2. QED
    BY <1>2, <2>1, LockstepMove, DrainedMove, Kinds
<1>3. ASSUME NEW c \in Commands, Ends(c)
      PROVE  Lockstep' /\ DrainedLast'
  <2>1. \A d \in Commands : pc'[d] \notin Hopping
    <3>1. NoneHops
      BY <1>3, NothingQueued DEF Ends
    <3>2. \A d \in Commands : pc'[d] \in {pc[d], "done", "recheck"}
      BY <1>3, EndStep, Kinds
    <3>3. QED
      BY <3>1, <3>2 DEF NoneHops, Hopping, Hops
  <2>2. QED
    BY <2>1 DEF Lockstep, DrainedLast
<1>4. ASSUME NEW e \in Evictors, Opens(e)
      PROVE  Lockstep' /\ DrainedLast'
  BY <1>4, OpenOrder
<1>5. CASE UNCHANGED gateVars
  BY <1>5 DEF gateVars, Lockstep, DrainedLast
<1>6. QED
  BY <1>1, <1>2, <1>3, <1>4, <1>5, StepCases

-------------------------------------------------------------------------------
(* Theorems *)

\* The inductive invariant of the gate.
THEOREM GateInvariant == Spec => []GateInv
<1>1. Init => GateInv
  <2> SUFFICES ASSUME Init
               PROVE  GateInv
    OBVIOUS
  <2>1. GateTypes
    BY GateTypesInit
  <2>2. NoneHops /\ \A c \in Commands : pc[c] = "idle"
    BY Kinds DEF Init, NoneHops, Hopping, Hops
  <2>3. NoLostWakeup /\ Lockstep /\ DrainedLast
    BY <2>2 DEF Init, NoLostWakeup, Lockstep, DrainedLast, NoneHops
  <2>4. PhaseInv /\ RestartInv
    BY <2>2 DEF Init, PhaseInv, RestartInv, Preparing
  <2>5. QED
    BY <2>1, <2>3, <2>4 DEF GateInv
<1>2. GateInv /\ [Next]_gateVars => GateInv'
  BY GateTypesStep, WakeupStep, PhaseStep, RestartStep, OrderStep DEF GateInv
<1>3. QED
  BY <1>1, <1>2, PTL DEF Spec

\* Every variable keeps its type, the latch never counts below zero or above the commands
\* there are, and the microtask queue holds exactly the actors that have a continuation.
THEOREM TypeCorrect == Spec => []TypeOK
<1>1. GateInv => TypeOK
  <2> SUFFICES ASSUME GateInv
               PROVE  TypeOK
    OBVIOUS
  <2>1. KindInv /\ QueueInv /\ WaiterInv /\ FenceInv /\ PhaseInv
    BY DEF GateInv, GateTypes
  <2>2. active \in 0..Cardinality(Commands)
    BY ActiveType DEF GateInv
  <2>3. CommandPoints \cup EvictorPoints \subseteq 
          {"idle", "refused", "done"} \cup Parked \cup Queued \cup Working
    BY DEF CommandPoints, EvictorPoints, Hopping, Preparing, Holding, Parked, Queued, Working
  <2>4. pc \in [Actors -> {"idle", "refused", "done"} \cup Parked \cup Queued \cup Working]
    BY <2>1, <2>3 DEF KindInv
  <2>5. \A a \in Actors : pc[a] \in Queued <=> \E i \in DOMAIN jobs : jobs[i] = a
    BY <2>1 DEF QueueInv, Listed
  <2>6. QED
    BY <2>1, <2>2, <2>4, <2>5 DEF TypeOK, QueueInv, WaiterInv, FenceInv, PhaseInv
<1>2. QED
  BY <1>1, GateInvariant, PTL

\* acquireIdleEvictionFence: one evictor at a time is past the fence, and the slot names it.
THEOREM OneFenceHolder == Spec => []OneFence
<1>1. GateInv => OneFence
  BY DEF GateInv, GateTypes
<1>2. QED
  BY <1>1, GateInvariant, PTL

\* MutationDrainLatch: nobody sleeps in waitForDrain past the end of what it waits for.
THEOREM NoWakeupIsLost == Spec => []NoLostWakeup
<1>1. GateInv => NoLostWakeup
  BY DEF GateInv
<1>2. QED
  BY <1>1, GateInvariant, PTL

\* prepareUpdateRestart: no other mutating command runs, or is on its way past an open
\* fence, while the manifest is captured and after it was.
THEOREM RestartCapturesUndisturbed == Spec => []RestartCapturesAlone
<1>1. GateInv => RestartCapturesAlone
  <2> SUFFICES ASSUME GateInv, phase = "prepared" \/ \E p \in Restarts : pc[p] = "capturing",
                      NEW c \in Commands
               PROVE  pc[c] \notin {"running", "admitting"} \cup DOMAIN Hops
    BY DEF RestartCapturesAlone
  <2>1. RestartInv /\ \A p \in Restarts : p \in Commands
    BY Kinds DEF GateInv, Commands
  <2>2. NoneHops /\ pc[c] # "running"
    BY <2>1 DEF RestartInv
  <2>3. QED
    BY <2>2 DEF NoneHops, Hopping
<1>2. QED
  BY <1>1, GateInvariant, PTL

\* No idle worker is being stopped while an update restart is prepared.
THEOREM NoWorkerStopsDuringRestart == Spec => []NoEvictionDuringRestart
<1>1. GateInv => NoEvictionDuringRestart
  BY DEF GateInv, PhaseInv, NoEvictionDuringRestart
<1>2. QED
  BY <1>1, GateInvariant, PTL
===============================================================================
