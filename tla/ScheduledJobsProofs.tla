------------------------- MODULE ScheduledJobsProofs -------------------------
(***************************************************************************)
(* Proofs about ScheduledJobs for every finite set of jobs and every       *)
(* number of workers, ticks, edits and updates.  The argument: the workers *)
(* follow each other, so the claims in the file belong to the one that     *)
(* serves the session; a tick that was ever queued stays below the next    *)
(* one of its job, in the file and in an edit that is about to be merged;  *)
(* and an edit that is merged late never overtakes the result of a         *)
(* dispatch, which is newer than what the edit has read.                   *)
(***************************************************************************)
EXTENDS ScheduledJobs, FiniteSetTheorems, TLAPS

USE JobsAssumption DEF Workers, Never, Times, Supervisor

Lives   == {"unborn", "live", "held", "stopping", "released", "dead"}
Calls   == {"idle", "opening", "ran", "skipped"}
Edits   == [by : 0..MaxWorkers, job : Jobs, new : JobRecords, read : [Jobs -> JobRecords]]
Budgets == [edits : 0..MaxEdits, updates : 0..MaxUpdates]

\* The type invariant with its record types named, lane and used as a whole.
Typed ==
  /\ now \in 0..MaxTime
  /\ jobs \in [Jobs -> JobRecords]
  /\ claims \subseteq Dispatches
  /\ worker \in [Workers -> Lives]
  /\ timer \in [Workers -> Times]
  /\ lane \in [Workers -> Seq(Dispatches)]
  /\ call \in [Workers -> Calls]
  /\ owner \in 0..MaxWorkers
  /\ parked \in BOOLEAN /\ recompute \in BOOLEAN /\ updating \in BOOLEAN
  /\ wake \in Times
  /\ forgotten \in BOOLEAN
  /\ edit = NoEdit \/ edit \in Edits
  /\ used \in Budgets
  /\ runs \in [Jobs -> [Times -> 0..2]]

LEMMA TypedIsTypeOK == Typed => TypeOK
BY DEF Typed, TypeOK, Lives, Calls, Edits, Budgets

-------------------------------------------------------------------------------
(* Sets, sequences and minima *)

\* SetToSeq lists members of a finite set, none of them twice.
LEMMA SetToSeqLists ==
  ASSUME NEW S, IsFiniteSet(S)
  PROVE  /\ SetToSeq(S) \in Seq(S)
         /\ \A k, l \in DOMAIN SetToSeq(S) : SetToSeq(S)[k] = SetToSeq(S)[l] => k = l
<1>1. Cardinality(S) \in Nat /\ ExistsBijection(1..Cardinality(S), S)
  BY FS_CardinalityType
<1>2. \E f \in [1..Cardinality(S) -> S] : IsInjective(f)
  BY <1>1 DEF ExistsBijection, Bijection, Injection
<1>3. SetToSeq(S) \in [1..Cardinality(S) -> S] /\ IsInjective(SetToSeq(S))
  BY <1>2 DEF SetToSeq
<1> QED
  BY <1>1, <1>3 DEF IsInjective

\* A set of natural numbers that is not empty has a minimum.
LEMMA MinIsMember ==
  ASSUME NEW S \in SUBSET Nat, S # {}
  PROVE  Min(S) \in S /\ \A n \in S : Min(S) <= n
<1>1. IsWellFoundedOn(OpToRel(<, Nat), Nat)
  BY NatLessThanWellFounded
<1>2. PICK m \in S : \A n \in S : ~ (<<n, m>> \in OpToRel(<, Nat))
  BY <1>1, WFMin
<1>3. \A n \in S : ~ (n < m)
  BY <1>2 DEF OpToRel
<1>4. \A n \in S : m <= n
  BY <1>3
<1> QED
  BY <1>4 DEF Min

LEMMA ConcatEntries ==
  ASSUME NEW D, NEW s \in Seq(D), NEW q \in Seq(D)
  PROVE  /\ s \o q \in Seq(D)
         /\ \A k \in DOMAIN (s \o q) :
              \/ k \in DOMAIN s /\ (s \o q)[k] = s[k]
              \/ /\ k \notin DOMAIN s /\ k - Len(s) \in DOMAIN q
                 /\ (s \o q)[k] = q[k - Len(s)]
BY SMTT(30)

LEMMA TailEntries ==
  ASSUME NEW D, NEW s \in Seq(D), s # <<>>
  PROVE  /\ Tail(s) \in Seq(D) /\ Head(s) \in D /\ 1 \in DOMAIN s /\ Head(s) = s[1]
         /\ \A k \in DOMAIN Tail(s) : k + 1 \in DOMAIN s /\ k + 1 # 1 /\ Tail(s)[k] = s[k + 1]
OBVIOUS

-------------------------------------------------------------------------------
(* What the operators on the job file do *)

LEMMA NextRunLater ==
  ASSUME Typed, NEW j \in Jobs
  PROVE  NextRun(j, now) \in Times /\ NextRun(j, now) > now /\ (j \notin Once => NextRun(j, now) # Never)
BY DEF Typed, NextRun

LEMMA EarliestTyped ==
  ASSUME NEW f \in [Jobs -> JobRecords] PROVE Earliest(f) \in Times
<1> DEFINE S == {f[j].next : j \in {k \in Jobs : f[k].status = "active"}} \cup {Never}
<1>1. S \in SUBSET Nat /\ S \subseteq Times /\ S # {}
  BY DEF JobRecords
<1> HIDE DEF S
<1>2. Min(S) \in S
  BY <1>1, MinIsMember
<1> QED
  BY <1>1, <1>2 DEF S, Earliest

LEMMA AdvancedFacts ==
  ASSUME Typed
  PROVE  /\ Advanced \in [Jobs -> JobRecords]
         /\ \A j \in Jobs :
              /\ ~IsDue(j) => Advanced[j] = jobs[j]
              /\ IsDue(j) => /\ jobs[j].status = "active" /\ jobs[j].next <= now
                             /\ Advanced[j].status = "active"
                             /\ Advanced[j].next = NextRun(j, now)
<1>1. ASSUME NEW j \in Jobs, NEW n \in Times
      PROVE  /\ [jobs[j] EXCEPT !.next = n, !.stamp = now] \in JobRecords
             /\ [jobs[j] EXCEPT !.next = n, !.stamp = now].status = jobs[j].status
             /\ [jobs[j] EXCEPT !.next = n, !.stamp = now].next = n
  BY ZenonT(60) DEF Typed, JobRecords
<1>2. \A j \in Jobs : jobs[j] \in JobRecords /\ NextRun(j, now) \in Times
  BY NextRunLater DEF Typed
<1> QED
  BY <1>1, <1>2 DEF Advanced, IsDue

LEMMA FinishedFacts ==
  ASSUME Typed, NEW j \in Jobs, NEW n \in Times
  PROVE  /\ [status |-> Finished(j), stamp |-> now, next |-> n] \in JobRecords
         /\ [jobs[j] EXCEPT !.status = Finished(j), !.stamp = now] \in JobRecords
         /\ [jobs[j] EXCEPT !.status = Finished(j), !.stamp = now].status = Finished(j)
         /\ [jobs[j] EXCEPT !.status = Finished(j), !.stamp = now].stamp = now
         /\ [jobs[j] EXCEPT !.status = Finished(j), !.stamp = now].next = jobs[j].next
         /\ Finished(j) = IF j \in Once THEN "completed" ELSE jobs[j].status
<1> DEFINE end == Finished(j)
<1>1. end = IF j \in Once THEN "completed" ELSE jobs[j].status
  BY DEF Finished
<1>2. end \in {"absent", "active", "paused", "cancelled", "completed"}
  BY <1>1 DEF Typed, JobRecords
<1> HIDE DEF end
<1>3. /\ [status |-> end, stamp |-> now, next |-> n] \in JobRecords
      /\ [jobs[j] EXCEPT !.status = end, !.stamp = now] \in JobRecords
      /\ [jobs[j] EXCEPT !.status = end, !.stamp = now].status = end
      /\ [jobs[j] EXCEPT !.status = end, !.stamp = now].stamp = now
      /\ [jobs[j] EXCEPT !.status = end, !.stamp = now].next = jobs[j].next
  BY <1>2, ZenonT(60) DEF Typed, JobRecords
<1> QED
  BY <1>1, <1>3 DEF end

LEMMA RecordedFacts ==
  ASSUME Typed, NEW d \in Dispatches, NEW outcome
  PROVE  /\ Recorded(d, outcome) \in [Jobs -> JobRecords]
         /\ \A j \in Jobs : j # d.job => Recorded(d, outcome)[j] = jobs[j]
         /\ d \notin claims \/ jobs[d.job].status # "active" =>
              Recorded(d, outcome)[d.job] = jobs[d.job]
         /\ d \in claims /\ jobs[d.job].status = "active" =>
              /\ Recorded(d, outcome)[d.job].status = IF d.job \in Once THEN "completed" ELSE "active"
              /\ Recorded(d, outcome)[d.job].stamp = now
              /\ Recorded(d, outcome)[d.job].next \in {jobs[d.job].next, NextRun(d.job, now)}
<1>1. d.job \in Jobs /\ jobs[d.job].next \in Times /\ NextRun(d.job, now) \in Times
  BY NextRunLater DEF Dispatches, Typed, JobRecords
<1> DEFINE next == IF outcome = "skipped" THEN NextRun(d.job, now) ELSE jobs[d.job].next
           new  == [status |-> Finished(d.job), stamp |-> now, next |-> next]
<1>2. next \in Times
  BY <1>1
<1>3. Recorded(d, outcome) =
        [jobs EXCEPT ![d.job] = IF d \notin claims \/ jobs[d.job].status # "active"
                                THEN jobs[d.job] ELSE new]
  BY DEF Recorded
<1>4. new \in JobRecords
  BY <1>1, <1>2, FinishedFacts
<1>5. /\ new.status = Finished(d.job) /\ new.stamp = now /\ new.next = next
      /\ Finished(d.job) = IF d.job \in Once THEN "completed" ELSE jobs[d.job].status
  BY DEF Finished
<1> HIDE DEF new
<1> QED
  BY <1>1, <1>3, <1>4, <1>5 DEF Typed

LEMMA RecoveredFacts ==
  ASSUME Typed
  PROVE  /\ Recovered \in [Jobs -> JobRecords]
         /\ \A j \in Jobs :
              /\ Recovered[j].next = jobs[j].next
              /\ ~(Claimed(j) /\ jobs[j].status = "active") => Recovered[j] = jobs[j]
              /\ Claimed(j) /\ jobs[j].status = "active" =>
                   Recovered[j].status = IF j \in Once THEN "completed" ELSE "active"
<1>0. 0 \in Times
  OBVIOUS
<1>1. \A j \in Jobs :
        /\ [jobs[j] EXCEPT !.status = Finished(j), !.stamp = now] \in JobRecords
        /\ [jobs[j] EXCEPT !.status = Finished(j), !.stamp = now].status = Finished(j)
        /\ [jobs[j] EXCEPT !.status = Finished(j), !.stamp = now].next = jobs[j].next
        /\ Finished(j) = IF j \in Once THEN "completed" ELSE jobs[j].status
  BY <1>0, FinishedFacts
<1>2. jobs \in [Jobs -> JobRecords]
  BY DEF Typed
<1> QED
  BY <1>1, <1>2 DEF Recovered

LEMMA MergedFacts ==
  ASSUME NEW f \in [Jobs -> JobRecords], NEW g \in [Jobs -> JobRecords]
  PROVE  /\ Merged(f, g) \in [Jobs -> JobRecords]
         /\ \A j \in Jobs :
              \/ Merged(f, g)[j] = f[j]
              \/ /\ Merged(f, g)[j] = g[j] /\ g[j].status # "absent"
                 /\ f[j].status = "absent" \/ g[j].stamp >= f[j].stamp
BY DEF Merged
-------------------------------------------------------------------------------
(* The inductive invariant *)

Serving  == {"live", "held", "stopping"}
Pending  == edit # NoEdit
Incoming == [edit.read EXCEPT ![edit.job] = edit.new]

\* The workers follow each other, and the one that serves the session is registered.
WorkerInv ==
  /\ \A i, k \in Workers : k < i /\ worker[i] # "unborn" => worker[k] \in {"released", "dead"}
  /\ \A i \in Workers : worker[i] \in Serving => owner = i
  /\ \A i \in Workers : worker[i] \in {"unborn", "dead"} => lane[i] = <<>> /\ call[i] = "idle"
  /\ \A i \in Workers : call[i] # "idle" => lane[i] # <<>>
  /\ \A i \in Workers : \A k \in DOMAIN lane[i] : lane[i][k].by = i

\* The claims in the file are of the worker that serves the session.  A one-shot job
\* whose claim outlived its worker was claimed before anybody else can write.
ClaimInv ==
  /\ \A c, d \in claims : c.job = d.job => c = d
  /\ \A i \in Workers : worker[i] \in Serving => \A d \in claims : d.by = i
  /\ \A d \in claims : jobs[d.job].status # "absent"
  /\ \A d \in claims : d.job \in Once /\ jobs[d.job].status = "active" =>
       /\ jobs[d.job].next = Never
       /\ worker[d.by] = "released" => jobs[d.job].stamp < now

\* What the edit has read of a job is still in the file, or a dispatch has ended since.
StillRead(j) ==
  \/ jobs[j] = edit.read[j]
  \/ /\ edit.read[j].status = "active"
     /\ \/ j \in Once /\ jobs[j].status = "completed" /\ jobs[j].stamp > edit.read[j].stamp
        \/ j \notin Once /\ jobs[j].status = "active"

\* A pending edit is that of the serving worker, or of the supervisor while there is none.
EditInv ==
  Pending =>
    /\ edit.by \in Workers => worker[edit.by] \in {"live", "held"}
    /\ edit.by = 0 => owner = 0
    /\ \A j \in Jobs : edit.read[j].status = "active" /\ edit.read[j].next = Never => j \in Once
    /\ \A j \in Jobs : StillRead(j)
    /\ edit.new.status = "active" => edit.new.next # Never
    /\ LET was == edit.read[edit.job].status
           new == edit.new.status
       IN \/ new = "cancelled" /\ was \in {"active", "paused", "completed"}
          \/ new = "active" /\ was = "absent"
          \/ edit.job \notin Once /\ new \in {"active", "paused"} /\ was \in {"active", "paused"}

\* The schedule has moved past a tick, in the file and in what an edit will write.
Passed(j, t) == t <= now /\ t < jobs[j].next /\ (Pending => t < Incoming[j].next)

\* A tick that is queued or was delivered has passed, no tick is queued twice, and what
\* was delivered is queued only until its result is recorded.
RunInv ==
  /\ \A j \in Jobs : \A t \in Times : runs[j][t] # 0 => runs[j][t] = 1 /\ Passed(j, t)
  /\ \A i \in Workers : \A k \in DOMAIN lane[i] : Passed(lane[i][k].job, lane[i][k].tick)
  /\ \A i, h \in Workers : \A k \in DOMAIN lane[i] : \A l \in DOMAIN lane[h] :
       lane[i][k].job = lane[h][l].job /\ lane[i][k].tick = lane[h][l].tick => i = h /\ k = l
  /\ \A i \in Workers : \A k \in DOMAIN lane[i] :
       runs[lane[i][k].job][lane[i][k].tick] # 0 => k = 1 /\ call[i] = "ran"

\* The second half of Coalesced.
LaneInv ==
  \A i \in Workers : worker[i] \in {"live", "held"} =>
    /\ \A k \in DOMAIN lane[i] : lane[i][k] \in claims
    /\ \A k, l \in DOMAIN lane[i] : lane[i][k].job = lane[i][l].job => k = l

JobsInv == Typed /\ WorkerInv /\ ClaimInv /\ EditInv /\ RunInv /\ LaneInv /\ ActiveWillRun

-------------------------------------------------------------------------------
(* Consequences *)

LEMMA PendingTyped ==
  ASSUME Typed, Pending
  PROVE  /\ edit \in Edits /\ edit.by \in 0..MaxWorkers /\ edit.job \in Jobs
         /\ edit.new \in JobRecords /\ edit.read \in [Jobs -> JobRecords]
         /\ Incoming \in [Jobs -> JobRecords] /\ Incoming[edit.job] = edit.new
         /\ \A j \in Jobs : j # edit.job => Incoming[j] = edit.read[j]
BY DEF Typed, Pending, Edits, Incoming

\* While an edit is pending, no other process queues a dispatch or is launched.
LEMMA PendingAlone ==
  ASSUME JobsInv, Pending, NEW i \in Workers, Free(i)
  PROVE  worker[i] \notin Serving
<1>1. edit.by \in 0..MaxWorkers /\ edit.by # i
  BY PendingTyped DEF Free, JobsInv
<1>2. CASE edit.by = 0
  BY <1>1, <1>2 DEF JobsInv, WorkerInv, EditInv
<1>3. CASE edit.by \in Workers
  BY <1>1, <1>3 DEF JobsInv, WorkerInv, EditInv, Serving
<1> QED
  BY <1>1, <1>2, <1>3

LEMMA LaunchUnedited ==
  ASSUME JobsInv, NEW i \in Workers, Launch(i)
  PROVE  ~Pending /\ \A k \in Workers : k # i => worker[k] \notin Serving
<1>1. \A k \in Workers : k # i => worker[k] \notin Serving
  <2> SUFFICES ASSUME NEW k \in Workers, k # i PROVE worker[k] \notin Serving
    OBVIOUS
  <2>1. CASE k > i
    BY <2>1 DEF Launch, JobsInv, WorkerInv, Serving
  <2>2. CASE k = i - 1
    BY <2>2 DEF Launch, Serving
  <2>3. CASE k < i - 1
    <3>1. i - 1 \in Workers /\ worker[i - 1] \in {"released", "dead"}
      BY <2>3 DEF Launch
    <3> QED
      BY <2>3, <3>1 DEF JobsInv, WorkerInv, Serving
  <2> QED
    BY <2>1, <2>2, <2>3
<1>2. ASSUME Pending PROVE FALSE
  <2>1. edit.by \in 0..MaxWorkers /\ edit.by # 0
    BY <1>2, PendingTyped DEF Launch, Free, JobsInv
  <2>2. worker[edit.by] \in {"live", "held"}
    BY <1>2, <2>1 DEF JobsInv, EditInv
  <2> QED
    BY <1>1, <2>1, <2>2 DEF Launch, Serving
<1> QED
  BY <1>1, <1>2

-------------------------------------------------------------------------------
(* What a step leaves alone *)

KeepsPassed == \A j \in Jobs : \A t \in Times : Passed(j, t) => Passed(j, t)'

LEMMA LaneEntries ==
  ASSUME Typed, NEW i \in Workers, NEW k \in DOMAIN lane[i]
  PROVE  /\ lane[i] \in Seq(Dispatches) /\ k \in Nat /\ lane[i][k] \in Dispatches
         /\ lane[i][k].job \in Jobs /\ lane[i][k].tick \in Times /\ lane[i][k].by \in Workers
<1>1. lane[i] \in Seq(Dispatches)
  BY DEF Typed
<1>2. k \in Nat /\ lane[i][k] \in Dispatches
  BY <1>1
<1> QED
  BY <1>1, <1>2 DEF Dispatches

\* Lanes stay or are dropped, and what was handed over stays so until it is recorded.
LEMMA RunInvKept ==
  ASSUME Typed, RunInv, KeepsPassed, runs' = runs,
         \A i \in Workers : \/ lane'[i] = <<>>
                            \/ lane'[i] = lane[i] /\ (call[i] = "ran" => call'[i] = "ran")
  PROVE  RunInv'
<1>1. ASSUME NEW i \in Workers, NEW k \in DOMAIN lane'[i]
      PROVE  /\ lane'[i] = lane[i] /\ k \in DOMAIN lane[i] /\ (call[i] = "ran" => call'[i] = "ran")
             /\ lane[i][k].job \in Jobs /\ lane[i][k].tick \in Times
  <2>1. lane'[i] # <<>>
    OBVIOUS
  <2>2. lane'[i] = lane[i] /\ (call[i] = "ran" => call'[i] = "ran")
    BY <2>1
  <2> QED
    BY <2>2, LaneEntries
<1>2. ASSUME NEW j \in Jobs, NEW t \in Times, runs'[j][t] # 0
      PROVE  runs'[j][t] = 1 /\ Passed(j, t)'
  BY <1>2 DEF RunInv, KeepsPassed
<1>3. ASSUME NEW i \in Workers, NEW k \in DOMAIN lane'[i]
      PROVE  /\ Passed(lane[i][k].job, lane[i][k].tick)'
             /\ runs'[lane'[i][k].job][lane'[i][k].tick] # 0 => k = 1 /\ call'[i] = "ran"
  BY <1>1, <1>3 DEF RunInv, KeepsPassed, Passed
<1>4. ASSUME NEW i \in Workers, NEW h \in Workers,
             NEW k \in DOMAIN lane'[i], NEW l \in DOMAIN lane'[h],
             lane'[i][k].job = lane'[h][l].job, lane'[i][k].tick = lane'[h][l].tick
      PROVE  i = h /\ k = l
  <2>1. lane'[i] = lane[i] /\ k \in DOMAIN lane[i] /\ lane'[h] = lane[h] /\ l \in DOMAIN lane[h]
    BY <1>1
  <2>2. lane[i][k].job = lane[h][l].job /\ lane[i][k].tick = lane[h][l].tick
    BY <1>4, <2>1
  <2> QED
    BY <2>1, <2>2 DEF RunInv
<1> QED
  BY <1>2, <1>3, <1>4 DEF RunInv

\* A step that changes neither the file, nor an edit, nor the life of a worker.
LEMMA QuietKeepsInv ==
  ASSUME JobsInv, Typed',
         UNCHANGED <<now, jobs, claims, worker, lane, owner, edit, runs>>,
         \A i \in Workers : /\ call[i] = "ran" => call'[i] = "ran"
                            /\ call'[i] # call[i] => lane[i] # <<>>
  PROVE  JobsInv'
<1> USE DEF JobsInv
<1>1. KeepsPassed
  BY DEF KeepsPassed, Passed, Pending, Incoming
<1>2. RunInv'
  BY <1>1, RunInvKept
<1>3. WorkerInv'
  BY DEF WorkerInv, Typed
<1>4. ClaimInv' /\ LaneInv' /\ ActiveWillRun'
  BY DEF ClaimInv, LaneInv, ActiveWillRun, Claimed
<1>5. EditInv'
  BY DEF EditInv, Pending, StillRead
<1> QED
  BY <1>2, <1>3, <1>4, <1>5
-------------------------------------------------------------------------------
(* Edits *)

LEMMA ChangesFacts ==
  ASSUME Typed, NEW j \in Jobs, NEW new \in Changes(j)
  PROVE  /\ new \in JobRecords
         /\ new.status = "active" => new.next # Never
         /\ new.next > now
         /\ \/ new.status = "cancelled" /\ jobs[j].status \in {"active", "paused", "completed"}
            \/ new.status = "active" /\ jobs[j].status = "absent"
            \/ /\ j \notin Once /\ new.status \in {"active", "paused"}
               /\ jobs[j].status \in {"active", "paused"}
<1>1. now \in 0..MaxTime /\ jobs[j] \in JobRecords
  BY DEF Typed
<1>2. NextRun(j, now) \in Times /\ NextRun(j, now) > now /\ (j \notin Once => NextRun(j, now) # Never)
  BY NextRunLater
<1>3. CASE /\ jobs[j].status = "absent"
           /\ new = [status |-> "active", next |-> now + (IF j \in Once THEN 1 ELSE Period), stamp |-> now]
  BY <1>1, <1>3 DEF JobRecords
<1>4. CASE /\ jobs[j].status \in {"active", "paused", "completed"}
           /\ new = [status |-> "cancelled", next |-> Never, stamp |-> now]
  BY <1>1, <1>4 DEF JobRecords
<1>5. CASE /\ jobs[j].status \in {"active", "paused"} /\ j \notin Once
           /\ new = [status |-> "paused", next |-> Never, stamp |-> now]
  BY <1>1, <1>5 DEF JobRecords
<1>6. CASE /\ jobs[j].status \in {"active", "paused"} /\ j \notin Once
           /\ new = [status |-> "active", next |-> NextRun(j, now), stamp |-> now]
  BY <1>1, <1>2, <1>6 DEF JobRecords
<1> QED
  BY <1>3, <1>4, <1>5, <1>6 DEF Changes

LEMMA ReadForEditKeepsInv ==
  ASSUME JobsInv, NEW by \in 0..MaxWorkers, NEW j \in Jobs, NEW new \in Changes(j),
         ReadForEdit(by, j, new),
         by \in Workers => worker[by] \in {"live", "held"},
         by = 0 => owner = 0
  PROVE  JobsInv'
<1> USE DEF JobsInv
<1>1. /\ edit' = [by |-> by, job |-> j, new |-> new, read |-> jobs]
      /\ used.edits < MaxEdits /\ used' = [used EXCEPT !.edits = @ + 1]
      /\ UNCHANGED <<now, jobs, claims, worker, timer, lane, call, owner, parked, wake, recompute,
                     updating, forgotten, runs>>
  BY DEF ReadForEdit, fileVars, workerVars, supervisorVars
<1>2. /\ new \in JobRecords
      /\ new.status = "active" => new.next # Never
      /\ new.next > now
      /\ \/ new.status = "cancelled" /\ jobs[j].status \in {"active", "paused", "completed"}
         \/ new.status = "active" /\ jobs[j].status = "absent"
         \/ /\ j \notin Once /\ new.status \in {"active", "paused"}
            /\ jobs[j].status \in {"active", "paused"}
  BY ChangesFacts
<1>3. used' \in Budgets
  <2>1. used \in Budgets
    BY DEF Typed
  <2> QED
    BY <1>1, <2>1 DEF Budgets
<1>4. /\ edit' \in Edits /\ edit'.by = by /\ edit'.job = j /\ edit'.new = new /\ edit'.read = jobs
  BY <1>1, <1>2 DEF Typed, Edits
<1>5. Typed'
  BY <1>1, <1>3, <1>4 DEF Typed
<1>6. WorkerInv' /\ ClaimInv' /\ LaneInv' /\ ActiveWillRun'
  BY <1>1 DEF WorkerInv, ClaimInv, LaneInv, ActiveWillRun, Claimed
<1>7. EditInv'
  <2>1. \A k \in Jobs : StillRead(k)'
    BY <1>1, <1>4 DEF StillRead
  <2>2. \A k \in Jobs : jobs[k].status = "active" /\ jobs[k].next = Never => k \in Once
    BY DEF ActiveWillRun
  <2> QED
    BY <1>1, <1>2, <1>4, <2>1, <2>2 DEF EditInv
<1>8. KeepsPassed
  <2>1. ASSUME NEW k \in Jobs, NEW t \in Times, Passed(k, t)
        PROVE  t < Incoming'[k].next
    <3>1. Incoming' = [jobs EXCEPT ![j] = new]
      BY <1>4 DEF Incoming
    <3>2. jobs \in [Jobs -> JobRecords] /\ new.next \in Times /\ now \in 0..MaxTime
      BY <1>2 DEF Typed, JobRecords
    <3> QED
      BY <1>2, <2>1, <3>1, <3>2 DEF Passed
  <2> QED
    BY <1>1, <2>1 DEF KeepsPassed, Passed
<1>9. RunInv'
  BY <1>1, <1>8, RunInvKept
<1> QED
  BY <1>5, <1>6, <1>7, <1>9

LEMMA WorkerEditKeepsInv ==
  ASSUME JobsInv, NEW i \in Workers, NEW j \in Jobs, NEW new \in Changes(j), WorkerEdit(i, j, new)
  PROVE  JobsInv'
BY ReadForEditKeepsInv DEF WorkerEdit

LEMMA PassiveEditKeepsInv ==
  ASSUME JobsInv, NEW j \in Jobs, NEW new \in Changes(j), PassiveEdit(j, new)
  PROVE  JobsInv'
BY ReadForEditKeepsInv DEF PassiveEdit

\* What is merged is what the file has, or what an edit of a job that is still as it
\* was read has made of it, or an older schedule of a repeating job.
LEMMA WriteEditFacts ==
  ASSUME JobsInv, WriteEdit
  PROVE  /\ Pending /\ jobs' \in [Jobs -> JobRecords]
         /\ \A j \in Jobs :
              \/ jobs'[j] = jobs[j]
              \/ j = edit.job /\ jobs'[j] = edit.new
              \/ /\ j # edit.job /\ jobs'[j] = edit.read[j]
                 /\ j \notin Once /\ edit.read[j].status = "active" /\ jobs[j].status = "active"
                 /\ edit.read[j].next # Never
<1> USE DEF JobsInv
<1>1. Pending /\ jobs' = Merged(jobs, Incoming)
  BY DEF WriteEdit, Pending, Incoming
<1>2. /\ edit.job \in Jobs /\ edit.read \in [Jobs -> JobRecords]
      /\ Incoming \in [Jobs -> JobRecords] /\ Incoming[edit.job] = edit.new
      /\ \A j \in Jobs : j # edit.job => Incoming[j] = edit.read[j]
  BY <1>1, PendingTyped
<1>3. jobs \in [Jobs -> JobRecords]
  BY DEF Typed
<1>4. /\ jobs' \in [Jobs -> JobRecords]
      /\ \A j \in Jobs :
           \/ jobs'[j] = jobs[j]
           \/ /\ jobs'[j] = Incoming[j] /\ Incoming[j].status # "absent"
              /\ jobs[j].status = "absent" \/ Incoming[j].stamp >= jobs[j].stamp
  BY <1>1, <1>2, <1>3, MergedFacts
<1>5. \A j \in Jobs :
        /\ edit.read[j].status = "active" /\ edit.read[j].next = Never => j \in Once
        /\ \/ jobs[j] = edit.read[j]
           \/ /\ edit.read[j].status = "active"
              /\ \/ j \in Once /\ jobs[j].status = "completed" /\ jobs[j].stamp > edit.read[j].stamp
                 \/ j \notin Once /\ jobs[j].status = "active"
  BY <1>1 DEF EditInv, StillRead
<1>6. \A j \in Jobs : jobs[j].stamp \in Nat /\ edit.read[j].stamp \in Nat
  BY <1>2, <1>3 DEF JobRecords
<1>7. ASSUME NEW j \in Jobs, j # edit.job, jobs'[j] # jobs[j]
      PROVE  /\ jobs'[j] = edit.read[j]
             /\ j \notin Once /\ edit.read[j].status = "active" /\ jobs[j].status = "active"
             /\ edit.read[j].next # Never
  BY <1>2, <1>4, <1>5, <1>6, <1>7
<1> QED
  BY <1>1, <1>2, <1>4, <1>7
LEMMA WriteEditKeepsInv == ASSUME JobsInv, WriteEdit PROVE JobsInv'
<1> USE DEF JobsInv
<1>1. /\ Pending /\ jobs' \in [Jobs -> JobRecords]
      /\ \A j \in Jobs :
           \/ jobs'[j] = jobs[j]
           \/ j = edit.job /\ jobs'[j] = edit.new
           \/ /\ j # edit.job /\ jobs'[j] = edit.read[j]
              /\ j \notin Once /\ edit.read[j].status = "active" /\ jobs[j].status = "active"
              /\ edit.read[j].next # Never
  BY WriteEditFacts
<1>2. /\ edit' = NoEdit /\ ~Pending'
      /\ UNCHANGED <<now, claims, worker, lane, call, owner, parked, wake, updating, forgotten,
                     used, runs>>
  BY DEF WriteEdit, Pending
<1>3. /\ edit.by \in 0..MaxWorkers /\ edit.job \in Jobs
      /\ Incoming[edit.job] = edit.new
      /\ \A j \in Jobs : j # edit.job => Incoming[j] = edit.read[j]
  BY <1>1, PendingTyped
<1>4. /\ edit.new.status = "active" => edit.new.next # Never
      /\ edit.new.status # "absent"
      /\ edit.new.status = "active" /\ edit.job \in Once =>
           /\ jobs[edit.job].status = "absent"
  BY <1>1, <1>3 DEF EditInv, StillRead
<1>5. Typed'
  <2>1. timer' \in [Workers -> Times]
    BY SMTT(30) DEF WriteEdit, Typed
  <2>2. recompute' \in BOOLEAN
    BY DEF WriteEdit, Typed
  <2> QED
    BY <1>1, <1>2, <2>1, <2>2 DEF Typed
<1>6. WorkerInv' /\ LaneInv'
  BY <1>2 DEF WorkerInv, LaneInv
<1>7. \A d \in claims : d.job \in Jobs
  BY DEF Typed, Dispatches
<1>8. ClaimInv'
  <2>1. ASSUME NEW d \in claims
        PROVE  /\ jobs'[d.job].status # "absent"
               /\ d.job \in Once /\ jobs'[d.job].status = "active" =>
                    /\ jobs'[d.job].next = Never
                    /\ worker[d.by] = "released" => jobs'[d.job].stamp < now
    BY <1>1, <1>4, <1>7, <2>1 DEF ClaimInv
  <2> QED
    BY <1>2, <2>1 DEF ClaimInv
<1>9. ActiveWillRun'
  BY <1>1, <1>2, <1>4 DEF ActiveWillRun, Claimed
<1>10. EditInv'
  BY <1>2 DEF EditInv
<1>11. KeepsPassed
  BY <1>1, <1>2, <1>3 DEF KeepsPassed, Passed
<1>12. RunInv'
  BY <1>2, <1>11, RunInvKept
<1> QED
  BY <1>5, <1>6, <1>8, <1>9, <1>10, <1>12

-------------------------------------------------------------------------------
(* The scheduler *)

LEMMA NewClaimsFacts ==
  ASSUME Typed, NEW i \in Workers
  PROVE  /\ IsFiniteSet(NewClaims(i)) /\ NewClaims(i) \subseteq Dispatches
         /\ \A d \in NewClaims(i) :
              d.by = i /\ d.tick = jobs[d.job].next /\ IsDue(d.job) /\ ~Claimed(d.job)
         /\ \A c, d \in NewClaims(i) : c.job = d.job => c = d
         /\ \A j \in Jobs : IsDue(j) /\ ~Claimed(j) => \E d \in NewClaims(i) : d.job = j
<1> DEFINE S == {k \in Jobs : IsDue(k) /\ ~Claimed(k)}
           f == [j \in S |-> [job |-> j, tick |-> jobs[j].next, by |-> i]]
<1>1. IsFiniteSet(S)
  BY FS_Subset
<1>2. NewClaims(i) = {f[j] : j \in S}
  BY DEF NewClaims
<1>3. f \in Surjection(S, NewClaims(i))
  BY <1>2 DEF Surjection
<1>4. IsFiniteSet(NewClaims(i))
  BY <1>1, <1>3, FS_Surjection
<1>5. \A j \in S : f[j] \in Dispatches
  BY DEF Typed, JobRecords, Dispatches
<1>6. \A j \in S : f[j].job = j /\ f[j].by = i /\ f[j].tick = jobs[j].next
  OBVIOUS
<1>7. \A d \in NewClaims(i) : \E j \in S : d = f[j]
  BY <1>2
<1>8. \A d \in NewClaims(i) : d.job \in S /\ d = f[d.job]
  BY <1>6, <1>7
<1>9. \A j \in S : f[j] \in NewClaims(i)
  BY <1>2
<1>10. \A j \in S : j \in Jobs /\ IsDue(j) /\ ~Claimed(j)
  OBVIOUS
<1>11. \A j \in Jobs : IsDue(j) /\ ~Claimed(j) => j \in S
  OBVIOUS
<1> HIDE DEF S, f
<1> QED
  BY <1>4, <1>5, <1>6, <1>8, <1>9, <1>10, <1>11

LEMMA RunDueKeepsInv == ASSUME JobsInv, NEW i \in Workers, RunDue(i) PROVE JobsInv'
<1> USE DEF JobsInv
<1> DEFINE new == NewClaims(i)
           q   == SetToSeq(new)
<1>1. /\ worker[i] = "live" /\ Free(i)
      /\ jobs' = Advanced /\ claims' = claims \cup new
      /\ lane' = [lane EXCEPT ![i] = lane[i] \o q]
      /\ timer' = [timer EXCEPT ![i] = Earliest(jobs')]
      /\ UNCHANGED <<now, worker, call, owner, parked, wake, recompute, updating, forgotten, edit,
                     used, runs>>
  BY DEF RunDue, supervisorVars
<1>2. /\ IsFiniteSet(new) /\ new \subseteq Dispatches
      /\ \A d \in new : d.by = i /\ d.tick = jobs[d.job].next /\ IsDue(d.job) /\ ~Claimed(d.job)
      /\ \A c, d \in new : c.job = d.job => c = d
      /\ \A j \in Jobs : IsDue(j) /\ ~Claimed(j) => \E d \in new : d.job = j
  BY NewClaimsFacts
<1> HIDE DEF new
<1>3. q \in Seq(new) /\ \A k, l \in DOMAIN q : q[k] = q[l] => k = l
  BY <1>2, SetToSeqLists
<1> HIDE DEF q
<1>4. /\ jobs' \in [Jobs -> JobRecords]
      /\ \A j \in Jobs :
           /\ ~IsDue(j) => jobs'[j] = jobs[j]
           /\ IsDue(j) => /\ jobs[j].status = "active" /\ jobs[j].next <= now
                          /\ jobs'[j].status = "active"
                          /\ jobs'[j].next = NextRun(j, now)
  BY <1>1, AdvancedFacts
<1>5. ~Pending
  BY <1>1, PendingAlone DEF Serving
<1>6. /\ lane[i] \in Seq(Dispatches) /\ q \in Seq(Dispatches)
      /\ \A k \in DOMAIN q : q[k] \in new
  BY <1>2, <1>3 DEF Typed
<1>7. /\ lane[i] \o q \in Seq(Dispatches)
      /\ \A k \in DOMAIN (lane[i] \o q) :
           \/ k \in DOMAIN lane[i] /\ (lane[i] \o q)[k] = lane[i][k]
           \/ /\ k \notin DOMAIN lane[i] /\ k - Len(lane[i]) \in DOMAIN q
              /\ (lane[i] \o q)[k] = q[k - Len(lane[i])]
  BY <1>6, ConcatEntries
<1>8. /\ lane' \in [Workers -> Seq(Dispatches)] /\ lane'[i] = lane[i] \o q
      /\ \A h \in Workers : h # i => lane'[h] = lane[h]
  BY <1>1, <1>7 DEF Typed
\* An entry of a lane was there, or is one of the new dispatches, at its place in them.
<1>9. ASSUME NEW h \in Workers, NEW k \in DOMAIN lane'[h]
      PROVE  \/ k \in DOMAIN lane[h] /\ lane'[h][k] = lane[h][k]
             \/ /\ h = i /\ k \notin DOMAIN lane[i] /\ k - Len(lane[i]) \in DOMAIN q
                /\ lane'[h][k] = q[k - Len(lane[i])] /\ lane'[h][k] \in new
  <2>1. CASE h = i
    <3>1. k \in DOMAIN (lane[i] \o q) /\ lane'[h][k] = (lane[i] \o q)[k]
      BY <1>8, <2>1
    <3> QED
      BY <1>6, <1>7, <2>1, <3>1
  <2>2. CASE h # i
    BY <1>8, <2>2
  <2> QED
    BY <2>1, <2>2
<1>10. Typed'
  <2>1. timer' \in [Workers -> Times]
    BY <1>1, <1>4, EarliestTyped DEF Typed
  <2>2. claims' \subseteq Dispatches
    BY <1>1, <1>2 DEF Typed
  <2> QED
    BY <1>1, <1>4, <1>8, <2>1, <2>2 DEF Typed
<1>11. WorkerInv'
  <2>1. \A h \in Workers : worker[h] \in {"unborn", "dead"} => lane'[h] = <<>>
    BY <1>1, <1>8 DEF WorkerInv
  <2>2. \A h \in Workers : lane[h] # <<>> => lane'[h] # <<>>
    BY <1>6, <1>8
  <2>3. \A h \in Workers : \A k \in DOMAIN lane'[h] : lane'[h][k].by = h
    BY <1>2, <1>9 DEF WorkerInv
  <2> QED
    BY <1>1, <2>1, <2>2, <2>3 DEF WorkerInv
<1>12. \A d \in claims : d \in Dispatches /\ d.job \in Jobs /\ Claimed(d.job)
  BY DEF Typed, Dispatches, Claimed
<1>13. ClaimInv'
  <2>1. \A c, d \in claims' : c.job = d.job => c = d
    BY <1>1, <1>2, <1>12 DEF ClaimInv
  <2>2. \A h \in Workers : worker[h] \in Serving => \A d \in claims' : d.by = h
    <3>1. \A h \in Workers : worker[h] \in Serving => h = i
      BY <1>1 DEF WorkerInv, Serving
    <3> QED
      BY <1>1, <1>2, <3>1 DEF ClaimInv
  <2>3. ASSUME NEW d \in claims'
        PROVE  /\ d.job \in Jobs /\ d.by = i /\ jobs'[d.job].status # "absent"
               /\ d.job \in Once /\ jobs'[d.job].status = "active" => jobs'[d.job].next = Never
    <3>1. d.job \in Jobs
      BY <1>1, <1>2, <1>12 DEF Dispatches
    <3>2. d.by = i
      BY <1>1, <1>2 DEF ClaimInv, Serving
    <3>3. d.job \in Once => NextRun(d.job, now) = Never
      BY DEF NextRun
    <3>4. CASE d \in new
      BY <1>2, <1>4, <3>1, <3>2, <3>3, <3>4
    <3>5. CASE d \in claims
      BY <1>4, <3>1, <3>2, <3>3, <3>5 DEF ClaimInv
    <3> QED
      BY <1>1, <3>4, <3>5
  <2> QED
    BY <1>1, <2>1, <2>2, <2>3 DEF ClaimInv
<1>14. EditInv'
  BY <1>1, <1>5 DEF EditInv, Pending
<1>15. ActiveWillRun'
  <2> SUFFICES ASSUME NEW j \in Jobs, jobs'[j].status = "active", jobs'[j].next = Never
               PROVE  j \in Once /\ \E d \in claims' : d.job = j
    BY DEF ActiveWillRun, Claimed
  <2>1. CASE IsDue(j)
    BY <1>1, <1>2, <1>4, <2>1, NextRunLater DEF Claimed
  <2>2. CASE ~IsDue(j)
    BY <1>1, <1>4, <2>2 DEF ActiveWillRun, Claimed
  <2> QED
    BY <2>1, <2>2
<1>16. LaneInv'
  <2> SUFFICES ASSUME NEW h \in Workers, worker[h] \in {"live", "held"}
               PROVE  /\ \A k \in DOMAIN lane'[h] : lane'[h][k] \in claims'
                      /\ \A k, l \in DOMAIN lane'[h] : lane'[h][k].job = lane'[h][l].job => k = l
    BY <1>1 DEF LaneInv
  <2>1. h = i
    BY <1>1 DEF WorkerInv, Serving
  <2>2. \A k \in DOMAIN lane[i] : lane[i][k] \in claims
    BY <2>1 DEF LaneInv
  <2>3. ASSUME NEW k \in DOMAIN lane'[h], NEW l \in DOMAIN lane'[h],
               lane'[h][k].job = lane'[h][l].job
        PROVE  k = l
    <3>1. CASE k \in DOMAIN lane[i] /\ l \in DOMAIN lane[i]
      BY <1>9, <2>1, <2>3, <3>1 DEF LaneInv
    <3>2. CASE k \in DOMAIN lane[i] /\ l \notin DOMAIN lane[i]
      <4>1. lane'[h][k] \in claims /\ lane'[h][l] \in new
        BY <1>9, <2>1, <2>2, <3>2
      <4> QED
        BY <1>2, <1>12, <2>3, <4>1
    <3>3. CASE k \notin DOMAIN lane[i] /\ l \in DOMAIN lane[i]
      <4>1. lane'[h][l] \in claims /\ lane'[h][k] \in new
        BY <1>9, <2>1, <2>2, <3>3
      <4> QED
        BY <1>2, <1>12, <2>3, <4>1
    <3>4. CASE k \notin DOMAIN lane[i] /\ l \notin DOMAIN lane[i]
      <4>1. /\ k - Len(lane[i]) \in DOMAIN q /\ lane'[h][k] = q[k - Len(lane[i])] /\ lane'[h][k] \in new
            /\ l - Len(lane[i]) \in DOMAIN q /\ lane'[h][l] = q[l - Len(lane[i])] /\ lane'[h][l] \in new
        BY <1>9, <2>1, <3>4
      <4>2. k - Len(lane[i]) = l - Len(lane[i])
        BY <1>2, <1>3, <2>3, <4>1
      <4>3. k \in Nat /\ l \in Nat /\ Len(lane[i]) \in Nat
        BY <1>6, <1>7, <1>8, <2>1
      <4> QED
        BY <4>2, <4>3
    <3> QED
      BY <3>1, <3>2, <3>3, <3>4
  <2> QED
    BY <1>1, <1>9, <2>1, <2>2, <2>3
<1>17. KeepsPassed
  <2> SUFFICES ASSUME NEW j \in Jobs, NEW t \in Times, Passed(j, t)
               PROVE  t <= now /\ t < jobs'[j].next
    BY <1>1, <1>5 DEF KeepsPassed, Passed, Pending
  <2>1. t \in Nat /\ now \in Nat /\ t <= now /\ t < jobs[j].next
    BY DEF Passed, Typed
  <2>2. NextRun(j, now) > now /\ NextRun(j, now) \in Nat
    BY NextRunLater
  <2> QED
    BY <1>4, <2>1, <2>2
<1>18. ASSUME NEW d \in new
       PROVE  /\ d.job \in Jobs /\ d.tick \in Times
              /\ ~Passed(d.job, d.tick)
              /\ d.tick <= now /\ d.tick < jobs'[d.job].next
  <2>1. d.job \in Jobs /\ d.tick \in Times /\ d.tick = jobs[d.job].next /\ IsDue(d.job)
    BY <1>2 DEF Dispatches
  <2>2. jobs'[d.job].next > now /\ d.tick <= now /\ now \in Nat /\ jobs'[d.job].next \in Nat
    <3>1. NextRun(d.job, now) > now /\ NextRun(d.job, now) \in Nat
      BY <2>1, NextRunLater
    <3>2. jobs'[d.job].next = NextRun(d.job, now)
      BY <1>4, <2>1
    <3> QED
      BY <2>1, <3>1, <3>2 DEF IsDue, Typed
  <2> QED
    BY <2>1, <2>2 DEF Passed
<1>19. RunInv'
  <2>1. ASSUME NEW j \in Jobs, NEW t \in Times, runs'[j][t] # 0
        PROVE  runs'[j][t] = 1 /\ Passed(j, t)'
    BY <1>1, <1>17, <2>1 DEF RunInv, KeepsPassed
  <2>2. ASSUME NEW h \in Workers, NEW k \in DOMAIN lane'[h]
        PROVE  /\ Passed(lane[h][k].job, lane[h][k].tick)'
               /\ runs'[lane'[h][k].job][lane'[h][k].tick] # 0 => k = 1 /\ call'[h] = "ran"
    <3>1. CASE k \in DOMAIN lane[h] /\ lane'[h][k] = lane[h][k]
      <4>1. lane[h][k].job \in Jobs /\ lane[h][k].tick \in Times
        BY <3>1, LaneEntries
      <4>2. Passed(lane[h][k].job, lane[h][k].tick)
        BY <3>1 DEF RunInv
      <4>3. runs[lane[h][k].job][lane[h][k].tick] # 0 => k = 1 /\ call[h] = "ran"
        BY <3>1, SMTT(30) DEF RunInv
      <4> QED
        BY <1>1, <1>17, <3>1, <4>1, <4>2, <4>3 DEF KeepsPassed, Passed
    <3>2. CASE lane'[h][k] \in new
      <4> DEFINE d == lane'[h][k]
      <4>1. /\ d.job \in Jobs /\ d.tick \in Times /\ ~Passed(d.job, d.tick)
            /\ d.tick <= now /\ d.tick < jobs'[d.job].next
        BY <1>18, <3>2
      <4>2. runs[d.job][d.tick] = 0
        BY <4>1 DEF RunInv
      <4> QED
        BY <1>1, <1>5, <4>1, <4>2 DEF Passed, Pending
    <3> QED
      BY <1>9, <3>1, <3>2, SMTT(30)
  <2>3. ASSUME NEW g \in Workers, NEW h \in Workers,
               NEW k \in DOMAIN lane'[g], NEW l \in DOMAIN lane'[h],
               lane'[g][k].job = lane'[h][l].job, lane'[g][k].tick = lane'[h][l].tick
        PROVE  g = h /\ k = l
    <3> DEFINE Old(w, n) == n \in DOMAIN lane[w] /\ lane'[w][n] = lane[w][n]
               New(w, n) == /\ w = i /\ n - Len(lane[i]) \in DOMAIN q
                            /\ lane'[w][n] = q[n - Len(lane[i])] /\ lane'[w][n] \in new
    <3>1. (Old(g, k) \/ New(g, k)) /\ (Old(h, l) \/ New(h, l))
      BY <1>9
    <3>2. CASE Old(g, k) /\ Old(h, l)
      <4>1. lane[g][k].job = lane[h][l].job /\ lane[g][k].tick = lane[h][l].tick
        BY <2>3, <3>2
      <4> QED
        BY <3>2, <4>1 DEF RunInv
    <3>3. CASE Old(g, k) /\ New(h, l)
      <4>1. Passed(lane[g][k].job, lane[g][k].tick)
        BY <3>3 DEF RunInv
      <4>2. ~Passed(lane'[h][l].job, lane'[h][l].tick)
        BY <1>18, <3>3
      <4> QED
        BY <2>3, <3>3, <4>1, <4>2
    <3>4. CASE New(g, k) /\ Old(h, l)
      <4>1. Passed(lane[h][l].job, lane[h][l].tick)
        BY <3>4 DEF RunInv
      <4>2. ~Passed(lane'[g][k].job, lane'[g][k].tick)
        BY <1>18, <3>4
      <4> QED
        BY <2>3, <3>4, <4>1, <4>2
    <3>5. CASE New(g, k) /\ New(h, l)
      <4>1. k - Len(lane[i]) = l - Len(lane[i])
        BY <1>2, <1>3, <2>3, <3>5
      <4>2. k \in Nat /\ l \in Nat /\ Len(lane[i]) \in Nat
        BY <1>6, <1>7, <1>8, <3>5, SMTT(30)
      <4> QED
        BY <3>5, <4>1, <4>2
    <3> QED
      BY <3>1, <3>2, <3>3, <3>4, <3>5
  <2> QED
    BY <2>1, <2>2, <2>3 DEF RunInv
<1> QED
  BY <1>10, <1>11, <1>13, <1>14, <1>15, <1>16, <1>19

LEMMA BeginKeepsInv == ASSUME JobsInv, NEW i \in Workers, Begin(i) PROVE JobsInv'
<1>1. /\ UNCHANGED <<now, jobs, claims, worker, timer, lane, owner, parked, wake, recompute,
                     updating, forgotten, edit, used, runs>>
      /\ call[i] = "idle" /\ lane[i] # <<>>
      /\ call' = [call EXCEPT ![i] = "opening"] \/ call' = [call EXCEPT ![i] = "skipped"]
  BY DEF Begin, fileVars, supervisorVars
<1>2. Typed'
  BY <1>1 DEF JobsInv, Typed, Calls
<1> QED
  BY <1>1, <1>2, QuietKeepsInv DEF JobsInv, Typed

LEMMA DeclineKeepsInv == ASSUME JobsInv, NEW i \in Workers, Decline(i) PROVE JobsInv'
<1>1. /\ UNCHANGED <<now, jobs, claims, worker, timer, lane, owner, parked, wake, recompute,
                     updating, forgotten, edit, used, runs>>
      /\ call[i] = "opening"
      /\ call' = [call EXCEPT ![i] = "ran"] \/ call' = [call EXCEPT ![i] = "skipped"]
  BY DEF Decline, fileVars, supervisorVars
<1>2. Typed'
  BY <1>1 DEF JobsInv, Typed, Calls
<1>3. lane[i] # <<>>
  BY <1>1 DEF JobsInv, WorkerInv
<1> QED
  BY <1>1, <1>2, <1>3, QuietKeepsInv DEF JobsInv, Typed

LEMMA DeliverKeepsInv == ASSUME JobsInv, NEW i \in Workers, Deliver(i) PROVE JobsInv'
<1> USE DEF JobsInv
<1> DEFINE j == Head(lane[i]).job
           t == Head(lane[i]).tick
<1>1. /\ UNCHANGED <<now, jobs, claims, worker, timer, lane, owner, parked, wake, recompute,
                     updating, forgotten, edit, used>>
      /\ call[i] = "opening"
      /\ call' = [call EXCEPT ![i] = "ran"]
      /\ runs' = [runs EXCEPT ![j][t] = IF runs[j][t] = 2 THEN 2 ELSE runs[j][t] + 1]
  BY DEF Deliver, fileVars, supervisorVars
<1>2. /\ lane[i] # <<>> /\ 1 \in DOMAIN lane[i] /\ Head(lane[i]) = lane[i][1]
      /\ j \in Jobs /\ t \in Times
  <2>1. lane[i] # <<>> /\ lane[i] \in Seq(Dispatches)
    BY <1>1 DEF WorkerInv, Typed
  <2>2. Head(lane[i]) \in Dispatches /\ 1 \in DOMAIN lane[i] /\ Head(lane[i]) = lane[i][1]
    BY <2>1, TailEntries
  <2>3. j \in Jobs /\ t \in Times
    BY <2>2 DEF Dispatches
  <2> QED
    BY <2>1, <2>2, <2>3
<1>3. runs[j][t] = 0 /\ Passed(j, t)
  BY <1>1, <1>2 DEF RunInv
<1>4. /\ runs' \in [Jobs -> [Times -> 0..2]] /\ runs'[j][t] = 1
      /\ \A k \in Jobs : \A u \in Times : k # j \/ u # t => runs'[k][u] = runs[k][u]
  BY <1>1, <1>2, <1>3, SMTT(30) DEF Typed
<1>5. Typed'
  BY <1>1, <1>4 DEF Typed, Calls
<1>6. WorkerInv' /\ ClaimInv' /\ LaneInv' /\ ActiveWillRun' /\ EditInv'
  <2>1. WorkerInv'
    BY <1>1, <1>2 DEF WorkerInv, Typed
  <2>2. ClaimInv' /\ LaneInv' /\ ActiveWillRun'
    BY <1>1 DEF ClaimInv, LaneInv, ActiveWillRun, Claimed
  <2>3. EditInv'
    BY <1>1 DEF EditInv, Pending, StillRead
  <2> QED
    BY <2>1, <2>2, <2>3
<1>7. KeepsPassed
  BY <1>1 DEF KeepsPassed, Passed, Pending, Incoming
<1> HIDE DEF j, t
<1>8. RunInv'
  <2>1. ASSUME NEW k \in Jobs, NEW u \in Times, runs'[k][u] # 0
        PROVE  runs'[k][u] = 1 /\ Passed(k, u)'
    <3>1. CASE k = j /\ u = t
      BY <1>2, <1>3, <1>4, <1>7, <3>1 DEF KeepsPassed
    <3>2. CASE k # j \/ u # t
      BY <1>4, <1>7, <2>1, <3>2 DEF RunInv, KeepsPassed
    <3> QED
      BY <3>1, <3>2
  <2>2. ASSUME NEW h \in Workers, NEW k \in DOMAIN lane'[h]
        PROVE  /\ Passed(lane[h][k].job, lane[h][k].tick)'
               /\ runs'[lane'[h][k].job][lane'[h][k].tick] # 0 => k = 1 /\ call'[h] = "ran"
    <3>1. k \in DOMAIN lane[h] /\ lane'[h][k] = lane[h][k]
      BY <1>1
    <3>2. lane[h][k].job \in Jobs /\ lane[h][k].tick \in Times
      BY <3>1, LaneEntries
    <3>3. Passed(lane[h][k].job, lane[h][k].tick)'
      BY <1>1, <1>7, <3>1, <3>2 DEF RunInv, KeepsPassed, Passed
    <3>4. CASE lane[h][k].job = j /\ lane[h][k].tick = t
      <4>1. h = i /\ k = 1
        BY <1>2, <3>1, <3>4 DEF RunInv, j, t
      <4> QED
        BY <1>1, <3>3, <4>1 DEF Typed
    <3>5. CASE lane[h][k].job # j \/ lane[h][k].tick # t
      <4>1. runs[lane[h][k].job][lane[h][k].tick] # 0 => k = 1 /\ call[h] = "ran"
        BY <3>1 DEF RunInv
      <4>2. runs'[lane[h][k].job][lane[h][k].tick] = runs[lane[h][k].job][lane[h][k].tick]
        BY <1>4, <3>2, <3>5
      <4>3. call[h] = "ran" => call'[h] = "ran"
        BY <1>1 DEF Typed
      <4> QED
        BY <3>1, <3>3, <4>1, <4>2, <4>3
    <3> QED
      BY <3>4, <3>5
  <2>3. ASSUME NEW g \in Workers, NEW h \in Workers,
               NEW k \in DOMAIN lane'[g], NEW l \in DOMAIN lane'[h],
               lane'[g][k].job = lane'[h][l].job, lane'[g][k].tick = lane'[h][l].tick
        PROVE  g = h /\ k = l
    BY <1>1, <2>3 DEF RunInv
  <2> QED
    BY <2>1, <2>2, <2>3 DEF RunInv
<1> QED
  BY <1>5, <1>6, <1>8

LEMMA RecordKeepsInv == ASSUME JobsInv, NEW i \in Workers, Record(i) PROVE JobsInv'
<1> USE DEF JobsInv
<1> DEFINE d == Head(lane[i])
           k == d.job
<1>1. /\ UNCHANGED <<now, worker, timer, owner, parked, wake, recompute, updating, forgotten, edit,
                     used, runs>>
      /\ worker[i] \notin {"unborn", "dead"} /\ Free(i) /\ call[i] # "idle"
      /\ jobs' = Recorded(d, call[i])
      /\ claims' = claims \ {d}
      /\ lane' = [lane EXCEPT ![i] = Tail(lane[i])]
      /\ call' = [call EXCEPT ![i] = "idle"]
  BY DEF Record, supervisorVars
<1>2. lane[i] \in Seq(Dispatches) /\ lane[i] # <<>>
  BY <1>1 DEF WorkerInv, Typed
<1>3. /\ Tail(lane[i]) \in Seq(Dispatches) /\ d \in Dispatches /\ 1 \in DOMAIN lane[i] /\ d = lane[i][1]
      /\ \A n \in DOMAIN Tail(lane[i]) :
           n + 1 \in DOMAIN lane[i] /\ n + 1 # 1 /\ Tail(lane[i])[n] = lane[i][n + 1]
  BY <1>2, TailEntries
<1>4. k \in Jobs /\ d.by = i
  BY <1>3 DEF Dispatches, WorkerInv
<1>5. /\ jobs' \in [Jobs -> JobRecords]
      /\ \A j \in Jobs : j # k => jobs'[j] = jobs[j]
      /\ d \notin claims \/ jobs[k].status # "active" => jobs'[k] = jobs[k]
      /\ d \in claims /\ jobs[k].status = "active" =>
           /\ jobs'[k].status = IF k \in Once THEN "completed" ELSE "active"
           /\ jobs'[k].stamp = now
           /\ jobs'[k].next \in {jobs[k].next, NextRun(k, now)}
  BY <1>1, <1>3, RecordedFacts
<1>6. /\ lane' \in [Workers -> Seq(Dispatches)] /\ lane'[i] = Tail(lane[i])
      /\ \A h \in Workers : h # i => lane'[h] = lane[h]
  BY <1>1, <1>3 DEF Typed
<1>7. NextRun(k, now) > now /\ (k \notin Once => NextRun(k, now) # Never)
  BY <1>4, NextRunLater
<1> HIDE DEF d, k
\* An entry of a lane has moved up, or stayed.
<1>8. ASSUME NEW h \in Workers, NEW n \in DOMAIN lane'[h]
      PROVE  \E m \in DOMAIN lane[h] :
               /\ lane'[h][n] = lane[h][m]
               /\ h = i => m = n + 1 /\ m # 1
               /\ h # i => m = n
  <2>1. CASE h = i
    BY <1>3, <1>6, <2>1
  <2>2. CASE h # i
    BY <1>6, <2>2
  <2> QED
    BY <2>1, <2>2
<1>9. Typed'
  <2>1. call' \in [Workers -> Calls]
    BY <1>1 DEF Typed, Calls
  <2> QED
    BY <1>1, <1>5, <1>6, <2>1 DEF Typed
<1>10. WorkerInv'
  <2>1. \A h \in Workers : \A n \in DOMAIN lane'[h] : lane'[h][n].by = h
    BY <1>8 DEF WorkerInv
  <2>2. call'[i] = "idle" /\ \A h \in Workers : h # i => call'[h] = call[h]
    BY <1>1 DEF Typed
  <2>3. \A h \in Workers : worker[h] \in {"unborn", "dead"} => h # i
    BY <1>1
  <2> QED
    BY <1>1, <1>6, <2>1, <2>2, <2>3, ZenonT(60) DEF WorkerInv
<1>11. ClaimInv'
  <2>1. ASSUME NEW e \in claims'
        PROVE  e \in claims /\ jobs'[e.job] = jobs[e.job]
    <3>1. e \in claims /\ e # d /\ e.job \in Jobs
      BY <1>1 DEF Typed, Dispatches
    <3>2. d \in claims => e.job # k
      BY <3>1 DEF ClaimInv, k
    <3> QED
      BY <1>5, <3>1, <3>2
  <2> QED
    BY <1>1, <2>1 DEF ClaimInv
<1>12. EditInv'
  <2>1. CASE ~Pending
    BY <1>1, <2>1 DEF EditInv, Pending
  <2>2. CASE Pending
    <3>1. ASSUME NEW j \in Jobs, j = k
          PROVE  StillRead(j)'
      <4>1. CASE d \notin claims \/ jobs[k].status # "active"
        <5>1. StillRead(k)
          BY <1>4, <2>2 DEF EditInv
        <5>2. jobs'[k] = jobs[k] /\ edit' = edit
          BY <1>1, <1>5, <4>1
        <5> QED
          BY <3>1, <5>1, <5>2 DEF StillRead
      <4>2. CASE d \in claims /\ jobs[k].status = "active"
        <5>1. edit.by \in 0..MaxWorkers /\ edit.by # i
          BY <1>1, <2>2, PendingTyped DEF Free
        <5>2. edit.by = 0
          BY <1>4, <2>2, <4>2, <5>1 DEF EditInv, ClaimInv, Serving
        <5>3. worker[i] = "released"
          <6>1. owner = 0
            BY <2>2, <5>2 DEF EditInv
          <6>2. worker[i] \in Lives /\ worker[i] \notin Serving
            BY <6>1 DEF WorkerInv, Typed
          <6> QED
            BY <1>1, <6>2 DEF Lives, Serving
        <5>4. k \in Once => jobs[k].stamp < now
          BY <1>4, <4>2, <5>3 DEF ClaimInv, k
        <5>5. StillRead(k)
          BY <1>4, <2>2 DEF EditInv
        <5>6. CASE k \in Once
          <6>1. jobs[k] = edit.read[k]
            BY <4>2, <5>5, <5>6 DEF StillRead
          <6>2. jobs'[k].status = "completed" /\ jobs'[k].stamp = now /\ edit.read[k].stamp < now
            BY <1>5, <4>2, <5>4, <5>6, <6>1
          <6>3. edit.read[k].stamp \in Nat /\ now \in Nat
            <7>1. jobs[k] \in JobRecords /\ now \in Nat
              BY <1>4 DEF Typed
            <7>2. jobs[k].stamp \in Nat
              BY <7>1 DEF JobRecords
            <7> QED
              BY <6>1, <7>1, <7>2
          <6>4. edit' = edit /\ edit.read[k].status = "active"
            BY <1>1, <4>2, <6>1
          <6>5. jobs'[k].stamp > edit.read[k].stamp
            BY <6>2, <6>3
          <6> QED
            BY <3>1, <5>6, <6>2, <6>4, <6>5 DEF StillRead
        <5>7. CASE k \notin Once
          <6>1. edit.read[k].status = "active"
            BY <4>2, <5>5 DEF StillRead
          <6>2. jobs'[k].status = "active"
            BY <1>5, <4>2, <5>7
          <6> QED
            BY <1>1, <3>1, <5>7, <6>1, <6>2 DEF StillRead
        <5> QED
          BY <5>6, <5>7
      <4> QED
        BY <4>1, <4>2
    <3>2. ASSUME NEW j \in Jobs, j # k
          PROVE  StillRead(j)'
      <4>1. StillRead(j)
        BY <2>2 DEF EditInv
      <4>2. jobs'[j] = jobs[j] /\ edit' = edit
        BY <1>1, <1>5, <3>2
      <4> QED
        BY <4>1, <4>2 DEF StillRead
    <3>3. \A j \in Jobs : StillRead(j)'
      BY <3>1, <3>2
    <3> QED
      BY <1>1, <2>2, <3>3 DEF EditInv, Pending
  <2> QED
    BY <2>1, <2>2
<1>13. ActiveWillRun'
  <2> SUFFICES ASSUME NEW j \in Jobs, jobs'[j].status = "active", jobs'[j].next = Never
               PROVE  j \in Once /\ \E e \in claims' : e.job = j
    BY DEF ActiveWillRun, Claimed
  <2>1. CASE j # k
    <3>1. j \in Once /\ \E e \in claims : e.job = j
      BY <1>5, <2>1 DEF ActiveWillRun, Claimed
    <3> QED
      BY <1>1, <2>1, <3>1 DEF k
  <2>2. CASE j = k
    <3>1. CASE d \notin claims
      BY <1>1, <1>5, <2>2, <3>1 DEF ActiveWillRun, Claimed
    <3>2. CASE d \in claims
      BY <1>5, <1>7, <2>2, <3>2 DEF ActiveWillRun
    <3> QED
      BY <3>1, <3>2
  <2> QED
    BY <2>1, <2>2
<1>14. KeepsPassed
  <2> SUFFICES ASSUME NEW j \in Jobs, NEW t \in Times, Passed(j, t)
               PROVE  t < jobs'[j].next
    BY <1>1 DEF KeepsPassed, Passed, Pending, Incoming
  <2>1. t \in Nat /\ now \in Nat /\ t <= now /\ t < jobs[j].next
    BY DEF Passed, Typed
  <2>2. NextRun(k, now) \in Nat
    BY <1>4, NextRunLater
  <2> QED
    BY <1>5, <1>7, <2>1, <2>2
<1>15. RunInv'
  <2>1. ASSUME NEW j \in Jobs, NEW t \in Times, runs'[j][t] # 0
        PROVE  runs'[j][t] = 1 /\ Passed(j, t)'
    BY <1>1, <1>14, <2>1 DEF RunInv, KeepsPassed
  <2>2. ASSUME NEW h \in Workers, NEW n \in DOMAIN lane'[h]
        PROVE  /\ Passed(lane[h][n].job, lane[h][n].tick)'
               /\ runs'[lane'[h][n].job][lane'[h][n].tick] # 0 => n = 1 /\ call'[h] = "ran"
    <3>1. PICK m \in DOMAIN lane[h] :
            lane'[h][n] = lane[h][m] /\ (h = i => m # 1) /\ (h # i => m = n)
      BY <1>8
    <3>2. lane[h][m].job \in Jobs /\ lane[h][m].tick \in Times
      BY LaneEntries
    <3>3. Passed(lane[h][m].job, lane[h][m].tick)
      BY DEF RunInv
    <3>4. runs[lane[h][m].job][lane[h][m].tick] # 0 => m = 1 /\ call[h] = "ran"
      BY DEF RunInv
    <3>5. h # i => call'[h] = call[h]
      BY <1>1 DEF Typed
    <3> QED
      BY <1>1, <1>14, <3>1, <3>2, <3>3, <3>4, <3>5 DEF KeepsPassed, Passed
  <2>3. ASSUME NEW g \in Workers, NEW h \in Workers,
               NEW n \in DOMAIN lane'[g], NEW l \in DOMAIN lane'[h],
               lane'[g][n].job = lane'[h][l].job, lane'[g][n].tick = lane'[h][l].tick
        PROVE  g = h /\ n = l
    <3>1. PICK m \in DOMAIN lane[g] :
            lane'[g][n] = lane[g][m] /\ (g = i => m = n + 1) /\ (g # i => m = n)
      BY <1>8
    <3>2. PICK o \in DOMAIN lane[h] :
            lane'[h][l] = lane[h][o] /\ (h = i => o = l + 1) /\ (h # i => o = l)
      BY <1>8
    <3>3. g = h /\ m = o
      BY <2>3, <3>1, <3>2 DEF RunInv
    <3>4. lane'[g] \in Seq(Dispatches) /\ lane'[h] \in Seq(Dispatches)
      BY <1>6
    <3>5. n \in Nat /\ l \in Nat
      BY <3>4
    <3> QED
      BY <3>1, <3>2, <3>3, <3>5
  <2> QED
    BY <2>1, <2>2, <2>3 DEF RunInv
<1>16. LaneInv'
  <2> SUFFICES ASSUME NEW h \in Workers, worker[h] \in {"live", "held"}
               PROVE  /\ \A n \in DOMAIN lane'[h] : lane'[h][n] \in claims'
                      /\ \A n, l \in DOMAIN lane'[h] : lane'[h][n].job = lane'[h][l].job => n = l
    BY <1>1 DEF LaneInv
  <2>1. ASSUME NEW n \in DOMAIN lane'[h]
        PROVE  lane'[h][n] \in claims'
    <3>1. PICK m \in DOMAIN lane[h] : lane'[h][n] = lane[h][m] /\ (h = i => m # 1)
      BY <1>8
    <3>2. lane[h][m] \in claims /\ lane[h][m].by = h
      BY DEF LaneInv, WorkerInv
    <3>3. lane[h][m] # d
      BY <1>3, <1>4, <3>1, <3>2 DEF LaneInv, d
    <3> QED
      BY <1>1, <3>1, <3>2, <3>3
  <2>2. ASSUME NEW n \in DOMAIN lane'[h], NEW l \in DOMAIN lane'[h], lane'[h][n].job = lane'[h][l].job
        PROVE  n = l
    <3>1. PICK m \in DOMAIN lane[h] :
            lane'[h][n] = lane[h][m] /\ (h = i => m = n + 1) /\ (h # i => m = n)
      BY <1>8
    <3>2. PICK o \in DOMAIN lane[h] :
            lane'[h][l] = lane[h][o] /\ (h = i => o = l + 1) /\ (h # i => o = l)
      BY <1>8
    <3>3. m = o
      BY <2>2, <3>1, <3>2 DEF LaneInv
    <3>4. lane'[h] \in Seq(Dispatches)
      BY <1>6
    <3>5. n \in Nat /\ l \in Nat
      BY <3>4
    <3> QED
      BY <3>1, <3>2, <3>3, <3>5
  <2> QED
    BY <2>1, <2>2
<1> QED
  BY <1>9, <1>10, <1>11, <1>12, <1>13, <1>15, <1>16

-------------------------------------------------------------------------------
(* Workers come and go *)

\* What Open and Wake share: nothing serves the session, and no edit is pending.
LEMMA LaunchKeepsInv ==
  ASSUME JobsInv, NEW i \in Workers, Launch(i), wake' \in Times
  PROVE  JobsInv'
<1> USE DEF JobsInv
<1>1. /\ worker[i] = "unborn" /\ (i > 1 => worker[i - 1] \in {"released", "dead"})
      /\ jobs' = Recovered /\ claims' = {}
      /\ worker' = [worker EXCEPT ![i] = "live"]
      /\ timer' = [timer EXCEPT ![i] = now]
      /\ owner' = i /\ parked' = FALSE /\ forgotten' = FALSE /\ recompute' = TRUE
      /\ UNCHANGED <<now, lane, call, updating, edit, used, runs>>
  BY DEF Launch
<1>2. ~Pending /\ ~Pending' /\ \A k \in Workers : k # i => worker[k] \notin Serving
  BY <1>1, LaunchUnedited DEF Pending
<1>3. /\ jobs' \in [Jobs -> JobRecords]
      /\ \A j \in Jobs :
           /\ jobs'[j].next = jobs[j].next
           /\ ~(Claimed(j) /\ jobs[j].status = "active") => jobs'[j] = jobs[j]
           /\ Claimed(j) /\ jobs[j].status = "active" =>
                jobs'[j].status = IF j \in Once THEN "completed" ELSE "active"
  BY <1>1, RecoveredFacts
<1>4. worker'[i] = "live" /\ \A k \in Workers : k # i => worker'[k] = worker[k]
  BY <1>1 DEF Typed
<1>5. lane[i] = <<>> /\ call[i] = "idle"
  BY <1>1 DEF WorkerInv
<1>6. Typed'
  <2>1. worker' \in [Workers -> Lives]
    BY <1>1 DEF Typed, Lives
  <2>2. timer' \in [Workers -> Times]
    BY <1>1 DEF Typed
  <2>3. owner' \in 0..MaxWorkers /\ parked' \in BOOLEAN /\ recompute' \in BOOLEAN /\ forgotten' \in BOOLEAN
    <3>1. owner' = i
      BY DEF Launch
    <3>2. parked' \in BOOLEAN /\ recompute' \in BOOLEAN /\ forgotten' \in BOOLEAN
      BY DEF Launch
    <3> QED
      BY <3>1, <3>2
  <2>4. claims' \subseteq Dispatches
    BY <1>1
  <2> QED
    BY <1>1, <1>3, <2>1, <2>2, <2>3, <2>4 DEF Typed
<1>7. WorkerInv'
  <2>1. ASSUME NEW k \in Workers, NEW h \in Workers, k < h, worker'[h] # "unborn"
        PROVE  worker'[k] \in {"released", "dead"}
    <3>1. k # i
      BY <1>1, <1>4, <2>1 DEF WorkerInv
    <3>2. CASE h # i
      BY <1>4, <2>1, <3>1, <3>2 DEF WorkerInv
    <3>3. CASE h = i
      <4>1. i - 1 \in Workers /\ worker[i - 1] \in {"released", "dead"}
        BY <1>1, <2>1, <3>3
      <4>2. k = i - 1 \/ k < i - 1
        BY <2>1, <3>3
      <4> QED
        BY <1>4, <3>1, <4>1, <4>2 DEF WorkerInv
    <3> QED
      BY <3>2, <3>3
  <2>2. \A h \in Workers : worker'[h] \in Serving => owner' = h
    BY <1>1, <1>2, <1>4
  <2>3. /\ \A h \in Workers : worker'[h] \in {"unborn", "dead"} => lane[h] = <<>> /\ call[h] = "idle"
        /\ \A h \in Workers : call[h] # "idle" => lane[h] # <<>>
        /\ \A h \in Workers : \A k \in DOMAIN lane[h] : lane[h][k].by = h
    BY <1>4 DEF WorkerInv
  <2> QED
    BY <1>1, <2>1, <2>2, <2>3 DEF WorkerInv
<1>8. ClaimInv' /\ EditInv'
  BY <1>1, <1>2 DEF ClaimInv, EditInv
<1>9. LaneInv'
  <2> SUFFICES ASSUME NEW h \in Workers, worker'[h] \in {"live", "held"}
               PROVE  DOMAIN lane'[h] = {}
    BY DEF LaneInv
  <2>1. h = i
    BY <1>2, <1>4 DEF Serving
  <2> QED
    BY <1>1, <1>5, <2>1
<1>10. ActiveWillRun'
  <2> SUFFICES ASSUME NEW j \in Jobs, jobs'[j].status = "active", jobs'[j].next = Never
               PROVE  FALSE
    BY DEF ActiveWillRun
  <2>1. CASE Claimed(j) /\ jobs[j].status = "active"
    BY <1>3, <2>1 DEF ActiveWillRun
  <2>2. CASE ~(Claimed(j) /\ jobs[j].status = "active")
    BY <1>3, <2>2 DEF ActiveWillRun
  <2> QED
    BY <2>1, <2>2
<1>11. KeepsPassed
  BY <1>1, <1>2, <1>3 DEF KeepsPassed, Passed
<1>12. RunInv'
  BY <1>1, <1>11, RunInvKept
<1> QED
  BY <1>6, <1>7, <1>8, <1>9, <1>10, <1>12

LEMMA OpenKeepsInv == ASSUME JobsInv, NEW i \in Workers, Open(i) PROVE JobsInv'
BY LaunchKeepsInv DEF Open, JobsInv, Typed

LEMMA WakeKeepsInv == ASSUME JobsInv, NEW i \in Workers, Wake(i) PROVE JobsInv'
<1>1. Launch(i) /\ wake' \in Times
  BY DEF Wake
<1> QED
  BY <1>1, LaunchKeepsInv

LEMMA WakeInVainKeepsInv == ASSUME JobsInv, WakeInVain PROVE JobsInv'
<1>1. /\ wake' = Never /\ recompute' \in BOOLEAN
      /\ UNCHANGED <<now, jobs, claims, worker, timer, lane, call, owner, parked, updating,
                     forgotten, edit, used, runs>>
  BY DEF WakeInVain, fileVars, workerVars, JobsInv, Typed
<1>2. Typed'
  BY <1>1 DEF JobsInv, Typed
<1> QED
  BY <1>1, <1>2, QuietKeepsInv

LEMMA RecomputeKeepsInv == ASSUME JobsInv, Recompute PROVE JobsInv'
<1>1. /\ recompute' = FALSE
      /\ wake' = IF updating THEN wake ELSE IF owner = 0 THEN Earliest(jobs) ELSE Never
      /\ forgotten' = (forgotten /\ updating)
      /\ UNCHANGED <<now, jobs, claims, worker, timer, lane, call, owner, parked, updating,
                     edit, used, runs>>
  BY DEF Recompute, fileVars, workerVars
<1>2. wake' \in Times /\ forgotten' \in BOOLEAN
  BY <1>1, EarliestTyped DEF JobsInv, Typed
<1>3. Typed'
  BY <1>1, <1>2 DEF JobsInv, Typed
<1> QED
  BY <1>1, <1>3, QuietKeepsInv

LEMMA PassTimeKeepsInv == ASSUME JobsInv, PassTime PROVE JobsInv'
<1> USE DEF JobsInv
<1>1. /\ now < MaxTime /\ now' = now + 1 /\ now \in Nat
      /\ UNCHANGED <<jobs, claims, worker, timer, lane, call, owner, parked, wake, recompute,
                     updating, forgotten, edit, used, runs>>
  BY DEF PassTime, fileVars, workerVars, supervisorVars, Typed
<1>2. Typed'
  BY <1>1 DEF Typed
<1>3. KeepsPassed
  BY <1>1 DEF KeepsPassed, Passed, Pending, Incoming
<1>4. RunInv'
  BY <1>1, <1>3, RunInvKept
<1>5. WorkerInv' /\ LaneInv' /\ ActiveWillRun' /\ EditInv'
  BY <1>1 DEF WorkerInv, LaneInv, ActiveWillRun, Claimed, EditInv, Pending, StillRead
<1>6. ClaimInv'
  <2>1. \A d \in claims : jobs[d.job].stamp \in Nat
    BY DEF Typed, Dispatches, JobRecords
  <2>2. \A d \in claims : jobs[d.job].stamp < now => jobs[d.job].stamp < now'
    BY <1>1, <2>1
  <2> QED
    BY <1>1, <2>2 DEF ClaimInv
<1> QED
  BY <1>2, <1>4, <1>5, <1>6

\* What Stop, Release, Exit, Crash, Hold and Resume share.
LEMMA LifeKeepsInv ==
  ASSUME JobsInv, Typed', NEW i \in Workers, NEW life \in Lives,
         UNCHANGED <<now, jobs, claims, runs>>,
         worker[i] # "unborn", worker' = [worker EXCEPT ![i] = life], life # "unborn",
         worker[i] \in {"released", "dead"} => life \in {"released", "dead"},
         life \in Serving => worker[i] \in Serving,
         life \in {"live", "held"} => worker[i] \in {"live", "held"},
         life = "released" => \A d \in claims : jobs[d.job].stamp < now,
         \/ life # "dead" /\ UNCHANGED <<lane, call>>
         \/ lane' = [lane EXCEPT ![i] = <<>>] /\ call' = [call EXCEPT ![i] = "idle"],
         owner' = owner \/ (owner' = 0 /\ owner = i /\ life \notin Serving),
         \/ edit' = edit /\ (edit.by # i \/ life \in {"live", "held"})
         \/ edit' = NoEdit
  PROVE  JobsInv'
<1> USE DEF JobsInv
<1>1. worker'[i] = life /\ \A k \in Workers : k # i => worker'[k] = worker[k]
  BY DEF Typed
<1>2. \A k \in Workers : \/ lane'[k] = lane[k] /\ call'[k] = call[k] /\ (k = i => life # "dead")
                         \/ lane'[k] = <<>> /\ call'[k] = "idle"
  BY DEF Typed
<1>3. KeepsPassed
  BY DEF KeepsPassed, Passed, Pending, Incoming
<1>4. RunInv'
  BY <1>2, <1>3, RunInvKept
<1>5. WorkerInv'
  <2>1. ASSUME NEW k \in Workers, NEW h \in Workers, k < h, worker'[h] # "unborn"
        PROVE  worker'[k] \in {"released", "dead"}
    <3>1. worker[k] \in {"released", "dead"}
      BY <1>1, <2>1 DEF WorkerInv
    <3> QED
      BY <1>1, <3>1
  <2>2. \A h \in Workers : worker'[h] \in Serving => owner' = h
    BY <1>1 DEF WorkerInv
  <2>3. \A h \in Workers : worker'[h] \in {"unborn", "dead"} => lane'[h] = <<>> /\ call'[h] = "idle"
    BY <1>1, <1>2 DEF WorkerInv
  <2>4. \A h \in Workers : call'[h] # "idle" => lane'[h] # <<>>
    BY <1>2 DEF WorkerInv
  <2>5. \A h \in Workers : \A k \in DOMAIN lane'[h] : lane'[h][k].by = h
    BY <1>2 DEF WorkerInv
  <2> QED
    BY <2>1, <2>2, <2>3, <2>4, <2>5 DEF WorkerInv
<1>6. ClaimInv'
  <2>1. \A h \in Workers : worker'[h] \in Serving => \A d \in claims : d.by = h
    BY <1>1 DEF ClaimInv
  <2>2. ASSUME NEW d \in claims, d.job \in Once, jobs[d.job].status = "active",
               worker'[d.by] = "released"
        PROVE  jobs[d.job].stamp < now
    <3>1. d.by \in Workers
      BY DEF Typed, Dispatches
    <3> QED
      BY <1>1, <2>2, <3>1 DEF ClaimInv
  <2> QED
    BY <2>1, <2>2 DEF ClaimInv
<1>7. LaneInv'
  <2> SUFFICES ASSUME NEW h \in Workers, worker'[h] \in {"live", "held"}
               PROVE  /\ \A k \in DOMAIN lane'[h] : lane'[h][k] \in claims'
                      /\ \A k, l \in DOMAIN lane'[h] : lane'[h][k].job = lane'[h][l].job => k = l
    BY DEF LaneInv
  <2>1. worker[h] \in {"live", "held"}
    BY <1>1
  <2>2. lane'[h] = lane[h] \/ lane'[h] = <<>>
    BY <1>2
  <2> QED
    BY <2>1, <2>2 DEF LaneInv
<1>8. EditInv'
  <2>1. CASE edit' = NoEdit
    BY <2>1 DEF EditInv, Pending
  <2>2. CASE edit' = edit /\ (edit.by # i \/ life \in {"live", "held"})
    <3> SUFFICES ASSUME Pending PROVE EditInv'
      BY <2>2 DEF EditInv, Pending
    <3>1. edit.by \in Workers => worker'[edit.by] \in {"live", "held"}
      BY <1>1, <2>2 DEF EditInv
    <3>2. edit.by = 0 => owner' = 0
      BY <2>2 DEF EditInv
    <3> QED
      BY <2>2, <3>1, <3>2 DEF EditInv, Pending, StillRead
  <2> QED
    BY <2>1, <2>2
<1>9. ActiveWillRun'
  BY DEF ActiveWillRun, Claimed
<1> QED
  BY <1>4, <1>5, <1>6, <1>7, <1>8, <1>9

LEMMA StopKeepsInv == ASSUME JobsInv, NEW i \in Workers, Stop(i) PROVE JobsInv'
<1>1. /\ worker[i] \in {"live", "held"} /\ edit.by # i
      /\ worker' = [worker EXCEPT ![i] = "stopping"]
      /\ timer' = [timer EXCEPT ![i] = Never]
      /\ UNCHANGED <<now, jobs, claims, lane, call, owner, parked, wake, recompute, updating,
                     forgotten, edit, used, runs>>
  BY DEF Stop, Free, fileVars, supervisorVars
<1>2. worker' \in [Workers -> Lives] /\ timer' \in [Workers -> Times]
  BY <1>1 DEF JobsInv, Typed, Lives
<1>3. Typed'
  BY <1>1, <1>2 DEF JobsInv, Typed
<1> QED
  BY <1>1, <1>3, LifeKeepsInv DEF Lives, Serving

LEMMA ReleaseKeepsInv == ASSUME JobsInv, NEW i \in Workers, Release(i) PROVE JobsInv'
<1>1. /\ worker[i] = "stopping" /\ \A d \in claims : jobs[d.job].stamp < now
      /\ worker' = [worker EXCEPT ![i] = "released"]
      /\ UNCHANGED <<now, jobs, claims, timer, lane, call, parked, wake, recompute, updating,
                     edit, used, runs>>
  BY DEF Release, fileVars, supervisorVars
<1>2. (owner' = owner \/ owner' = 0) /\ (forgotten' = forgotten \/ forgotten' = TRUE)
  BY DEF Release, supervisorVars
<1>3. owner = i /\ (edit = NoEdit \/ edit.by # i)
  BY <1>1 DEF JobsInv, WorkerInv, EditInv, Serving, Pending
<1>4. worker' \in [Workers -> Lives] /\ owner' \in 0..MaxWorkers /\ forgotten' \in BOOLEAN
  <2>1. worker' \in [Workers -> Lives]
    BY <1>1 DEF JobsInv, Typed, Lives
  <2>2. owner \in 0..MaxWorkers /\ 0 \in 0..MaxWorkers /\ forgotten \in BOOLEAN
    BY DEF JobsInv, Typed
  <2> QED
    BY <1>2, <2>1, <2>2
<1>5. Typed'
  BY <1>1, <1>4 DEF JobsInv, Typed
<1> QED
  BY <1>1, <1>2, <1>3, <1>5, LifeKeepsInv DEF Lives, Serving

LEMMA ExitKeepsInv == ASSUME JobsInv, NEW i \in Workers, Exit(i) PROVE JobsInv'
<1>1. /\ worker[i] = "released"
      /\ worker' = [worker EXCEPT ![i] = "dead"]
      /\ lane' = [lane EXCEPT ![i] = <<>>] /\ call' = [call EXCEPT ![i] = "idle"]
      /\ UNCHANGED <<now, jobs, claims, timer, parked, wake, forgotten, edit, used, runs>>
  BY DEF Exit, fileVars
<1>2. /\ owner' = owner \/ (owner' = 0 /\ owner = i)
      /\ updating' \in BOOLEAN /\ recompute' \in BOOLEAN
  <2>1. updating \in BOOLEAN /\ recompute \in BOOLEAN
    BY DEF JobsInv, Typed
  <2>2. CASE owner = i
    <3>1. owner' = 0 /\ updating' = FALSE /\ recompute' = TRUE
      BY <2>2 DEF Exit
    <3> QED
      BY <2>2, <3>1
  <2>3. CASE owner # i
    <3>1. owner' = owner /\ updating' = updating /\ recompute' = recompute
      BY <2>3 DEF Exit
    <3> QED
      BY <2>1, <3>1
  <2> QED
    BY <2>2, <2>3
<1>3. edit = NoEdit \/ edit.by # i
  BY <1>1 DEF JobsInv, EditInv, Pending
<1>4. /\ worker' \in [Workers -> Lives] /\ lane' \in [Workers -> Seq(Dispatches)]
      /\ call' \in [Workers -> Calls]
  BY <1>1 DEF JobsInv, Typed, Lives, Calls
<1>5. owner' \in 0..MaxWorkers
  BY <1>2 DEF JobsInv, Typed
<1>6. Typed'
  BY <1>1, <1>2, <1>4, <1>5 DEF JobsInv, Typed
<1> QED
  BY <1>1, <1>2, <1>3, <1>6, LifeKeepsInv DEF Lives, Serving

LEMMA CrashKeepsInv == ASSUME JobsInv, NEW i \in Workers, Crash(i) PROVE JobsInv'
<1>1. /\ worker[i] \in {"live", "held"}
      /\ worker' = [worker EXCEPT ![i] = "dead"]
      /\ timer' = [timer EXCEPT ![i] = Never]
      /\ lane' = [lane EXCEPT ![i] = <<>>] /\ call' = [call EXCEPT ![i] = "idle"]
      /\ edit' = IF edit.by = i THEN NoEdit ELSE edit
      /\ UNCHANGED <<now, jobs, claims, owner, wake, forgotten, used, runs>>
  BY DEF Crash, fileVars
<1>2. parked' \in BOOLEAN /\ updating' \in BOOLEAN /\ recompute' \in BOOLEAN
  BY DEF Crash, JobsInv, Typed
<1>3. edit' = NoEdit \/ (edit' = edit /\ edit.by # i)
  BY DEF Crash
<1>4. /\ worker' \in [Workers -> Lives] /\ lane' \in [Workers -> Seq(Dispatches)]
      /\ call' \in [Workers -> Calls]
  BY <1>1 DEF JobsInv, Typed, Lives, Calls
<1>5. timer' \in [Workers -> Times] /\ (edit' = NoEdit \/ edit' \in Edits)
  BY <1>1, <1>3 DEF JobsInv, Typed
<1>6. Typed'
  BY <1>1, <1>2, <1>4, <1>5 DEF JobsInv, Typed
<1> QED
  BY <1>1, <1>3, <1>6, LifeKeepsInv DEF Lives, Serving

LEMMA HoldKeepsInv == ASSUME JobsInv, NEW i \in Workers, Hold(i) PROVE JobsInv'
<1>1. /\ worker[i] = "live"
      /\ worker' = [worker EXCEPT ![i] = "held"]
      /\ timer' = [timer EXCEPT ![i] = Never]
      /\ UNCHANGED <<now, jobs, claims, lane, call, owner, parked, wake, recompute, forgotten,
                     edit, runs>>
  BY DEF Hold, fileVars
<1>2. used' \in Budgets /\ updating' \in BOOLEAN
  <2>1. used.updates < MaxUpdates /\ used' = [used EXCEPT !.updates = @ + 1]
    BY DEF Hold
  <2>2. used \in Budgets
    BY DEF JobsInv, Typed
  <2>3. used' \in Budgets
    BY <2>1, <2>2 DEF Budgets
  <2>4. updating' = TRUE
    BY DEF Hold
  <2> QED
    BY <2>3, <2>4
<1>3. worker' \in [Workers -> Lives] /\ timer' \in [Workers -> Times]
  BY <1>1 DEF JobsInv, Typed, Lives
<1>4. Typed'
  BY <1>1, <1>2, <1>3 DEF JobsInv, Typed
<1> QED
  BY <1>1, <1>4, LifeKeepsInv DEF Lives, Serving

LEMMA ResumeKeepsInv == ASSUME JobsInv, NEW i \in Workers, Resume(i) PROVE JobsInv'
<1>1. /\ worker[i] = "held"
      /\ worker' = [worker EXCEPT ![i] = "live"]
      /\ timer' = [timer EXCEPT ![i] = Earliest(jobs)]
      /\ UNCHANGED <<now, jobs, claims, lane, call, owner, parked, wake, forgotten, edit, used, runs>>
  BY DEF Resume, fileVars
<1>2. updating' \in BOOLEAN /\ recompute' \in BOOLEAN
  BY DEF Resume
<1>3. worker' \in [Workers -> Lives] /\ timer' \in [Workers -> Times]
  <2>1. Earliest(jobs) \in Times
    BY EarliestTyped DEF JobsInv, Typed
  <2> QED
    BY <1>1, <2>1 DEF JobsInv, Typed, Lives
<1>4. Typed'
  BY <1>1, <1>2, <1>3 DEF JobsInv, Typed
<1> QED
  BY <1>1, <1>4, LifeKeepsInv DEF Lives, Serving

-------------------------------------------------------------------------------
(* Induction *)

LEMMA InitJobsInv == Init => JobsInv
<1> SUFFICES ASSUME Init PROVE JobsInv
  OBVIOUS
<1>1. /\ now = 0 /\ claims = {} /\ owner = 1 /\ edit = NoEdit /\ ~Pending
      /\ jobs = [j \in Jobs |-> Absent]
      /\ worker = [i \in Workers |-> IF i = 1 THEN "live" ELSE "unborn"]
      /\ lane = [i \in Workers |-> <<>>] /\ call = [i \in Workers |-> "idle"]
      /\ runs = [j \in Jobs |-> [t \in Times |-> 0]]
  BY DEF Init, Pending
<1>2. Absent \in JobRecords /\ Absent.status = "absent"
  BY DEF Absent, JobRecords
<1>3. Typed
  <2>1. used \in Budgets /\ timer \in [Workers -> Times] /\ wake \in Times
    BY DEF Init, Budgets
  <2>2. parked \in BOOLEAN /\ recompute \in BOOLEAN /\ updating \in BOOLEAN /\ forgotten \in BOOLEAN
    BY DEF Init
  <2>3. worker \in [Workers -> Lives] /\ call \in [Workers -> Calls]
    BY <1>1 DEF Lives, Calls
  <2>4. lane \in [Workers -> Seq(Dispatches)]
    BY <1>1
  <2>5. now \in 0..MaxTime /\ owner \in 0..MaxWorkers /\ runs \in [Jobs -> [Times -> 0..2]]
    BY <1>1
  <2> QED
    BY <1>1, <1>2, <2>1, <2>2, <2>3, <2>4, <2>5 DEF Typed
<1>4. WorkerInv /\ LaneInv
  <2>1. \A i \in Workers : lane[i] = <<>> /\ call[i] = "idle" /\ DOMAIN lane[i] = {}
    BY <1>1
  <2>2. /\ \A i, k \in Workers : k < i => worker[i] = "unborn"
        /\ \A i \in Workers : worker[i] \in Serving => owner = i
    BY <1>1 DEF Serving
  <2> QED
    BY <2>1, <2>2 DEF WorkerInv, LaneInv
<1>5. ClaimInv /\ EditInv /\ ActiveWillRun
  BY <1>1, <1>2 DEF ClaimInv, EditInv, ActiveWillRun
<1>6. RunInv
  <2>1. \A i \in Workers : DOMAIN lane[i] = {}
    BY <1>1
  <2> QED
    BY <1>1, <2>1 DEF RunInv
<1> QED
  BY <1>3, <1>4, <1>5, <1>6 DEF JobsInv

LEMMA NextKeepsJobsInv == JobsInv /\ [Next]_vars => JobsInv'
<1> SUFFICES ASSUME JobsInv, [Next]_vars PROVE JobsInv'
  OBVIOUS
<1>1. CASE \E j \in Jobs : \E new \in Changes(j) :
             PassiveEdit(j, new) \/ \E i \in Workers : WorkerEdit(i, j, new)
  BY <1>1, PassiveEditKeepsInv, WorkerEditKeepsInv
<1>2. CASE WriteEdit
  BY <1>2, WriteEditKeepsInv
<1>3. CASE \E i \in Workers : Scheduler(i)
  BY <1>3, RunDueKeepsInv, BeginKeepsInv, DeliverKeepsInv, DeclineKeepsInv, RecordKeepsInv DEF Scheduler
<1>4. CASE \E i \in Workers : Open(i) \/ Wake(i)
  BY <1>4, OpenKeepsInv, WakeKeepsInv
<1>5. CASE WakeInVain \/ Recompute \/ PassTime
  BY <1>5, WakeInVainKeepsInv, RecomputeKeepsInv, PassTimeKeepsInv
<1>6. CASE \E i \in Workers : Stop(i) \/ Release(i) \/ Exit(i) \/ Crash(i) \/ Hold(i) \/ Resume(i)
  BY <1>6, StopKeepsInv, ReleaseKeepsInv, ExitKeepsInv, CrashKeepsInv, HoldKeepsInv, ResumeKeepsInv
<1>7. CASE UNCHANGED vars
  <2>1. UNCHANGED <<now, jobs, claims, worker, timer, lane, call, owner, parked, wake, recompute,
                    updating, forgotten, edit, used, runs>>
    BY <1>7 DEF vars, fileVars, workerVars, supervisorVars
  <2>2. Typed'
    BY <2>1 DEF JobsInv, Typed
  <2> QED
    BY <2>1, <2>2, QuietKeepsInv
<1> QED
  BY <1>1, <1>2, <1>3, <1>4, <1>5, <1>6, <1>7 DEF Next

\* The inductive invariant of the job file, its workers and its supervisor.
THEOREM JobsInvariant == Spec => []JobsInv
<1>1. Init => JobsInv
  BY InitJobsInv
<1>2. JobsInv /\ [Next]_vars => JobsInv'
  BY NextKeepsJobsInv
<1> QED
  BY <1>1, <1>2, PTL DEF Spec

\* Every variable keeps its type.
THEOREM TypeCorrect == Spec => []TypeOK
<1>1. JobsInv => TypeOK
  BY TypedIsTypeOK DEF JobsInv
<1> QED
  BY <1>1, JobsInvariant, PTL

\* docs/daemon.md:72: no tick of a job is handed to the session twice, whatever
\* crashes, restarts, recoveries and merged edits happen around it.
THEOREM NoTickIsReplayed == Spec => []NoReplay
<1>1. JobsInv => NoReplay
  <2> SUFFICES ASSUME JobsInv, NEW j \in Jobs, NEW t \in Times PROVE runs[j][t] <= 1
    BY DEF NoReplay
  <2>1. runs[j][t] = 0 \/ runs[j][t] = 1
    BY DEF JobsInv, RunInv
  <2> QED
    BY <2>1
<1> QED
  BY <1>1, JobsInvariant, PTL

\* docs/daemon.md:72: a worker that schedules holds one dispatch of a job at most, and
\* the file knows each of them.
THEOREM ClaimsCoalesce == Spec => []Coalesced
<1>1. JobsInv => Coalesced
  <2> SUFFICES ASSUME JobsInv PROVE Coalesced
    OBVIOUS
  <2>1. ASSUME NEW i \in Workers, worker[i] \in {"live", "held"}
        PROVE  ToSet(lane[i]) \subseteq claims
    BY <2>1 DEF JobsInv, LaneInv, ToSet
  <2> QED
    BY <2>1 DEF JobsInv, ClaimInv, LaneInv, Coalesced
<1> QED
  BY <1>1, JobsInvariant, PTL

\* A job that is listed as active has a next tick, or is a one-shot job that is claimed.
THEOREM ActiveJobsWillRun == Spec => []ActiveWillRun
<1>1. JobsInv => ActiveWillRun
  BY DEF JobsInv
<1> QED
  BY <1>1, JobsInvariant, PTL

LEMMA NextKeepsEnded ==
  ASSUME JobsInv, [Next]_vars, NEW j \in Jobs, jobs[j].status \in {"cancelled", "completed"}
  PROVE  jobs'[j].status \in {"cancelled", jobs[j].status} /\ runs'[j] = runs[j]
<1> USE DEF JobsInv
<1>1. CASE WriteEdit
  <2>1. runs' = runs /\ Pending
    BY <1>1 DEF WriteEdit, Pending
  <2>2. \/ jobs'[j] = jobs[j]
        \/ j = edit.job /\ jobs'[j] = edit.new
    BY <1>1, WriteEditFacts
  <2>3. j = edit.job => edit.new.status = "cancelled"
    <3>1. StillRead(j)
      BY <2>1 DEF EditInv
    <3> QED
      BY <2>1, <3>1 DEF EditInv, StillRead
  <2> QED
    BY <2>1, <2>2, <2>3
<1>2. ASSUME NEW i \in Workers, RunDue(i)
      PROVE  jobs'[j] = jobs[j] /\ runs' = runs
  BY <1>2, AdvancedFacts DEF RunDue
<1>3. ASSUME NEW i \in Workers, Record(i)
      PROVE  jobs'[j] = jobs[j] /\ runs' = runs
  <2>1. Head(lane[i]) \in Dispatches
    BY <1>3, TailEntries DEF Record, WorkerInv, Typed
  <2>2. jobs' = Recorded(Head(lane[i]), call[i]) /\ runs' = runs
    BY <1>3 DEF Record
  <2> QED
    BY <2>1, <2>2, RecordedFacts
<1>4. ASSUME NEW i \in Workers, Launch(i)
      PROVE  jobs'[j] = jobs[j] /\ runs' = runs
  BY <1>4, RecoveredFacts DEF Launch
<1>5. ASSUME NEW i \in Workers, Deliver(i)
      PROVE  jobs'[j] = jobs[j] /\ runs'[j] = runs[j]
  <2>1. Head(lane[i]).job # j
    BY <1>5 DEF Deliver, Runnable
  <2>2. jobs' = jobs
    BY <1>5 DEF Deliver, fileVars
  <2> QED
    BY <1>5, <2>1, <2>2 DEF Deliver, Typed
<1>6. ASSUME NEW i \in Workers, Open(i) \/ Wake(i)
      PROVE  jobs'[j] = jobs[j] /\ runs' = runs
  BY <1>4, <1>6 DEF Open, Wake
<1>7. ASSUME NEW i \in Workers,
             \/ Begin(i) \/ Decline(i)
             \/ Stop(i) \/ Release(i) \/ Exit(i) \/ Crash(i) \/ Hold(i) \/ Resume(i)
      PROVE  jobs' = jobs /\ runs' = runs
  BY <1>7 DEF Begin, Decline, Stop, Release, Exit, Crash, Hold, Resume, fileVars
<1>8. ASSUME NEW k \in Jobs, NEW new \in Changes(k),
             PassiveEdit(k, new) \/ \E i \in Workers : WorkerEdit(i, k, new)
      PROVE  jobs' = jobs /\ runs' = runs
  BY <1>8 DEF PassiveEdit, WorkerEdit, ReadForEdit, fileVars
<1>9. CASE WakeInVain \/ Recompute \/ PassTime \/ UNCHANGED vars
  BY <1>9 DEF WakeInVain, Recompute, PassTime, vars, fileVars
<1> QED
  BY <1>1, <1>2, <1>3, <1>5, <1>6, <1>7, <1>8, <1>9 DEF Next, Scheduler

\* A cancelled or completed job stays that way and delivers nothing more, even when a
\* dispatch of it is under way and a stale copy of the file is merged.
THEOREM EndedJobsAreQuiet == Spec => EndedIsQuiet
<1>1. JobsInv /\ [Next]_vars =>
        [\A j \in Jobs : jobs[j].status \in {"cancelled", "completed"} =>
            /\ jobs'[j].status \in {"cancelled", jobs[j].status}
            /\ runs'[j] = runs[j]]_vars
  BY NextKeepsEnded
<1> QED
  BY <1>1, JobsInvariant, PTL DEF Spec, EndedIsQuiet
==============================================================================
