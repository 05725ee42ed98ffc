-------------------------- MODULE EventCatchupProofs --------------------------
(***************************************************************************)
(* Proofs about EventCatchup for any set of clients, any number of events  *)
(* and disconnects and every size of the sockets.  The argument: what the  *)
(* supervisor knows of, by an event it heard or the snapshot it caches,    *)
(* only grows; each event that it does not know is on its way or owed by   *)
(* a catch-up of the worker; and when that catch-up ends, the snapshot it  *)
(* brings is the one that is cached, or a later catch-up is owed.          *)
(***************************************************************************)
EXTENDS EventCatchup, FiniteSetTheorems, TLAPS

USE CatchupAssumption DEF None, Snapshots, RecordTypes

-------------------------------------------------------------------------------
(* Sequences, and how many records of a type they hold *)

Count(s, t) == Cardinality({i \in DOMAIN s : s[i].t = t})

LEMMA AppendEntries ==
  ASSUME NEW S, NEW s \in Seq(S), NEW e \in S
  PROVE  /\ Append(s, e) \in Seq(S)
         /\ Len(s) \in Nat /\ Len(Append(s, e)) = Len(s) + 1
         /\ DOMAIN s = 1..Len(s) /\ DOMAIN Append(s, e) = DOMAIN s \cup {Len(s) + 1}
         /\ \A i \in DOMAIN s : i < Len(s) + 1 /\ Append(s, e)[i] = s[i]
         /\ Append(s, e)[Len(s) + 1] = e
OBVIOUS

LEMMA TailEntries ==
  ASSUME NEW S, NEW s \in Seq(S), s # <<>>
  PROVE  /\ Tail(s) \in Seq(S) /\ Head(s) \in S /\ 1 \in DOMAIN s /\ Head(s) = s[1]
         /\ Len(s) \in Nat \ {0} /\ Len(Tail(s)) = Len(s) - 1
         /\ DOMAIN s = 1..Len(s) /\ DOMAIN Tail(s) = 1..Len(s) - 1
         /\ \A i \in DOMAIN Tail(s) : i + 1 \in DOMAIN s /\ i + 1 > 1 /\ Tail(s)[i] = s[i + 1]
         /\ \A i \in DOMAIN s : i # 1 => i - 1 \in DOMAIN Tail(s) /\ Tail(s)[i - 1] = s[i]
OBVIOUS

\* A sequence with its entries replaced, one by one.
LEMMA MapEntries ==
  ASSUME NEW S, NEW T, NEW s \in Seq(S), NEW f, f = [i \in DOMAIN s |-> f[i]],
         \A i \in DOMAIN s : f[i] \in T
  PROVE  f \in Seq(T) /\ Len(f) = Len(s) /\ DOMAIN f = DOMAIN s
OBVIOUS

LEMMA CountBound ==
  ASSUME NEW S, NEW s \in Seq(S), NEW t
  PROVE  Count(s, t) \in Nat /\ Count(s, t) <= Len(s) /\ IsFiniteSet({i \in DOMAIN s : s[i].t = t})
<1>1. DOMAIN s = 1..Len(s) /\ Len(s) \in Nat
  BY SMTT(30)
<1>2. IsFiniteSet(1..Len(s)) /\ Cardinality(1..Len(s)) = Len(s)
  BY <1>1, FS_Interval
<1>3. {i \in DOMAIN s : s[i].t = t} \in SUBSET (1..Len(s))
  BY <1>1
<1>4. /\ IsFiniteSet({i \in DOMAIN s : s[i].t = t})
      /\ Cardinality({i \in DOMAIN s : s[i].t = t}) <= Len(s)
  BY <1>2, <1>3, FS_Subset
<1> QED
  BY <1>4, FS_CardinalityType DEF Count

LEMMA CountAppend ==
  ASSUME NEW S, NEW s \in Seq(S), NEW e \in S, NEW t
  PROVE  Count(Append(s, e), t) = Count(s, t) + (IF e.t = t THEN 1 ELSE 0)
<1> DEFINE q == Append(s, e)
           n == Len(s) + 1
           A == {i \in DOMAIN s : s[i].t = t}
           B == {i \in DOMAIN q : q[i].t = t}
<1>1. /\ n \notin DOMAIN s /\ DOMAIN q = DOMAIN s \cup {n} /\ q[n] = e
      /\ \A i \in DOMAIN s : q[i] = s[i]
  BY AppendEntries
<1> HIDE DEF q, n
<1>2. B = IF e.t = t THEN A \cup {n} ELSE A
  <2>1. \A i : i \in B <=> i \in A \/ (i = n /\ e.t = t)
    BY <1>1
  <2>2. CASE e.t = t
    <3>1. B = A \cup {n}
      BY <2>1, <2>2
    <3> QED
      BY <2>2, <3>1
  <2>3. CASE e.t # t
    <3>1. B = A
      BY <2>1, <2>3
    <3> QED
      BY <2>3, <3>1
  <2> HIDE DEF A, B
  <2> QED
    BY <2>2, <2>3
<1>3. n \notin A
  BY <1>1
<1>4. IsFiniteSet(A) /\ Cardinality(A) \in Nat
  BY CountBound DEF Count
<1> HIDE DEF A, B
<1>5. Cardinality(B) = Cardinality(A) + (IF e.t = t THEN 1 ELSE 0)
  <2>1. Cardinality(A \cup {n}) = Cardinality(A) + 1
    BY <1>3, <1>4, FS_AddElement
  <2>2. CASE e.t = t
    BY <1>2, <2>1, <2>2
  <2>3. CASE e.t # t
    BY <1>2, <1>4, <2>3
  <2> QED
    BY <2>2, <2>3
<1> QED
  BY <1>5 DEF A, B, Count, q

LEMMA CountTail ==
  ASSUME NEW S, NEW s \in Seq(S), s # <<>>, NEW t
  PROVE  Count(Tail(s), t) = Count(s, t) - (IF Head(s).t = t THEN 1 ELSE 0)
<1> DEFINE A == {i \in DOMAIN s : s[i].t = t}
           B == {i \in DOMAIN Tail(s) : Tail(s)[i].t = t}
           f == [i \in B |-> i + 1]
<1>1. /\ 1 \in DOMAIN s /\ Head(s) = s[1] /\ Len(s) \in Nat
      /\ DOMAIN s = 1..Len(s) /\ DOMAIN Tail(s) = 1..Len(s) - 1
      /\ \A i \in DOMAIN Tail(s) : i + 1 \in DOMAIN s /\ i + 1 > 1 /\ Tail(s)[i] = s[i + 1]
      /\ \A i \in DOMAIN s : i # 1 => i - 1 \in DOMAIN Tail(s) /\ Tail(s)[i - 1] = s[i]
  BY TailEntries
<1>2. f \in [B -> A \ {1}]
  BY <1>1
<1>3. \A i, j \in B : f[i] = f[j] => i = j
  BY <1>1
<1>4. \A i \in A \ {1} : i - 1 \in B /\ f[i - 1] = i
  BY <1>1
<1>5. f \in Bijection(B, A \ {1})
  BY <1>2, <1>3, <1>4 DEF Bijection, Injection, Surjection, IsInjective
<1>6. IsFiniteSet(A) /\ IsFiniteSet(B) /\ Cardinality(A) \in Nat /\ Cardinality(B) \in Nat
  <2>1. Tail(s) \in Seq(S)
    BY TailEntries
  <2> QED
    BY <2>1, CountBound DEF Count
<1>7. Cardinality(A \ {1}) = Cardinality(B)
  <2> HIDE DEF A, B, f
  <2>1. ExistsBijection(B, A \ {1})
    BY <1>5 DEF ExistsBijection
  <2> QED
    BY <1>6, <2>1, FS_Bijection
<1>8. Cardinality(A \ {1}) = IF 1 \in A THEN Cardinality(A) - 1 ELSE Cardinality(A)
  BY <1>6, FS_RemoveElement
<1>9. 1 \in A <=> Head(s).t = t
  BY <1>1
<1> HIDE DEF A, B, f
<1>10. Cardinality(B) = Cardinality(A) - (IF Head(s).t = t THEN 1 ELSE 0)
  BY <1>6, <1>7, <1>8, <1>9
<1> QED
  BY <1>10 DEF A, B, Count

-------------------------------------------------------------------------------
(* Types *)

Transfers == [id : Snapshots, purpose : {"attach", "catchup"}]
Workers   == [seq : Snapshots, asked : Nat, marking : Nat, transfers : Seq(Transfers),
              begun : BOOLEAN, catching : BOOLEAN, catchup : BOOLEAN]
Caches    == [current : Snapshots \cup {None}, cache : Snapshots \cup {None},
              heard : Snapshots, retired : SUBSET Snapshots,
              gen : [Snapshots -> {"none", "open", "incoming", "complete", "checking"}]]
Loads     == [valid : BOOLEAN, observed : Snapshots \cup {None}, waiters : SUBSET Clients]
Records   == [t : RecordTypes, n : Snapshots]
Conns     == [stage : Stages, purpose : Purposes, snap : Snapshots \cup {None}, retried : BOOLEAN,
              pending : BOOLEAN, blocked : BOOLEAN, needDrain : BOOLEAN, out : Seq(Records)]
Views     == [view : SUBSET (1..MaxEvents), cursor : Snapshots \cup {None}, following : BOOLEAN]
Frames    == [t : {"event"}, n : 1..MaxEvents, final : BOOLEAN]
             \cup [t : {"response", "begin"}, n : Snapshots]
             \cup [t : {"end"}, n : Snapshots, purpose : {"attach", "catchup"}]

Typed ==
  /\ worker \in Workers
  /\ pipe \in Seq(Frames)
  /\ cached \in Caches
  /\ loads \in Seq(Loads)
  /\ resolved \in Seq(Snapshots)
  /\ conn \in [Clients -> Conns]
  /\ ui \in [Clients -> Views]
  /\ late \subseteq Snapshots
  /\ missed \subseteq Clients
  /\ disconnects \in 0..MaxDisconnects

-------------------------------------------------------------------------------
(* What the operators on a connection do *)

LEMMA WriteFacts ==
  ASSUME NEW k \in Conns, NEW type \in {"response", "begin", "end", "event"}, NEW n \in Snapshots
  PROVE  /\ Write(k, type, n) \in Conns
         /\ Write(k, type, n).out = Append(k.out, [t |-> type, n |-> n])
         /\ Write(k, type, n).blocked = (k.blocked \/ ~Accepts(k))
         /\ Write(k, type, n).stage = k.stage /\ Write(k, type, n).purpose = k.purpose
         /\ Write(k, type, n).snap = k.snap /\ Write(k, type, n).pending = k.pending
<1>1. [t |-> type, n |-> n] \in Records /\ k.out \in Seq(Records)
  BY DEF Records, Conns
<1>2. Append(k.out, [t |-> type, n |-> n]) \in Seq(Records)
  BY <1>1, AppendEntries
<1>3. Accepts(k) \in BOOLEAN
  BY DEF Accepts
<1> HIDE DEF Accepts
<1> QED
  BY <1>2, <1>3 DEF Write, Conns

LEMMA RestFacts ==
  ASSUME NEW k \in Conns
  PROVE  /\ Rest(k) \in Conns
         /\ Rest(k).out = k.out /\ Rest(k).blocked = k.blocked /\ Rest(k).snap = k.snap
         /\ \/ Rest(k).stage = "idle" /\ Rest(k).pending = k.pending /\ Rest(k).purpose = k.purpose
            \/ Rest(k).stage = "seeking" /\ Rest(k).pending = FALSE /\ Rest(k).purpose = "resync"
BY DEF Rest, Conns, Stages, Purposes

LEMMA QueueFacts ==
  ASSUME NEW k \in Conns, NEW start \in BOOLEAN
  PROVE  /\ Queue(k, start) \in Conns
         /\ Queue(k, start).out = k.out /\ Queue(k, start).blocked = k.blocked
         /\ Queue(k, start).snap = k.snap
         /\ \/ Queue(k, start).stage = k.stage /\ Queue(k, start).pending
            \/ start /\ k.stage = "idle" /\ Queue(k, start).stage = "seeking"
<1> DEFINE queued == [k EXCEPT !.pending = TRUE]
<1>1. /\ queued \in Conns /\ queued.out = k.out /\ queued.blocked = k.blocked
      /\ queued.snap = k.snap /\ queued.stage = k.stage /\ queued.pending = TRUE
  BY DEF Conns
<1>2. Queue(k, start) = IF start /\ k.stage = "idle" THEN Rest(queued) ELSE queued
  BY DEF Queue
<1> DEFINE after == Rest(queued)
<1>3. /\ after \in Conns /\ after.out = queued.out /\ after.blocked = queued.blocked
      /\ after.snap = queued.snap
      /\ \/ after.stage = "idle" /\ after.pending = queued.pending
         \/ after.stage = "seeking"
  <2> HIDE DEF queued
  <2> QED
    BY <1>1, RestFacts
<1> HIDE DEF queued, after
<1>4. CASE start /\ k.stage = "idle"
  <2>1. Queue(k, start) = after
    BY <1>2, <1>4 DEF after
  <2> QED
    BY <1>1, <1>3, <1>4, <2>1
<1>5. CASE ~(start /\ k.stage = "idle")
  <2>1. Queue(k, start) = queued
    BY <1>2, <1>5
  <2> QED
    BY <1>1, <2>1
<1> QED
  BY <1>4, <1>5

\* An event is written, or it is queued or not for the client.
LEMMA ForwardFacts ==
  ASSUME NEW k \in Conns, NEW n \in Snapshots
  PROVE  /\ Forward(k, n) \in Conns
         /\ Forward(k, n).stage = k.stage /\ Forward(k, n).snap = k.snap
         /\ \/ ~Attached(k) /\ Forward(k, n) = k
            \/ Forward(k, n).out = k.out /\ Forward(k, n).blocked = k.blocked /\ Forward(k, n).pending
            \/ /\ ~Streaming(k) /\ ~k.blocked /\ Forward(k, n).pending = k.pending
               /\ Forward(k, n).out = Append(k.out, [t |-> "event", n |-> n])
               /\ Forward(k, n).blocked = ~Accepts(k)
<1>1. CASE ~Attached(k)
  BY <1>1 DEF Forward
<1>2. CASE Attached(k) /\ (Streaming(k) \/ k.blocked)
  BY <1>2, QueueFacts DEF Forward
<1>3. CASE Attached(k) /\ ~(Streaming(k) \/ k.blocked)
  BY <1>3, WriteFacts DEF Forward
<1> QED
  BY <1>1, <1>2, <1>3

\* out is s followed by the response and the begin of a snapshot n.
Grown(out, s, n) ==
  /\ Len(s) <= Len(out)
  /\ \A i \in DOMAIN s : i \in DOMAIN out /\ out[i] = s[i]
  /\ \A i \in DOMAIN out : i \notin DOMAIN s => out[i].n = n /\ out[i].t \in {"response", "begin"}
  /\ Count(out, "event") = Count(s, "event")

LEMMA GrownOnce ==
  ASSUME NEW s \in Seq(Records), NEW n \in Snapshots, NEW type \in {"response", "begin"}
  PROVE  Grown(Append(s, [t |-> type, n |-> n]), s, n)
<1> DEFINE e == [t |-> type, n |-> n]
<1>1. e \in Records /\ e.t = type /\ e.n = n /\ e.t # "event"
  BY DEF Records
<1> HIDE DEF e
<1>2. /\ Len(s) \in Nat /\ Len(Append(s, e)) = Len(s) + 1
      /\ DOMAIN Append(s, e) = DOMAIN s \cup {Len(s) + 1}
      /\ \A i \in DOMAIN s : Append(s, e)[i] = s[i]
      /\ Append(s, e)[Len(s) + 1] = e
  BY <1>1, AppendEntries
<1>3. Count(Append(s, e), "event") = Count(s, "event")
  <2>1. Count(Append(s, e), "event") = Count(s, "event") + 0 /\ Count(s, "event") \in Nat
    BY <1>1, CountAppend, CountBound
  <2> QED
    BY <2>1
<1>4. Grown(Append(s, e), s, n)
  BY <1>1, <1>2, <1>3 DEF Grown
<1> QED
  BY <1>4 DEF e

LEMMA StreamFacts ==
  ASSUME NEW k \in Conns, NEW s \in Snapshots
  PROVE  /\ Stream(k, s) \in Conns
         /\ Stream(k, s).snap = s /\ Stream(k, s).stage \in {"beginWait", "body"}
         /\ Stream(k, s).pending = k.pending
         /\ Grown(Stream(k, s).out, k.out, s)
         /\ ~Stream(k, s).blocked => Len(Stream(k, s).out) < HighWater
<1> DEFINE answered == IF k.purpose = "attach" THEN Write(k, "response", s) ELSE k
           stage    == IF Accepts(answered) THEN "body" ELSE "beginWait"
<1>1. answered \in Conns /\ answered.pending = k.pending
  BY WriteFacts
<1>2. /\ Write(answered, "begin", s) \in Conns
      /\ Write(answered, "begin", s).out = Append(answered.out, [t |-> "begin", n |-> s])
      /\ Write(answered, "begin", s).blocked = (answered.blocked \/ ~Accepts(answered))
      /\ Write(answered, "begin", s).pending = k.pending
  BY <1>1, WriteFacts
<1>3. Stream(k, s) = [Write(answered, "begin", s) EXCEPT !.snap = s, !.stage = stage]
  BY DEF Stream
<1>4. stage \in {"beginWait", "body"}
  OBVIOUS
<1>5. k.out \in Seq(Records) /\ answered.out \in Seq(Records)
  BY <1>1 DEF Conns
<1>6. answered.out = k.out \/ Grown(answered.out, k.out, s)
  <2>1. CASE k.purpose = "attach"
    <3>1. answered.out = Append(k.out, [t |-> "response", n |-> s])
      BY <2>1, WriteFacts
    <3> QED
      BY <1>5, <3>1, GrownOnce
  <2>2. CASE k.purpose # "attach"
    BY <2>2
  <2> QED
    BY <2>1, <2>2
<1>7. /\ Grown(Append(answered.out, [t |-> "begin", n |-> s]), answered.out, s)
      /\ Len(Append(answered.out, [t |-> "begin", n |-> s])) = Len(answered.out) + 1
  <2> DEFINE e == [t |-> "begin", n |-> s]
  <2>1. e \in Records
    BY DEF Records
  <2>2. Grown(Append(answered.out, e), answered.out, s)
    BY <1>5, GrownOnce
  <2> HIDE DEF e, answered
  <2>3. Len(Append(answered.out, e)) = Len(answered.out) + 1
    BY <1>5, <2>1, AppendEntries
  <2> QED
    BY <2>2, <2>3 DEF e
<1> HIDE DEF answered, stage
<1> DEFINE w == Write(answered, "begin", s)
<1>8. Grown(w.out, k.out, s)
  <2>1. CASE answered.out = k.out
    BY <1>2, <1>7, <2>1
  <2>2. CASE Grown(answered.out, k.out, s)
    <3>1. Grown(w.out, answered.out, s)
      BY <1>2, <1>7
    <3>2. Len(k.out) \in Nat /\ Len(answered.out) \in Nat /\ Len(w.out) \in Nat
      BY <1>2, <1>5 DEF Conns
    <3> HIDE DEF w
    <3> QED
      BY <2>2, <3>1, <3>2 DEF Grown
  <2> QED
    BY <1>6, <2>1, <2>2
<1>9. ~w.blocked => Len(w.out) < HighWater
  <2>1. Len(w.out) = Len(answered.out) + 1
    BY <1>2, <1>7
  <2> QED
    BY <1>2, <2>1 DEF Accepts
<1>10. w \in Conns /\ w.pending = k.pending
  BY <1>2
<1>11. Stream(k, s) = [w EXCEPT !.snap = s, !.stage = stage]
  BY <1>3
<1> HIDE DEF w
<1>12. /\ Stream(k, s) \in Conns /\ Stream(k, s).snap = s /\ Stream(k, s).stage = stage
       /\ Stream(k, s).pending = w.pending /\ Stream(k, s).out = w.out
       /\ Stream(k, s).blocked = w.blocked
  <2>1. stage \in Stages
    BY <1>4 DEF Stages
  <2> DEFINE v == [w EXCEPT !.snap = s]
  <2>2. v \in Conns /\ v.snap = s /\ v.pending = w.pending /\ v.out = w.out /\ v.blocked = w.blocked
    BY <1>10 DEF Conns
  <2>3. Stream(k, s) = [v EXCEPT !.stage = stage]
    BY <1>11
  <2> HIDE DEF v
  <2> QED
    BY <2>1, <2>2, <2>3 DEF Conns
<1> QED
  BY <1>4, <1>8, <1>9, <1>10, <1>12

LEMMA ReleaseFacts ==
  ASSUME NEW k \in Conns
  PROVE  /\ Release(k) \in Conns /\ Release(k).out = k.out /\ Release(k).blocked = FALSE
         /\ \/ Release(k).stage = "idle" /\ Release(k).pending = k.pending
            \/ Release(k).stage = "seeking"
<1> DEFINE open == [k EXCEPT !.blocked = FALSE]
           free == [open EXCEPT !.snap = None]
<1>1. open \in Conns /\ open.out = k.out /\ open.blocked = FALSE /\ open.pending = k.pending
  BY DEF Conns
<1>2. Release(k) = Rest(free)
  BY DEF Release
<1> HIDE DEF open
<1>3. free \in Conns /\ free.out = k.out /\ free.blocked = FALSE /\ free.pending = k.pending
  BY <1>1 DEF Conns
<1> DEFINE after == Rest(free)
<1>4. /\ after \in Conns /\ after.out = free.out /\ after.blocked = free.blocked
      /\ \/ after.stage = "idle" /\ after.pending = free.pending
         \/ after.stage = "seeking"
  <2> HIDE DEF free
  <2> QED
    BY <1>3, RestFacts
<1> HIDE DEF free
<1>5. Release(k) = after
  BY <1>2
<1> HIDE DEF after
<1> QED
  BY <1>3, <1>4, <1>5

LEMMA ClosedFacts ==
  /\ Closed \in Conns /\ Closed.out = <<>> /\ Closed.stage = "none" /\ Closed.blocked = FALSE
  /\ Closed.pending = FALSE
<1>1. <<>> \in Seq(Records)
  OBVIOUS
<1> QED
  BY <1>1 DEF Closed, Conns, Stages, Purposes

LEMMA FailFacts ==
  ASSUME NEW k \in Conns
  PROVE  /\ Fail(k) \in Conns
         /\ \/ Fail(k) = Closed /\ k.purpose = "attach"
            \/ /\ Fail(k).out = k.out /\ Fail(k).blocked = k.blocked /\ k.purpose = "resync"
               /\ Fail(k).stage \in {"idle", "seeking"}
<1> DEFINE idle == [k EXCEPT !.stage = "idle"]
<1>1. idle \in Conns /\ idle.out = k.out /\ idle.blocked = k.blocked
  BY DEF Conns, Stages
<1>2. Fail(k) = IF k.purpose = "attach" THEN Closed ELSE Rest(idle)
  BY DEF Fail
<1> DEFINE after == Rest(idle)
<1>3. /\ after \in Conns /\ after.out = idle.out /\ after.blocked = idle.blocked
      /\ after.stage \in {"idle", "seeking"}
  <2> HIDE DEF idle
  <2> QED
    BY <1>1, RestFacts
<1> HIDE DEF idle
<1>4. k.purpose \in {"attach", "resync"}
  BY DEF Conns, Purposes
<1>5. CASE k.purpose = "attach"
  <2>1. Fail(k) = Closed
    BY <1>2, <1>5
  <2> QED
    BY <1>5, <2>1, ClosedFacts
<1>6. CASE k.purpose = "resync"
  <2>1. Fail(k) = after
    BY <1>2, <1>6
  <2> HIDE DEF after
  <2> QED
    BY <1>1, <1>3, <1>6, <2>1
<1> QED
  BY <1>4, <1>5, <1>6

-------------------------------------------------------------------------------
(* What the operators on the snapshot caches do *)

Transferring == {"incoming", "checking"}

\* A snapshot has a generation afterwards only if it had one before, or is s.
GenWithin(new, old, s) == \A r \in Snapshots : new.gen[r] # "none" => r = s \/ old.gen[r] # "none"

\* A generation whose transfer is under way keeps its status.
GenKept(new, old) == \A r \in Snapshots : old.gen[r] \in Transferring => new.gen[r] = old.gen[r]

LEMMA RetireFacts ==
  ASSUME NEW k \in Caches
  PROVE  /\ Retire(k) \in Caches
         /\ Retire(k).current = None /\ Retire(k).heard = k.heard
         /\ Retire(k).cache \in {k.cache, None}
         /\ \A r \in Snapshots : Retire(k).gen[r] # "none" => k.gen[r] # "none"
         /\ GenKept(Retire(k), k)
<1>1. CASE k.current = None
  BY <1>1 DEF Retire, GenKept
<1>2. CASE k.current # None
  <2> DEFINE cache   == IF k.cache = k.current THEN None ELSE k.cache
             gen     == [k.gen EXCEPT ![k.current] =
                           IF k.gen[k.current] \in Transferring THEN k.gen[k.current] ELSE "none"]
             retired == IF k.gen[k.current] \in Transferring THEN k.retired \cup {k.current}
                        ELSE k.retired
  <2>1. k.current \in Snapshots /\ k.gen \in [Snapshots -> {"none", "open", "incoming", "complete", "checking"}]
    BY <1>2 DEF Caches
  <2>2. cache \in Snapshots \cup {None} /\ retired \subseteq Snapshots
    BY <2>1 DEF Caches
  <2>3. /\ gen \in [Snapshots -> {"none", "open", "incoming", "complete", "checking"}]
        /\ \A r \in Snapshots : /\ gen[r] # "none" => k.gen[r] # "none"
                                /\ k.gen[r] \in Transferring => gen[r] = k.gen[r]
    BY <2>1 DEF Transferring
  <2>4. Retire(k) = [k EXCEPT !.current = None, !.cache = cache, !.gen = gen, !.retired = retired]
    BY <1>2 DEF Retire, Transferring
  <2>5. cache \in {k.cache, None}
    OBVIOUS
  <2> HIDE DEF cache, gen, retired
  <2>6. Retire(k) = [current |-> None, cache |-> cache, heard |-> k.heard, retired |-> retired, gen |-> gen]
    BY <2>4 DEF Caches
  <2> QED
    BY <2>2, <2>3, <2>5, <2>6 DEF Caches, GenKept
<1> QED
  BY <1>1, <1>2

LEMMA InvalidatedFacts ==
  ASSUME NEW k \in Caches, NEW final \in BOOLEAN, NEW n \in Snapshots
  PROVE  LET j == [Invalidated(k, final) EXCEPT !.heard = n] IN
         /\ j \in Caches /\ j.heard = n /\ j.cache = None
         /\ j.current \in {k.current, None}
         /\ \A r \in Snapshots : j.gen[r] # "none" => k.gen[r] # "none"
<1> DEFINE dropped == [k EXCEPT !.cache = None]
<1>1. /\ dropped \in Caches /\ dropped.current = k.current /\ dropped.cache = None
      /\ dropped.gen = k.gen
  BY DEF Caches
<1>2. Invalidated(k, final) = IF final THEN Retire(dropped) ELSE dropped
  BY DEF Invalidated
<1> HIDE DEF dropped
<1> DEFINE i == Invalidated(k, final)
<1>3. /\ i \in Caches /\ i.cache = None /\ i.current \in {k.current, None}
      /\ \A r \in Snapshots : i.gen[r] # "none" => k.gen[r] # "none"
  <2>1. CASE final
    BY <1>1, <1>2, <2>1, RetireFacts
  <2>2. CASE ~final
    BY <1>1, <1>2, <2>2
  <2> QED
    BY <2>1, <2>2
<1> HIDE DEF i
<1> DEFINE j == [i EXCEPT !.heard = n]
<1>4. j \in Caches /\ j.heard = n /\ j.cache = i.cache /\ j.current = i.current /\ j.gen = i.gen
  BY <1>3 DEF Caches
<1> QED
  BY <1>3, <1>4 DEF i

\* What the supervisor knows of: it has heard an event this late, or caches such a snapshot.
Knows(k, s) == s <= k.current \/ s <= k.heard

\* The transfer of s is the current one, or a later snapshot has taken its place.
Opened(k, s) == s <= k.current /\ (k.current = s => k.gen[s] \in Transferring)

LEMMA BegunFacts ==
  ASSUME NEW k \in Caches, NEW s \in Snapshots, k.gen[s] # "none" => s <= k.current
  PROVE  /\ Begun(k, s) \in Caches /\ Begun(k, s).heard = k.heard
         /\ k.current <= Begun(k, s).current /\ Begun(k, s).current \in {k.current, s}
         /\ Begun(k, s).cache \in {k.cache, None, s}
         /\ GenWithin(Begun(k, s), k, s)
         /\ Opened(Begun(k, s), s)
<1> DEFINE older == k.current # None /\ s < k.current
           superseded == IF k.current \notin {None, s} THEN Retire(k) ELSE k
           Statuses == {"none", "open", "incoming", "complete", "checking"}
<1>0. /\ k.current \in Snapshots \cup {None} /\ k.gen \in [Snapshots -> Statuses]
      /\ k.cache \in Snapshots \cup {None} /\ k.retired \subseteq Snapshots /\ k.heard \in Snapshots
  BY DEF Caches
<1>1. CASE older /\ k.gen[s] = "none"
  <2>1. Begun(k, s) = k
    BY <1>1 DEF Begun
  <2> QED
    BY <1>0, <1>1, <2>1 DEF GenWithin, Opened
<1>2. CASE k.gen[s] = "complete"
  <2> DEFINE gen == [k.gen EXCEPT ![s] = "checking"]
             cache == IF k.current = s THEN None ELSE k.cache
  <2>1. Begun(k, s) = [k EXCEPT !.gen[s] = "checking", !.cache = cache]
    BY <1>2 DEF Begun
  <2>2. Begun(k, s) = [current |-> k.current, cache |-> cache, heard |-> k.heard,
                       retired |-> k.retired, gen |-> gen]
    BY <2>1 DEF Caches
  <2>3. /\ gen \in [Snapshots -> Statuses] /\ gen[s] = "checking"
        /\ \A r \in Snapshots : r # s => gen[r] = k.gen[r]
    BY <1>0
  <2>4. cache \in {k.cache, None}
    OBVIOUS
  <2>5. s <= k.current
    BY <1>2
  <2> HIDE DEF gen, cache
  <2> DEFINE j == Begun(k, s)
  <2>6. j.current = k.current /\ j.cache = cache /\ j.heard = k.heard /\ j.gen = gen
    BY <2>2
  <2>7. j \in Caches
    BY <1>0, <2>2, <2>3, <2>4 DEF Caches
  <2>8. GenWithin(j, k, s)
    BY <2>3, <2>6 DEF GenWithin
  <2>9. Opened(j, s)
    BY <2>3, <2>5, <2>6 DEF Opened, Transferring
  <2> HIDE DEF j
  <2>10. k.current <= j.current
    BY <1>0, <2>6
  <2> QED
    BY <2>4, <2>6, <2>7, <2>8, <2>9, <2>10 DEF j
<1>3. CASE older /\ k.gen[s] # "none" /\ k.gen[s] # "complete"
  <2> DEFINE gen == [k.gen EXCEPT ![s] = "incoming"]
  <2>1. Begun(k, s) = [k EXCEPT !.gen[s] = "incoming"]
    BY <1>3 DEF Begun
  <2>2. Begun(k, s) = [current |-> k.current, cache |-> k.cache, heard |-> k.heard,
                       retired |-> k.retired, gen |-> gen]
    BY <2>1 DEF Caches
  <2>3. /\ gen \in [Snapshots -> Statuses] /\ gen[s] = "incoming"
        /\ \A r \in Snapshots : r # s => gen[r] = k.gen[r]
    BY <1>0
  <2> HIDE DEF gen
  <2> DEFINE j == Begun(k, s)
  <2>6. j.current = k.current /\ j.cache = k.cache /\ j.heard = k.heard /\ j.gen = gen
    BY <2>2
  <2>7. j \in Caches
    BY <1>0, <2>2, <2>3 DEF Caches
  <2>8. GenWithin(j, k, s)
    BY <2>3, <2>6 DEF GenWithin
  <2>9. Opened(j, s)
    BY <2>3, <2>6, <1>3 DEF Opened, Transferring
  <2> HIDE DEF j
  <2>10. k.current <= j.current
    BY <1>0, <2>6
  <2> QED
    BY <2>6, <2>7, <2>8, <2>9, <2>10 DEF j
<1>4. CASE ~older /\ k.gen[s] # "complete"
  <2>1. Begun(k, s) = [superseded EXCEPT !.gen[s] = "incoming", !.retired = @ \ {s},
                                         !.current = s, !.cache = s]
    BY <1>4 DEF Begun
  <2>2. /\ superseded \in Caches /\ superseded.heard = k.heard
        /\ \A r \in Snapshots : superseded.gen[r] # "none" => k.gen[r] # "none"
    <3>1. CASE k.current \notin {None, s}
      BY <3>1, RetireFacts
    <3>2. CASE k.current \in {None, s}
      BY <3>2
    <3> QED
      BY <3>1, <3>2
  <2> HIDE DEF superseded
  <2> DEFINE gen == [superseded.gen EXCEPT ![s] = "incoming"]
             retired == superseded.retired \ {s}
  <2>3. Begun(k, s) = [current |-> s, cache |-> s, heard |-> k.heard,
                       retired |-> retired, gen |-> gen]
    BY <2>1, <2>2 DEF Caches
  <2>4. superseded.gen \in [Snapshots -> Statuses] /\ superseded.retired \subseteq Snapshots
    BY <2>2 DEF Caches
  <2>5. /\ gen \in [Snapshots -> Statuses] /\ gen[s] = "incoming"
        /\ \A r \in Snapshots : r # s => gen[r] = superseded.gen[r]
    BY <2>4
  <2>10. retired \subseteq Snapshots
    BY <2>4
  <2> HIDE DEF gen, retired
  <2> DEFINE j == Begun(k, s)
  <2>6. j.current = s /\ j.cache = s /\ j.heard = k.heard /\ j.gen = gen
    BY <2>3
  <2>7. j \in Caches
    BY <1>0, <2>3, <2>5, <2>10 DEF Caches
  <2>8. GenWithin(j, k, s)
    BY <2>2, <2>5, <2>6 DEF GenWithin
  <2>9. Opened(j, s)
    BY <2>5, <2>6 DEF Opened, Transferring
  <2> HIDE DEF j
  <2>11. k.current <= s
    BY <1>0, <1>4
  <2> QED
    BY <2>6, <2>7, <2>8, <2>9, <2>11 DEF j
<1> QED
  BY <1>1, <1>2, <1>3, <1>4

LEMMA EndedFacts ==
  ASSUME NEW k \in Caches, NEW s \in Snapshots
  PROVE  /\ Ended(k, s) \in Caches /\ Ended(k, s).heard = k.heard
         /\ Ended(k, s).current = k.current
         /\ Ended(k, s).cache = k.cache \/ (Ended(k, s).cache = s /\ k.current = s)
         /\ \A r \in Snapshots : Ended(k, s).gen[r] # "none" => k.gen[r] # "none"
<1> DEFINE Statuses == {"none", "open", "incoming", "complete", "checking"}
           status == IF s \in k.retired THEN "none" ELSE "complete"
           gen == [k.gen EXCEPT ![s] = status]
           cache == IF k.gen[s] = "checking" /\ k.current = s THEN s ELSE k.cache
           retired == k.retired \ {s}
<1>0. /\ k.current \in Snapshots \cup {None} /\ k.gen \in [Snapshots -> Statuses]
      /\ k.cache \in Snapshots \cup {None} /\ k.retired \subseteq Snapshots /\ k.heard \in Snapshots
  BY DEF Caches
<1>1. CASE k.gen[s] \notin {"incoming", "checking"}
  BY <1>1 DEF Ended
<1>2. CASE k.gen[s] \in {"incoming", "checking"}
  <2>1. Ended(k, s) = [k EXCEPT !.gen[s] = status, !.retired = @ \ {s}, !.cache = cache]
    BY <1>2 DEF Ended
  <2>2. Ended(k, s) = [current |-> k.current, cache |-> cache, heard |-> k.heard,
                       retired |-> retired, gen |-> gen]
    BY <2>1 DEF Caches
  <2>3. status \in Statuses
    OBVIOUS
  <2>4. cache = k.cache \/ (cache = s /\ k.current = s)
    OBVIOUS
  <2>5. retired \subseteq Snapshots
    BY <1>0
  <2> HIDE DEF status
  <2>6. /\ gen \in [Snapshots -> Statuses]
        /\ \A r \in Snapshots : r # s => gen[r] = k.gen[r]
    BY <1>0, <2>3
  <2> HIDE DEF gen, cache, retired
  <2> DEFINE j == Ended(k, s)
  <2>7. j.current = k.current /\ j.cache = cache /\ j.heard = k.heard /\ j.gen = gen
    BY <2>2
  <2>8. j \in Caches
    BY <1>0, <2>2, <2>4, <2>5, <2>6 DEF Caches
  <2>9. \A r \in Snapshots : gen[r] # "none" => k.gen[r] # "none"
    BY <1>2, <2>6
  <2> HIDE DEF j
  <2> QED
    BY <2>4, <2>7, <2>8, <2>9 DEF j
<1> QED
  BY <1>1, <1>2

LEMMA CacheLoadedFacts ==
  ASSUME NEW k \in Caches, NEW s \in Snapshots, NEW observed \in Snapshots \cup {None}
  PROVE  /\ CacheLoaded(k, s, observed) \in Caches
         /\ CacheLoaded(k, s, observed).heard = k.heard
         /\ k.current <= CacheLoaded(k, s, observed).current
         /\ IF Outrun(k, s, observed)
            THEN CacheLoaded(k, s, observed) = k /\ k.current # None
            ELSE /\ CacheLoaded(k, s, observed).current = s
                 /\ CacheLoaded(k, s, observed).cache = s
         /\ GenWithin(CacheLoaded(k, s, observed), k, s)
         /\ GenKept(CacheLoaded(k, s, observed), k)
<1> DEFINE Statuses == {"none", "open", "incoming", "complete", "checking"}
           base == IF k.current # s THEN Retire(k) ELSE k
           status == IF base.gen[s] = "none" THEN "open" ELSE base.gen[s]
           gen == [base.gen EXCEPT ![s] = status]
           retired == base.retired \ {s}
<1>0. /\ k.current \in Snapshots \cup {None} /\ k.gen \in [Snapshots -> Statuses]
      /\ k.cache \in Snapshots \cup {None} /\ k.retired \subseteq Snapshots /\ k.heard \in Snapshots
  BY DEF Caches
<1>1. CASE Outrun(k, s, observed)
  <2>1. CacheLoaded(k, s, observed) = k
    BY <1>1 DEF CacheLoaded
  <2>2. k.current # None
    BY <1>1 DEF Outrun
  <2> QED
    BY <1>0, <1>1, <2>1, <2>2 DEF GenWithin, GenKept
<1>2. CASE ~Outrun(k, s, observed)
  <2>1. CacheLoaded(k, s, observed)
          = [base EXCEPT !.gen[s] = status, !.retired = @ \ {s}, !.current = s, !.cache = s]
    BY <1>2 DEF CacheLoaded
  <2>2. /\ base \in Caches /\ base.heard = k.heard
        /\ \A r \in Snapshots : base.gen[r] # "none" => k.gen[r] # "none"
        /\ GenKept(base, k)
    <3>1. CASE k.current # s
      BY <3>1, RetireFacts
    <3>2. CASE k.current = s
      BY <3>2 DEF GenKept
    <3> QED
      BY <3>1, <3>2
  <2> HIDE DEF base
  <2>3. CacheLoaded(k, s, observed)
          = [current |-> s, cache |-> s, heard |-> k.heard, retired |-> retired, gen |-> gen]
    BY <2>1, <2>2 DEF Caches
  <2>4. base.gen \in [Snapshots -> Statuses] /\ base.retired \subseteq Snapshots
    BY <2>2 DEF Caches
  <2>5. status \in Statuses /\ (base.gen[s] \in Transferring => status = base.gen[s])
    BY <2>4 DEF Transferring
  <2>6. retired \subseteq Snapshots
    BY <2>4
  <2> HIDE DEF status, retired
  <2>7. /\ gen \in [Snapshots -> Statuses] /\ gen[s] = status
        /\ \A r \in Snapshots : r # s => gen[r] = base.gen[r]
    BY <2>4, <2>5
  <2> HIDE DEF gen
  <2> DEFINE j == CacheLoaded(k, s, observed)
  <2>8. j.current = s /\ j.cache = s /\ j.heard = k.heard /\ j.gen = gen
    BY <2>3
  <2>9. j \in Caches
    BY <1>0, <2>3, <2>6, <2>7 DEF Caches
  <2>10. GenWithin(j, k, s)
    BY <2>2, <2>7, <2>8 DEF GenWithin
  <2>11. GenKept(j, k)
    BY <2>2, <2>5, <2>7, <2>8 DEF GenKept
  <2>12. k.current <= s
    BY <1>0, <1>2 DEF Outrun
  <2> HIDE DEF j
  <2> QED
    BY <1>2, <2>8, <2>9, <2>10, <2>11, <2>12 DEF j
<1> QED
  BY <1>1, <1>2

-------------------------------------------------------------------------------
(* The flow of events and snapshots from the worker w, over the pipe p and *)
(* the queued responses r, to the supervisor's caches k                    *)

Event(f)    == f.t = "event"
Response(f) == f.t = "response"
Opening(f)  == f.t = "begin"
Closing(f)  == f.t = "end"
Catchup(f)  == Closing(f) /\ f.purpose = "catchup"

OwnCatchup(transfer) == transfer.purpose = "catchup"

Stored(k, s) == k.gen[s] # "none"

LEMMA FrameFacts ==
  /\ \A f \in Frames : /\ f.n \in Snapshots /\ (Event(f) => f.n \in 1..MaxEvents)
                       /\ Event(f) \/ Response(f) \/ Opening(f) \/ Closing(f)
                       /\ Event(f) => ~Response(f) /\ ~Opening(f) /\ ~Closing(f)
                       /\ Response(f) => ~Opening(f) /\ ~Closing(f)
                       /\ Opening(f) => ~Closing(f)
                       /\ Catchup(f) => Closing(f)
  /\ \A n \in 1..MaxEvents, final \in BOOLEAN :
       LET f == [t |-> "event", n |-> n, final |-> final] IN f \in Frames /\ Event(f) /\ f.n = n
  /\ \A n \in Snapshots :
       LET f == [t |-> "response", n |-> n] IN f \in Frames /\ Response(f) /\ f.n = n
  /\ \A n \in Snapshots :
       LET f == [t |-> "begin", n |-> n] IN f \in Frames /\ Opening(f) /\ f.n = n
  /\ \A n \in Snapshots, purpose \in {"attach", "catchup"} :
       LET f == [t |-> "end", n |-> n, purpose |-> purpose] IN
       f \in Frames /\ Closing(f) /\ f.n = n /\ (Catchup(f) <=> purpose = "catchup")
BY DEF Frames, Event, Response, Opening, Closing, Catchup

Bounded(w, p, k, r) ==
  /\ k.current <= w.seq /\ k.heard <= w.seq
  /\ \A s \in Snapshots : Stored(k, s) => s <= w.seq
  /\ \A i \in DOMAIN p : k.heard <= p[i].n /\ p[i].n <= w.seq
  /\ \A i \in DOMAIN r : r[i] <= w.seq
  /\ \A i \in DOMAIN w.transfers : k.heard <= w.transfers[i].id /\ w.transfers[i].id <= w.seq

\* Nothing the supervisor has, or has queued, is as new as n.
Unseen(k, r, n) ==
  /\ k.heard < n /\ k.current < n
  /\ \A s \in Snapshots : Stored(k, s) => s < n
  /\ \A j \in DOMAIN r : r[j] < n

\* An event is newer than what was sent before it, and nothing behind it is older.
Ordered(p) ==
  \A i, j \in DOMAIN p : i < j =>
    /\ Event(p[j]) => p[i].n < p[j].n
    /\ Event(p[i]) => p[i].n <= p[j].n

Ahead(w, p, k, r) ==
  \A i \in DOMAIN p : Event(p[i]) =>
    Unseen(k, r, p[i].n) /\ \A j \in DOMAIN w.transfers : p[i].n <= w.transfers[j].id

\* A snapshot's begin is followed by its end, or by none but responses.
Matched(w, p) ==
  /\ w.begun => w.transfers # <<>>
  /\ \A i \in DOMAIN p : Opening(p[i]) =>
       \/ \E e \in DOMAIN p : /\ i < e /\ Closing(p[e]) /\ p[e].n = p[i].n
                              /\ \A j \in DOMAIN p : i < j /\ j < e => Response(p[j])
       \/ /\ w.begun /\ w.transfers[1].id = p[i].n
          /\ \A j \in DOMAIN p : i < j => Response(p[j])

\* Between an event or a snapshot's end and the next end is a begin.
Alternating(w, p) ==
  \A i \in DOMAIN p : Event(p[i]) \/ Closing(p[i]) =>
    /\ \A e \in DOMAIN p : i < e /\ Closing(p[e]) => \E j \in DOMAIN p : i < j /\ j < e /\ Opening(p[j])
    /\ w.begun => \E j \in DOMAIN p : i < j /\ Opening(p[j])

\* A transfer whose begin has arrived, and whose end is next, is open.
Open(w, p, k) ==
  /\ \A i \in DOMAIN p : Closing(p[i]) /\ (\A j \in DOMAIN p : j < i => Response(p[j]))
                         => Opened(k, p[i].n)
  /\ w.begun /\ (\A j \in DOMAIN p : Response(p[j])) => Opened(k, w.transfers[1].id)

\* l: the snapshots known to have been late.
Current(k, l) ==
  /\ \A s \in Snapshots : Stored(k, s) => s <= k.current \/ s < k.heard
  /\ k.cache # None => k.cache \in l \/ k.heard <= k.cache

\* The worker owes a catch-up that holds event n, and whose end is not among the
\* frames up to m.
Owed(w, p, m, n) ==
  \/ w.catchup \/ w.catching
  \/ \E i \in DOMAIN w.transfers : OwnCatchup(w.transfers[i]) /\ n <= w.transfers[i].id
  \/ \E i \in DOMAIN p : m < i /\ Catchup(p[i]) /\ n <= p[i].n

Sent(p) == {p[i].n : i \in {j \in DOMAIN p : Event(p[j])}}

\* The events that are neither on their way nor owed.
Due(w, p) == {n \in 1..w.seq : n \notin Sent(p) /\ ~Owed(w, p, 0, n)}

\* What the supervisor does not know of is on its way or owed.  A catch-up that the
\* supervisor may find outdated when it ends is not the last.
Covered(w, p, k, r) ==
  /\ \A n \in Due(w, p) : Knows(k, n)
  /\ \A i \in DOMAIN w.transfers :
       OwnCatchup(w.transfers[i]) => w.transfers[i].id = w.seq \/ w.catchup
  /\ \A i \in DOMAIN p : Catchup(p[i]) =>
       /\ k.current <= p[i].n \/ Owed(w, p, i, k.current)
       /\ \A j \in DOMAIN r : r[j] <= p[i].n \/ Owed(w, p, i, r[j])
       /\ \A j \in DOMAIN p : j < i => p[j].n <= p[i].n \/ Owed(w, p, i, p[j].n)

Flow(w, p, k, r, l) ==
  /\ Bounded(w, p, k, r)
  /\ Ordered(p)
  /\ Ahead(w, p, k, r)
  /\ Matched(w, p)
  /\ Alternating(w, p)
  /\ Open(w, p, k)
  /\ Current(k, l)
  /\ Covered(w, p, k, r)

LEMMA WorkerFacts ==
  ASSUME NEW w \in Workers
  PROVE  /\ w.seq \in Snapshots /\ w.transfers \in Seq(Transfers)
         /\ \A i \in DOMAIN w.transfers : w.transfers[i].id \in Snapshots
<1>1. w.seq \in Snapshots /\ w.transfers \in Seq(Transfers)
  BY DEF Workers
<1>2. \A t \in Transfers : t.id \in Snapshots
  BY DEF Transfers
<1>3. \A i \in DOMAIN w.transfers : w.transfers[i] \in Transfers
  BY <1>1
<1> QED
  BY <1>1, <1>2, <1>3

LEMMA OwedDown ==
  ASSUME NEW w \in Workers, NEW p \in Seq(Frames), NEW m \in Nat, NEW n \in Int, NEW o \in Int,
         o <= n, Owed(w, p, m, n)
  PROVE  Owed(w, p, m, o)
<1>1. \A i \in DOMAIN w.transfers : w.transfers[i].id \in Int
  BY WorkerFacts
<1>2. \A i \in DOMAIN p : p[i].n \in Int
  BY FrameFacts
<1>3. CASE w.catchup \/ w.catching
  BY <1>3 DEF Owed
<1>4. CASE \E i \in DOMAIN w.transfers : OwnCatchup(w.transfers[i]) /\ n <= w.transfers[i].id
  BY <1>1, <1>4 DEF Owed
<1>5. CASE \E i \in DOMAIN p : m < i /\ Catchup(p[i]) /\ n <= p[i].n
  <2>1. PICK i \in DOMAIN p : m < i /\ Catchup(p[i]) /\ n <= p[i].n
    BY <1>5
  <2>2. o <= p[i].n
    BY <1>2, <2>1
  <2> QED
    BY <2>1, <2>2 DEF Owed
<1> QED
  BY <1>3, <1>4, <1>5 DEF Owed

LEMMA Numbers ==
  ASSUME NEW w \in Workers, NEW p \in Seq(Frames), NEW k \in Caches, NEW r \in Seq(Snapshots)
  PROVE  /\ w.seq \in Int /\ k.current \in Int /\ k.heard \in Int
         /\ \A i \in DOMAIN p : p[i].n \in Int
         /\ \A i \in DOMAIN r : r[i] \in Int
         /\ \A i \in DOMAIN w.transfers : w.transfers[i].id \in Int
<1>1. \A i \in DOMAIN p : p[i] \in Frames
  OBVIOUS
<1>2. \A i \in DOMAIN p : p[i].n \in Int
  BY <1>1, FrameFacts
<1> QED
  BY <1>2, WorkerFacts DEF Caches

LEMMA BoundedUnseen ==
  ASSUME NEW w \in Workers, NEW p \in Seq(Frames), NEW k \in Caches, NEW r \in Seq(Snapshots),
         Bounded(w, p, k, r)
  PROVE  Unseen(k, r, w.seq + 1)
<1>1. /\ k.current <= w.seq /\ k.heard <= w.seq
      /\ \A s \in Snapshots : s \in Int /\ (Stored(k, s) => s <= w.seq)
      /\ \A i \in DOMAIN r : r[i] <= w.seq
  BY DEF Bounded
<1>2. w.seq \in Int /\ k.current \in Int /\ k.heard \in Int /\ \A i \in DOMAIN r : r[i] \in Int
  BY Numbers
<1> DEFINE n == w.seq
<1>3. /\ k.heard < n + 1 /\ k.current < n + 1
      /\ \A s \in Snapshots : Stored(k, s) => s < n + 1
      /\ \A j \in DOMAIN r : r[j] < n + 1
  BY <1>1, <1>2
<1> QED
  BY <1>3 DEF Unseen

\* An event that is held back.
LEMMA HeldFlow ==
  ASSUME NEW w \in Workers, NEW p \in Seq(Frames), NEW k \in Caches, NEW r \in Seq(Snapshots), NEW l,
         Flow(w, p, k, r, l), w.seq < MaxEvents
  PROVE  LET v == [w EXCEPT !.seq = w.seq + 1, !.catchup = TRUE] IN
         v \in Workers /\ Flow(v, p, k, r, l) /\ Due(v, p) = {}
<1> DEFINE v == [w EXCEPT !.seq = w.seq + 1, !.catchup = TRUE]
<1>1. w.seq + 1 \in Snapshots
  BY WorkerFacts
<1>2. /\ v.seq = w.seq + 1 /\ v.catchup = TRUE
      /\ v.transfers = w.transfers /\ v.begun = w.begun
  BY DEF Workers
<1>3. v \in Workers
  <2> DEFINE u == [w EXCEPT !.seq = w.seq + 1]
  <2>1. u \in Workers
    BY <1>1 DEF Workers
  <2>2. v = [u EXCEPT !.catchup = TRUE]
    BY DEF Workers
  <2> HIDE DEF u, v
  <2> QED
    BY <2>1, <2>2 DEF Workers
<1> HIDE DEF v
<1>4. \A m, n : Owed(v, p, m, n)
  BY <1>2 DEF Owed
<1>5. Due(v, p) = {}
  BY <1>4 DEF Due
<1>6. Bounded(v, p, k, r)
  BY <1>2, Numbers DEF Flow, Bounded
<1>7. Covered(v, p, k, r)
  BY <1>2, <1>4, <1>5 DEF Covered
<1> QED
  BY <1>2, <1>3, <1>5, <1>6, <1>7 DEF Flow, Ahead, Matched, Alternating, Open, v

\* An event that is sent.
LEMMA SentFlow ==
  ASSUME NEW w \in Workers, NEW p \in Seq(Frames), NEW k \in Caches, NEW r \in Seq(Snapshots), NEW l,
         Flow(w, p, k, r, l), w.seq < MaxEvents, w.transfers = <<>>,
         NEW f \in Frames, Event(f), f.n = w.seq + 1
  PROVE  LET v == [w EXCEPT !.seq = w.seq + 1]
             q == Append(p, f)
         IN v \in Workers /\ Flow(v, q, k, r, l) /\ Due(v, q) \subseteq Due(w, p)
<1> DEFINE v == [w EXCEPT !.seq = w.seq + 1]
           q == Append(p, f)
           last == Len(p) + 1
<1>1. w.seq + 1 \in Snapshots
  BY WorkerFacts
<1>2. /\ v.seq = w.seq + 1 /\ v.catchup = w.catchup /\ v.catching = w.catching
      /\ v.transfers = w.transfers /\ v.begun = w.begun
  BY DEF Workers
<1>3. v \in Workers
  BY <1>1 DEF Workers
<1>4. /\ last \in Int /\ last \in DOMAIN q /\ q[last] = f
      /\ \A i \in DOMAIN p : i \in Int /\ i < last /\ i \in DOMAIN q /\ q[i] = p[i]
      /\ \A i \in DOMAIN q : i = last \/ i \in DOMAIN p
  BY AppendEntries
<1>v. /\ q[last].n = w.seq + 1
      /\ \A i \in DOMAIN p : q[i].n = p[i].n
  BY <1>4
<1>5. ~Response(f) /\ ~Opening(f) /\ ~Closing(f) /\ ~Catchup(f)
  BY FrameFacts
<1>6. ~w.begun /\ DOMAIN w.transfers = {}
  BY DEF Flow, Matched
<1>n. /\ w.seq \in Int /\ k.current \in Int /\ k.heard \in Int
      /\ \A i \in DOMAIN p : p[i].n \in Int
      /\ \A i \in DOMAIN r : r[i] \in Int
  BY Numbers
<1> HIDE DEF v, q, last
<1>7. \A m, n : Owed(w, p, m, n) => Owed(v, q, m, n)
  BY <1>2, <1>4, <1>5 DEF Owed
<1>8. Sent(q) = Sent(p) \cup {w.seq + 1}
  BY <1>4 DEF Sent
<1>9. Due(v, q) \subseteq Due(w, p)
  BY <1>2, <1>7, <1>8, <1>n DEF Due
<1>f. /\ Bounded(w, p, k, r) /\ Ordered(p) /\ Ahead(w, p, k, r) /\ Matched(w, p) /\ Alternating(w, p)
      /\ Open(w, p, k) /\ Current(k, l) /\ Covered(w, p, k, r)
  BY DEF Flow
<1>10. Bounded(v, q, k, r)
  <2>1. /\ k.current <= w.seq /\ k.heard <= w.seq
        /\ \A s \in Snapshots : s \in Int /\ (Stored(k, s) => s <= w.seq)
        /\ \A i \in DOMAIN p : k.heard <= p[i].n /\ p[i].n <= w.seq
        /\ \A i \in DOMAIN r : r[i] <= w.seq
    BY <1>f DEF Bounded
  <2>2. \A i \in DOMAIN q : k.heard <= q[i].n /\ q[i].n <= w.seq + 1
    BY <1>4, <1>n, <1>v, <2>1
  <2>3. \A s \in Snapshots : Stored(k, s) => s <= w.seq + 1
    BY <1>n, <2>1
  <2>4. k.current <= w.seq + 1 /\ k.heard <= w.seq + 1 /\ \A i \in DOMAIN r : r[i] <= w.seq + 1
    BY <1>n, <2>1
  <2> QED
    BY <1>2, <1>6, <2>2, <2>3, <2>4 DEF Bounded
<1>11. Ordered(q) /\ Ahead(v, q, k, r)
  <2>1. Ordered(q)
    <3> SUFFICES ASSUME NEW i \in DOMAIN q, NEW j \in DOMAIN q, i < j
                 PROVE  /\ Event(q[j]) => q[i].n < q[j].n
                        /\ Event(q[i]) => q[i].n <= q[j].n
      BY DEF Ordered
    <3>1. i \in DOMAIN p /\ q[i] = p[i]
      BY <1>4
    <3>2. CASE j = last
      <4>1. p[i].n <= w.seq
        BY <1>f, <3>1 DEF Bounded
      <4>2. q[i].n = p[i].n /\ q[j].n = w.seq + 1 /\ p[i].n \in Int /\ w.seq \in Int
        BY <1>n, <1>v, <3>1, <3>2
      <4>3. q[i].n < q[j].n
        BY <4>1, <4>2
      <4>4. q[i].n <= q[j].n
        BY <4>1, <4>2
      <4> QED
        BY <4>3, <4>4
    <3>3. CASE j \in DOMAIN p
      BY <1>f, <1>4, <3>1, <3>3 DEF Ordered
    <3> QED
      BY <1>4, <3>2, <3>3
  <2>2. Unseen(k, r, w.seq + 1)
    BY <1>f, BoundedUnseen
  <2>3. ASSUME NEW i \in DOMAIN q, Event(q[i]) PROVE Unseen(k, r, q[i].n)
    BY <1>f, <1>4, <1>v, <2>2, <2>3 DEF Ahead
  <2> QED
    BY <1>2, <1>6, <2>1, <2>3 DEF Ahead
<1>12. Matched(v, q)
  <2> SUFFICES ASSUME NEW i \in DOMAIN p, Opening(p[i])
               PROVE  \E e \in DOMAIN q : /\ i < e /\ Closing(q[e]) /\ q[e].n = p[i].n
                                         /\ \A j \in DOMAIN q : i < j /\ j < e => Response(q[j])
    BY <1>2, <1>4, <1>5, <1>6 DEF Matched
  <2>1. PICK e \in DOMAIN p : /\ i < e /\ Closing(p[e]) /\ p[e].n = p[i].n
                              /\ \A j \in DOMAIN p : i < j /\ j < e => Response(p[j])
    BY <1>f, <1>6 DEF Matched
  <2> QED
    BY <1>4, <2>1
<1>13. Alternating(v, q)
  BY <1>f, <1>2, <1>4, <1>5, <1>6 DEF Alternating
<1>14. Open(v, q, k)
  BY <1>f, <1>2, <1>4, <1>5, <1>6 DEF Open
<1>15. Covered(v, q, k, r)
  <2>1. \A n \in Due(v, q) : Knows(k, n)
    BY <1>f, <1>9 DEF Covered
  <2>2. \A i \in DOMAIN q : Catchup(q[i]) => i \in DOMAIN p /\ Catchup(p[i])
    BY <1>4, <1>5
  <2>3. ASSUME NEW i \in DOMAIN p, Catchup(p[i])
        PROVE  /\ k.current <= q[i].n \/ Owed(v, q, i, k.current)
               /\ \A j \in DOMAIN r : r[j] <= q[i].n \/ Owed(v, q, i, r[j])
               /\ \A j \in DOMAIN q : j < i => q[j].n <= q[i].n \/ Owed(v, q, i, q[j].n)
    <3>1. /\ k.current <= p[i].n \/ Owed(w, p, i, k.current)
          /\ \A j \in DOMAIN r : r[j] <= p[i].n \/ Owed(w, p, i, r[j])
          /\ \A j \in DOMAIN p : j < i => p[j].n <= p[i].n \/ Owed(w, p, i, p[j].n)
      BY <1>f, <2>3 DEF Covered
    <3> QED
      BY <1>4, <1>7, <3>1
  <2> QED
    BY <1>2, <1>6, <2>1, <2>2, <2>3 DEF Covered
<1> QED
  BY <1>3, <1>9, <1>10, <1>11, <1>12, <1>13, <1>14, <1>15 DEF Flow, v, q

\* What a frame of a snapshot leaves true behind the others.
LEMMA AppendedFacts ==
  ASSUME NEW w \in Workers, NEW p \in Seq(Frames), NEW k \in Caches, NEW r \in Seq(Snapshots),
         Bounded(w, p, k, r), Ordered(p), Ahead(w, p, k, r),
         NEW f \in Frames, ~Event(f), k.heard <= f.n, f.n <= w.seq,
         \A i \in DOMAIN p : Event(p[i]) => p[i].n <= f.n
  PROVE  LET q == Append(p, f) IN
         Bounded(w, q, k, r) /\ Ordered(q) /\ Ahead(w, q, k, r) /\ Sent(q) = Sent(p)
<1> DEFINE q == Append(p, f)
           last == Len(p) + 1
<1>1. /\ last \in Int /\ last \in DOMAIN q /\ q[last] = f
      /\ \A i \in DOMAIN p : i \in Int /\ i < last /\ i \in DOMAIN q /\ q[i] = p[i]
      /\ \A i \in DOMAIN q : i = last \/ i \in DOMAIN p
  BY AppendEntries
<1> HIDE DEF q, last
<1>2. Sent(q) = Sent(p)
  BY <1>1 DEF Sent
<1>3. Bounded(w, q, k, r)
  <2>1. \A i \in DOMAIN q : k.heard <= q[i].n /\ q[i].n <= w.seq
    <3>1. \A i \in DOMAIN p : k.heard <= p[i].n /\ p[i].n <= w.seq
      BY DEF Bounded
    <3> QED
      BY <1>1, <3>1
  <2> QED
    BY <2>1 DEF Bounded
<1>4. Ordered(q)
  <2> SUFFICES ASSUME NEW i \in DOMAIN q, NEW j \in DOMAIN q, i < j
               PROVE  /\ Event(q[j]) => q[i].n < q[j].n
                      /\ Event(q[i]) => q[i].n <= q[j].n
    BY DEF Ordered
  <2>1. i \in DOMAIN p /\ q[i] = p[i]
    BY <1>1
  <2>2. CASE j = last
    BY <1>1, <2>1, <2>2
  <2>3. CASE j \in DOMAIN p
    BY <1>1, <2>1, <2>3 DEF Ordered
  <2> QED
    BY <1>1, <2>2, <2>3
<1>5. Ahead(w, q, k, r)
  BY <1>1 DEF Ahead
<1> QED
  BY <1>2, <1>3, <1>4, <1>5 DEF q

\* What another snapshot to send leaves true.
LEMMA TransferAppended ==
  ASSUME NEW w \in Workers, NEW v \in Workers, NEW p \in Seq(Frames), NEW k \in Caches,
         NEW r \in Seq(Snapshots), Bounded(w, p, k, r), Ahead(w, p, k, r),
         NEW t \in Transfers, t.id = w.seq, v.seq = w.seq, v.transfers = Append(w.transfers, t)
  PROVE  Bounded(v, p, k, r) /\ Ahead(v, p, k, r)
<1> DEFINE last == Len(w.transfers) + 1
<1>1. /\ v.transfers[last] = t
      /\ \A i \in DOMAIN w.transfers : v.transfers[i] = w.transfers[i]
      /\ \A i \in DOMAIN v.transfers : i = last \/ i \in DOMAIN w.transfers
  BY WorkerFacts, AppendEntries
<1> HIDE DEF last
<1>2. ASSUME NEW i \in DOMAIN v.transfers
      PROVE  k.heard <= v.transfers[i].id /\ v.transfers[i].id <= w.seq
  <2>1. k.heard <= w.seq /\ w.seq <= w.seq
    BY Numbers DEF Bounded
  <2>2. CASE i = last
    BY <1>1, <2>1, <2>2
  <2>3. CASE i \in DOMAIN w.transfers
    BY <1>1, <2>3 DEF Bounded
  <2> QED
    BY <1>1, <2>2, <2>3
<1>3. Bounded(v, p, k, r)
  BY <1>2 DEF Bounded
<1>4. ASSUME NEW i \in DOMAIN p, Event(p[i]), NEW j \in DOMAIN v.transfers
      PROVE  p[i].n <= v.transfers[j].id
  <2>1. CASE j = last
    BY <1>1, <2>1 DEF Bounded
  <2>2. CASE j \in DOMAIN w.transfers
    BY <1>1, <1>4, <2>2 DEF Ahead
  <2> QED
    BY <1>1, <2>1, <2>2
<1>5. Ahead(v, p, k, r)
  BY <1>4 DEF Ahead
<1> QED
  BY <1>3, <1>5

\* What is owed stays owed, and so what is covered stays covered.
LEMMA AppendedCovered ==
  ASSUME NEW w \in Workers, NEW v \in Workers, NEW p \in Seq(Frames), NEW k \in Caches,
         NEW r \in Seq(Snapshots), Bounded(w, p, k, r), Covered(w, p, k, r),
         NEW f \in Frames, v.seq = w.seq, Sent(Append(p, f)) = Sent(p),
         \A m \in 0..Len(p), n \in Int : n <= w.seq /\ Owed(w, p, m, n) => Owed(v, Append(p, f), m, n),
         \A i \in DOMAIN v.transfers :
           OwnCatchup(v.transfers[i]) => v.transfers[i].id = w.seq \/ v.catchup,
         Catchup(f) => f.n = w.seq \/ v.catchup \/ v.catching
  PROVE  Covered(v, Append(p, f), k, r) /\ Due(v, Append(p, f)) \subseteq Due(w, p)
<1> DEFINE q == Append(p, f)
           last == Len(p) + 1
<1>1. /\ last \in DOMAIN q /\ q[last] = f /\ \A j \in DOMAIN q : j < last => j \in DOMAIN p
      /\ \A i \in DOMAIN p : i \in 0..Len(p) /\ i \in DOMAIN q /\ q[i] = p[i]
      /\ \A i \in DOMAIN q : i = last \/ i \in DOMAIN p
      /\ \A i \in DOMAIN p, j \in DOMAIN q : j < i => j \in DOMAIN p
      /\ 0 \in 0..Len(p)
  <2>1. Len(p) \in Nat /\ DOMAIN p = 1..Len(p)
    OBVIOUS
  <2>2. /\ DOMAIN q = DOMAIN p \cup {last} /\ q[last] = f
        /\ \A i \in DOMAIN p : q[i] = p[i]
    BY AppendEntries
  <2> QED
    BY <2>1, <2>2
<1> HIDE DEF q, last
<1>2. \A m \in 0..Len(p), n \in Int : n <= w.seq /\ Owed(w, p, m, n) => Owed(v, q, m, n)
  BY DEF q
<1>3. /\ w.seq \in Int /\ k.current \in Int
      /\ \A i \in DOMAIN p : p[i].n \in Int
      /\ \A i \in DOMAIN r : r[i] \in Int
  BY Numbers
<1>4. /\ k.current <= w.seq
      /\ \A i \in DOMAIN p : p[i].n <= w.seq
      /\ \A i \in DOMAIN r : r[i] <= w.seq
  BY DEF Bounded
<1>5. Due(v, q) \subseteq Due(w, p)
  <2> SUFFICES ASSUME NEW n \in Due(v, q) PROVE n \in Due(w, p)
    OBVIOUS
  <2>1. n \in 1..w.seq /\ n \notin Sent(p) /\ ~Owed(v, q, 0, n)
    BY DEF Due, q
  <2>2. n \in Int /\ n <= w.seq
    BY <1>3, <2>1
  <2> QED
    BY <1>1, <1>2, <2>1, <2>2 DEF Due
<1>6. \A n \in Due(v, q) : Knows(k, n)
  BY <1>5 DEF Covered
<1>7. ASSUME NEW i \in DOMAIN p, Catchup(p[i])
      PROVE  /\ k.current <= q[i].n \/ Owed(v, q, i, k.current)
             /\ \A j \in DOMAIN r : r[j] <= q[i].n \/ Owed(v, q, i, r[j])
             /\ \A j \in DOMAIN q : j < i => q[j].n <= q[i].n \/ Owed(v, q, i, q[j].n)
  <2>1. /\ k.current <= p[i].n \/ Owed(w, p, i, k.current)
        /\ \A j \in DOMAIN r : r[j] <= p[i].n \/ Owed(w, p, i, r[j])
        /\ \A j \in DOMAIN p : j < i => p[j].n <= p[i].n \/ Owed(w, p, i, p[j].n)
    BY <1>7 DEF Covered
  <2>2. /\ k.current <= q[i].n \/ Owed(v, q, i, k.current)
        /\ \A j \in DOMAIN r : r[j] <= q[i].n \/ Owed(v, q, i, r[j])
    BY <1>1, <1>2, <1>3, <1>4, <2>1
  <2>3. ASSUME NEW j \in DOMAIN q, j < i PROVE q[j].n <= q[i].n \/ Owed(v, q, i, q[j].n)
    <3>1. j \in DOMAIN p /\ q[j].n = p[j].n /\ q[i].n = p[i].n
      BY <1>1, <2>3
    <3> QED
      BY <1>1, <1>2, <1>3, <1>4, <2>1, <2>3, <3>1
  <2> QED
    BY <2>2, <2>3
<1>8. ASSUME Catchup(f)
      PROVE  /\ k.current <= q[last].n \/ Owed(v, q, last, k.current)
             /\ \A j \in DOMAIN r : r[j] <= q[last].n \/ Owed(v, q, last, r[j])
             /\ \A j \in DOMAIN q : j < last => q[j].n <= q[last].n \/ Owed(v, q, last, q[j].n)
  <2>1. CASE f.n = w.seq
    <3>1. q[last].n = w.seq
      BY <1>1, <2>1
    <3>2. \A j \in DOMAIN q : j < last => q[j].n <= q[last].n
      BY <1>1, <1>4, <3>1
    <3> QED
      BY <1>4, <3>1, <3>2
  <2>2. CASE v.catchup \/ v.catching
    BY <2>2 DEF Owed
  <2> QED
    BY <1>8, <2>1, <2>2
<1>9. ASSUME NEW i \in DOMAIN q, Catchup(q[i])
      PROVE  /\ k.current <= q[i].n \/ Owed(v, q, i, k.current)
             /\ \A j \in DOMAIN r : r[j] <= q[i].n \/ Owed(v, q, i, r[j])
             /\ \A j \in DOMAIN q : j < i => q[j].n <= q[i].n \/ Owed(v, q, i, q[j].n)
  <2>1. CASE i = last
    BY <1>1, <1>8, <1>9, <2>1
  <2>2. CASE i \in DOMAIN p
    BY <1>1, <1>7, <1>9, <2>2
  <2> QED
    BY <1>1, <2>1, <2>2
<1>10. Covered(v, q, k, r)
  BY <1>6, <1>9 DEF Covered
<1> QED
  BY <1>5, <1>10 DEF q

LEMMA SameFlow ==
  ASSUME NEW w \in Workers, NEW v \in Workers, NEW p, NEW k, NEW r, NEW l, Flow(w, p, k, r, l),
         v.seq = w.seq, v.transfers = w.transfers, v.begun = w.begun,
         v.catching = w.catching, v.catchup = w.catchup
  PROVE  Flow(v, p, k, r, l) /\ Due(v, p) = Due(w, p)
<1>1. \A m, n : Owed(v, p, m, n) <=> Owed(w, p, m, n)
  BY DEF Owed
<1>2. Due(v, p) = Due(w, p)
  BY <1>1 DEF Due
<1>3. Covered(v, p, k, r)
  BY <1>1, <1>2 DEF Flow, Covered
<1> QED
  BY <1>2, <1>3 DEF Flow, Bounded, Ahead, Matched, Alternating, Open

\* The first transfer stays the first when another is added.
LEMMA FirstTransfer ==
  ASSUME NEW w \in Workers, NEW t \in Transfers
  PROVE  /\ Append(w.transfers, t) \in Seq(Transfers) /\ Append(w.transfers, t) # <<>>
         /\ \A i \in DOMAIN w.transfers :
              i \in DOMAIN Append(w.transfers, t) /\ Append(w.transfers, t)[i] = w.transfers[i]
         /\ \A i \in DOMAIN Append(w.transfers, t) :
              i \in DOMAIN w.transfers \/ Append(w.transfers, t)[i] = t
         /\ \E i \in DOMAIN Append(w.transfers, t) : Append(w.transfers, t)[i] = t
         /\ w.transfers # <<>> => Append(w.transfers, t)[1] = w.transfers[1]
<1>1. w.transfers \in Seq(Transfers)
  BY WorkerFacts
<1> QED
  BY <1>1, AppendEntries

LEMMA CatchingFlow ==
  ASSUME NEW w \in Workers, NEW p \in Seq(Frames), NEW k \in Caches, NEW r \in Seq(Snapshots), NEW l,
         Flow(w, p, k, r, l), NEW v \in Workers,
         v.seq = w.seq, v.begun = w.begun, v.catchup = w.catchup, v.catching = FALSE,
         v.transfers = Append(w.transfers, [id |-> w.seq, purpose |-> "catchup"])
  PROVE  Flow(v, p, k, r, l) /\ Due(v, p) \subseteq Due(w, p)
<1> DEFINE t == [id |-> w.seq, purpose |-> "catchup"]
<1>1. t \in Transfers /\ t.id = w.seq /\ OwnCatchup(t)
  BY WorkerFacts DEF Transfers, OwnCatchup
<1>2. v.transfers = Append(w.transfers, t)
  OBVIOUS
<1> HIDE DEF t
<1>f. /\ Bounded(w, p, k, r) /\ Ordered(p) /\ Ahead(w, p, k, r) /\ Matched(w, p) /\ Alternating(w, p)
      /\ Open(w, p, k) /\ Current(k, l) /\ Covered(w, p, k, r)
  BY DEF Flow
<1>3. /\ \A i \in DOMAIN w.transfers : i \in DOMAIN v.transfers /\ v.transfers[i] = w.transfers[i]
      /\ \A i \in DOMAIN v.transfers : i \in DOMAIN w.transfers \/ v.transfers[i] = t
      /\ \E i \in DOMAIN v.transfers : v.transfers[i] = t
      /\ v.transfers # <<>> /\ (w.begun => v.transfers[1] = w.transfers[1])
  <2>1. w.begun => w.transfers # <<>>
    BY <1>f DEF Matched
  <2> DEFINE a == Append(w.transfers, t)
  <2>2. /\ a # <<>>
        /\ \A i \in DOMAIN w.transfers : i \in DOMAIN a /\ a[i] = w.transfers[i]
        /\ \A i \in DOMAIN a : i \in DOMAIN w.transfers \/ a[i] = t
        /\ \E i \in DOMAIN a : a[i] = t
        /\ w.transfers # <<>> => a[1] = w.transfers[1]
    BY <1>1, FirstTransfer
  <2>3. v.transfers = a
    BY <1>2
  <2> HIDE DEF a
  <2> QED
    BY <2>1, <2>2, <2>3
<1>4. Bounded(v, p, k, r) /\ Ahead(v, p, k, r)
  BY <1>1, <1>2, <1>f, TransferAppended
<1>5. Matched(v, p) /\ Alternating(v, p) /\ Open(v, p, k)
  <2>1. Matched(v, p)
    BY <1>f, <1>3 DEF Matched
  <2>2. Alternating(v, p)
    BY <1>f DEF Alternating
  <2>3. Open(v, p, k)
    BY <1>f, <1>3 DEF Open
  <2> QED
    BY <2>1, <2>2, <2>3
<1>6. \A m, n : n <= w.seq /\ Owed(w, p, m, n) => Owed(v, p, m, n)
  <2> SUFFICES ASSUME NEW m, NEW n, n <= w.seq, Owed(w, p, m, n) PROVE Owed(v, p, m, n)
    OBVIOUS
  <2>1. \E i \in DOMAIN v.transfers : OwnCatchup(v.transfers[i]) /\ n <= v.transfers[i].id
    BY <1>1, <1>3
  <2> QED
    BY <2>1 DEF Owed
<1>7. Covered(v, p, k, r) /\ Due(v, p) \subseteq Due(w, p)
  <2>1. /\ k.current <= w.seq
        /\ \A i \in DOMAIN p : p[i].n <= w.seq
        /\ \A i \in DOMAIN r : r[i] <= w.seq
    BY <1>f DEF Bounded
  <2>2. \A n \in 1..w.seq : n <= w.seq
    BY Numbers
  <2>3. Due(v, p) \subseteq Due(w, p)
    BY <1>6, <2>2 DEF Due
  <2>4. \A i \in DOMAIN v.transfers :
          OwnCatchup(v.transfers[i]) => v.transfers[i].id = w.seq \/ v.catchup
    BY <1>1, <1>3, <1>f DEF Covered
  <2>5. \A n \in Due(v, p) : Knows(k, n)
    BY <1>f, <2>3 DEF Covered
  <2>6. ASSUME NEW i \in DOMAIN p, Catchup(p[i])
        PROVE  /\ k.current <= p[i].n \/ Owed(v, p, i, k.current)
               /\ \A j \in DOMAIN r : r[j] <= p[i].n \/ Owed(v, p, i, r[j])
               /\ \A j \in DOMAIN p : j < i => p[j].n <= p[i].n \/ Owed(v, p, i, p[j].n)
    BY <1>f, <1>6, <2>1, <2>6 DEF Covered
  <2> QED
    BY <2>3, <2>4, <2>5, <2>6 DEF Covered
<1> QED
  BY <1>4, <1>5, <1>7, <1>f DEF Flow

LEMMA AnswerFlow ==
  ASSUME NEW w \in Workers, NEW p \in Seq(Frames), NEW k \in Caches, NEW r \in Seq(Snapshots), NEW l,
         Flow(w, p, k, r, l), NEW v \in Workers,
         v.seq = w.seq, v.begun = w.begun, v.catchup = w.catchup, v.catching = w.catching,
         v.transfers = Append(w.transfers, [id |-> w.seq, purpose |-> "attach"]),
         NEW f \in Frames, Response(f), f.n = w.seq
  PROVE  Flow(v, Append(p, f), k, r, l) /\ Due(v, Append(p, f)) \subseteq Due(w, p)
<1> DEFINE t == [id |-> w.seq, purpose |-> "attach"]
           a == Append(w.transfers, t)
           q == Append(p, f)
           last == Len(p) + 1
<1>1. t \in Transfers /\ t.id = w.seq /\ ~OwnCatchup(t)
  BY WorkerFacts DEF Transfers, OwnCatchup
<1>2. v.transfers = a
  OBVIOUS
<1> HIDE DEF t
<1>f. /\ Bounded(w, p, k, r) /\ Ordered(p) /\ Ahead(w, p, k, r) /\ Matched(w, p) /\ Alternating(w, p)
      /\ Open(w, p, k) /\ Current(k, l) /\ Covered(w, p, k, r)
  BY DEF Flow
<1>3. /\ \A i \in DOMAIN w.transfers : i \in DOMAIN v.transfers /\ v.transfers[i] = w.transfers[i]
      /\ \A i \in DOMAIN v.transfers : i \in DOMAIN w.transfers \/ v.transfers[i] = t
      /\ v.transfers # <<>> /\ (w.begun => v.transfers[1] = w.transfers[1])
  <2>1. w.begun => w.transfers # <<>>
    BY <1>f DEF Matched
  <2>2. /\ a # <<>>
        /\ \A i \in DOMAIN w.transfers : i \in DOMAIN a /\ a[i] = w.transfers[i]
        /\ \A i \in DOMAIN a : i \in DOMAIN w.transfers \/ a[i] = t
        /\ w.transfers # <<>> => a[1] = w.transfers[1]
    BY <1>1, FirstTransfer, ZenonT(60)
  <2> HIDE DEF a
  <2> QED
    BY <1>2, <2>1, <2>2
<1>4. Bounded(v, p, k, r) /\ Ahead(v, p, k, r)
  BY <1>1, <1>2, <1>f, TransferAppended
<1> HIDE DEF a
<1>5. ~Event(f) /\ ~Opening(f) /\ ~Closing(f) /\ ~Catchup(f)
  BY FrameFacts
<1>6. /\ k.heard <= f.n /\ f.n <= v.seq
      /\ \A i \in DOMAIN p : p[i].n <= f.n
  BY <1>f, Numbers DEF Bounded
<1>7. Bounded(v, q, k, r) /\ Ordered(q) /\ Ahead(v, q, k, r) /\ Sent(q) = Sent(p)
  BY <1>f, <1>4, <1>5, <1>6, AppendedFacts
<1>8. /\ last \in Int /\ last \in DOMAIN q /\ q[last] = f
      /\ \A i \in DOMAIN p : i \in Int /\ i < last /\ i \in DOMAIN q /\ q[i] = p[i]
      /\ \A i \in DOMAIN q : i = last \/ i \in DOMAIN p
  BY AppendEntries
<1> HIDE DEF q, last
<1>9. Matched(v, q)
  <2> SUFFICES ASSUME NEW i \in DOMAIN q, Opening(q[i])
               PROVE  \/ \E e \in DOMAIN q : /\ i < e /\ Closing(q[e]) /\ q[e].n = q[i].n
                                            /\ \A j \in DOMAIN q : i < j /\ j < e => Response(q[j])
                      \/ /\ v.begun /\ v.transfers[1].id = q[i].n
                         /\ \A j \in DOMAIN q : i < j => Response(q[j])
    BY <1>3 DEF Matched
  <2>0. i \in DOMAIN p /\ q[i] = p[i] /\ Opening(p[i])
    BY <1>5, <1>8
  <2>1. ASSUME NEW e \in DOMAIN p, i < e, Closing(p[e]), p[e].n = p[i].n,
               \A j \in DOMAIN p : i < j /\ j < e => Response(p[j])
        PROVE  \E d \in DOMAIN q : /\ i < d /\ Closing(q[d]) /\ q[d].n = q[i].n
                                   /\ \A j \in DOMAIN q : i < j /\ j < d => Response(q[j])
    BY <1>8, <2>0, <2>1
  <2>2. ASSUME w.begun, w.transfers[1].id = p[i].n, \A j \in DOMAIN p : i < j => Response(p[j])
        PROVE  /\ v.begun /\ v.transfers[1].id = q[i].n
               /\ \A j \in DOMAIN q : i < j => Response(q[j])
    BY <1>3, <1>8, <2>0, <2>2
  <2> QED
    BY <1>f, <2>0, <2>1, <2>2 DEF Matched
<1>10. Alternating(v, q)
  BY <1>f, <1>5, <1>8 DEF Alternating
<1>11. Open(v, q, k)
  BY <1>f, <1>3, <1>5, <1>8 DEF Open
<1>12. \A m \in 0..Len(p), n \in Int : n <= w.seq /\ Owed(w, p, m, n) => Owed(v, q, m, n)
  BY <1>3, <1>8 DEF Owed
<1>13. \A i \in DOMAIN v.transfers :
         OwnCatchup(v.transfers[i]) => v.transfers[i].id = w.seq \/ v.catchup
  BY <1>1, <1>3, <1>f DEF Covered
<1>14. Covered(v, q, k, r) /\ Due(v, q) \subseteq Due(w, p)
  BY <1>5, <1>7, <1>12, <1>13, <1>f, AppendedCovered DEF q
<1> QED
  BY <1>7, <1>9, <1>10, <1>11, <1>14, <1>f DEF Flow, q

LEMMA BeginFlow ==
  ASSUME NEW w \in Workers, NEW p \in Seq(Frames), NEW k \in Caches, NEW r \in Seq(Snapshots), NEW l,
         Flow(w, p, k, r, l), w.transfers # <<>>, ~w.begun,
         NEW v \in Workers, v.seq = w.seq, v.begun = TRUE, v.catchup = w.catchup,
         v.catching = w.catching, v.transfers = w.transfers,
         NEW f \in Frames, Opening(f), f.n = w.transfers[1].id
  PROVE  Flow(v, Append(p, f), k, r, l) /\ Due(v, Append(p, f)) \subseteq Due(w, p)
<1> DEFINE q == Append(p, f)
           last == Len(p) + 1
<1>f. /\ Bounded(w, p, k, r) /\ Ordered(p) /\ Ahead(w, p, k, r) /\ Matched(w, p) /\ Alternating(w, p)
      /\ Open(w, p, k) /\ Current(k, l) /\ Covered(w, p, k, r)
  BY DEF Flow
<1>1. 1 \in DOMAIN w.transfers
  BY WorkerFacts, TailEntries
<1>2. Bounded(v, p, k, r) /\ Ahead(v, p, k, r)
  BY <1>f DEF Bounded, Ahead
<1>5. ~Event(f) /\ ~Response(f) /\ ~Closing(f) /\ ~Catchup(f)
  BY FrameFacts
<1>6. /\ k.heard <= f.n /\ f.n <= v.seq
      /\ \A i \in DOMAIN p : Event(p[i]) => p[i].n <= f.n
  BY <1>f, <1>1 DEF Bounded, Ahead
<1>7. Bounded(v, q, k, r) /\ Ordered(q) /\ Ahead(v, q, k, r) /\ Sent(q) = Sent(p)
  BY <1>f, <1>2, <1>5, <1>6, AppendedFacts
<1>8. /\ last \in Int /\ last \in DOMAIN q /\ q[last] = f
      /\ \A i \in DOMAIN p : i \in Int /\ i < last /\ i \in DOMAIN q /\ q[i] = p[i]
      /\ \A i \in DOMAIN q : i = last \/ i \in DOMAIN p
  BY AppendEntries
<1> HIDE DEF q, last
<1>9. Matched(v, q)
  <2>1. ASSUME NEW i \in DOMAIN p, Opening(p[i])
        PROVE  \E e \in DOMAIN q : /\ i < e /\ Closing(q[e]) /\ q[e].n = p[i].n
                                  /\ \A j \in DOMAIN q : i < j /\ j < e => Response(q[j])
    <3>1. PICK e \in DOMAIN p : /\ i < e /\ Closing(p[e]) /\ p[e].n = p[i].n
                                /\ \A j \in DOMAIN p : i < j /\ j < e => Response(p[j])
      BY <1>f, <2>1 DEF Matched
    <3> QED
      BY <1>8, <3>1, SMTT(30)
  <2>2. /\ v.begun /\ v.transfers[1].id = q[last].n
        /\ \A j \in DOMAIN q : last < j => Response(q[j])
    BY <1>8
  <2> QED
    BY <1>8, <2>1, <2>2 DEF Matched
<1>10. Alternating(v, q)
  BY <1>f, <1>5, <1>8 DEF Alternating
<1>11. Open(v, q, k)
  BY <1>f, <1>5, <1>8 DEF Open
<1>12. \A m \in 0..Len(p), n \in Int : n <= w.seq /\ Owed(w, p, m, n) => Owed(v, q, m, n)
  BY <1>8 DEF Owed
<1>13. \A i \in DOMAIN v.transfers :
         OwnCatchup(v.transfers[i]) => v.transfers[i].id = w.seq \/ v.catchup
  BY <1>f DEF Covered
<1>14. Covered(v, q, k, r) /\ Due(v, q) \subseteq Due(w, p)
  BY <1>5, <1>7, <1>12, <1>13, <1>f, AppendedCovered DEF q
<1> QED
  BY <1>7, <1>9, <1>10, <1>11, <1>14, <1>f DEF Flow, q

LEMMA EndFlow ==
  ASSUME NEW w \in Workers, NEW p \in Seq(Frames), NEW k \in Caches, NEW r \in Seq(Snapshots), NEW l,
         Flow(w, p, k, r, l), w.begun,
         NEW v \in Workers, v.seq = w.seq, v.begun = FALSE, v.transfers = Tail(w.transfers),
         w.catchup \/ w.catching => v.catchup \/ v.catching,
         w.catchup => v.catchup \/ v.transfers = <<>>,
         NEW f \in Frames, Closing(f), f.n = w.transfers[1].id,
         Catchup(f) <=> OwnCatchup(w.transfers[1])
  PROVE  Flow(v, Append(p, f), k, r, l) /\ Due(v, Append(p, f)) \subseteq Due(w, p)
<1> DEFINE q == Append(p, f)
           last == Len(p) + 1
<1>f. /\ Bounded(w, p, k, r) /\ Ordered(p) /\ Ahead(w, p, k, r) /\ Matched(w, p) /\ Alternating(w, p)
      /\ Open(w, p, k) /\ Current(k, l) /\ Covered(w, p, k, r)
  BY DEF Flow
<1>1. /\ 1 \in DOMAIN w.transfers
      /\ \A i \in DOMAIN v.transfers : i + 1 \in DOMAIN w.transfers /\ v.transfers[i] = w.transfers[i + 1]
      /\ \A i \in DOMAIN w.transfers : i # 1 => i - 1 \in DOMAIN v.transfers /\ v.transfers[i - 1] = w.transfers[i]
  <2>1. w.transfers \in Seq(Transfers) /\ w.transfers # <<>>
    BY <1>f, WorkerFacts DEF Matched
  <2> QED
    BY <2>1, TailEntries, SMTT(30)
<1>2. Bounded(v, p, k, r) /\ Ahead(v, p, k, r)
  <2>1. Bounded(v, p, k, r)
    BY <1>f, <1>1 DEF Bounded
  <2>2. Ahead(v, p, k, r)
    BY <1>f, <1>1 DEF Ahead
  <2> QED
    BY <2>1, <2>2
<1>5. ~Event(f) /\ ~Response(f) /\ ~Opening(f)
  BY FrameFacts
<1>6. /\ k.heard <= f.n /\ f.n <= v.seq
      /\ \A i \in DOMAIN p : Event(p[i]) => p[i].n <= f.n
  BY <1>f, <1>1 DEF Bounded, Ahead
<1>7. Bounded(v, q, k, r) /\ Ordered(q) /\ Ahead(v, q, k, r) /\ Sent(q) = Sent(p)
  BY <1>f, <1>2, <1>5, <1>6, AppendedFacts
<1>8. /\ last \in Int /\ last \in DOMAIN q /\ q[last] = f
      /\ \A i \in DOMAIN p : i \in Int /\ i < last /\ i \in DOMAIN q /\ q[i] = p[i]
      /\ \A i \in DOMAIN q : i = last \/ i \in DOMAIN p
      /\ \A m \in 0..Len(p) : m < last
  BY AppendEntries
<1> HIDE DEF q, last
<1>9. Matched(v, q)
  <2> SUFFICES ASSUME NEW i \in DOMAIN q, Opening(q[i])
               PROVE  \E e \in DOMAIN q : /\ i < e /\ Closing(q[e]) /\ q[e].n = q[i].n
                                         /\ \A j \in DOMAIN q : i < j /\ j < e => Response(q[j])
    BY DEF Matched
  <2>0. i \in DOMAIN p /\ q[i] = p[i] /\ Opening(p[i])
    BY <1>5, <1>8
  <2>1. ASSUME NEW e \in DOMAIN p, i < e, Closing(p[e]), p[e].n = p[i].n,
               \A j \in DOMAIN p : i < j /\ j < e => Response(p[j])
        PROVE  \E d \in DOMAIN q : /\ i < d /\ Closing(q[d]) /\ q[d].n = q[i].n
                                   /\ \A j \in DOMAIN q : i < j /\ j < d => Response(q[j])
    BY <1>8, <2>0, <2>1
  <2>2. ASSUME w.transfers[1].id = p[i].n, \A j \in DOMAIN p : i < j => Response(p[j])
        PROVE  /\ i < last /\ Closing(q[last]) /\ q[last].n = q[i].n
               /\ \A j \in DOMAIN q : i < j /\ j < last => Response(q[j])
    BY <1>8, <2>0, <2>2, SMTT(30)
  <2> QED
    BY <1>f, <1>8, <2>0, <2>1, <2>2 DEF Matched
<1>10. Alternating(v, q)
  <2> SUFFICES ASSUME NEW i \in DOMAIN q, Event(q[i]) \/ Closing(q[i]),
                      NEW e \in DOMAIN q, i < e, Closing(q[e])
               PROVE  \E j \in DOMAIN q : i < j /\ j < e /\ Opening(q[j])
    BY DEF Alternating
  <2>1. i \in DOMAIN p /\ q[i] = p[i]
    BY <1>8
  <2>2. CASE e = last
    <3>1. PICK j \in DOMAIN p : i < j /\ Opening(p[j])
      BY <1>f, <2>1 DEF Alternating
    <3> QED
      BY <1>8, <2>2, <3>1
  <2>3. CASE e \in DOMAIN p
    <3>1. PICK j \in DOMAIN p : i < j /\ j < e /\ Opening(p[j])
      BY <1>f, <1>8, <2>1, <2>3 DEF Alternating
    <3> QED
      BY <1>8, <3>1
  <2> QED
    BY <1>8, <2>2, <2>3
<1>11. Open(v, q, k)
  <2> SUFFICES ASSUME NEW i \in DOMAIN q, Closing(q[i]), \A j \in DOMAIN q : j < i => Response(q[j])
               PROVE  Opened(k, q[i].n)
    BY DEF Open
  <2>1. CASE i = last
    <3>1. \A j \in DOMAIN p : Response(p[j])
      BY <1>8, <2>1
    <3> QED
      BY <1>f, <1>8, <2>1, <3>1 DEF Open
  <2>2. CASE i \in DOMAIN p
    <3>1. Closing(p[i]) /\ q[i] = p[i] /\ \A j \in DOMAIN p : j < i => Response(p[j])
      BY <1>8, <2>2
    <3> QED
      BY <1>f, <2>2, <3>1 DEF Open
  <2> QED
    BY <1>8, <2>1, <2>2
<1>12. \A m \in 0..Len(p), n \in Int : n <= w.seq /\ Owed(w, p, m, n) => Owed(v, q, m, n)
  <2> SUFFICES ASSUME NEW m \in 0..Len(p), NEW n \in Int, Owed(w, p, m, n) PROVE Owed(v, q, m, n)
    OBVIOUS
  <2>1. CASE w.catchup \/ w.catching
    BY <2>1 DEF Owed
  <2>2. ASSUME NEW i \in DOMAIN w.transfers, OwnCatchup(w.transfers[i]), n <= w.transfers[i].id
        PROVE  Owed(v, q, m, n)
    <3>1. CASE i = 1
      <4>1. m < last /\ Catchup(q[last]) /\ n <= q[last].n
        BY <1>8, <2>2, <3>1
      <4> QED
        BY <1>8, <4>1 DEF Owed
    <3>2. CASE i # 1
      BY <1>1, <2>2, <3>2 DEF Owed
    <3> QED
      BY <3>1, <3>2
  <2>3. ASSUME NEW i \in DOMAIN p, m < i, Catchup(p[i]), n <= p[i].n PROVE Owed(v, q, m, n)
    BY <1>8, <2>3 DEF Owed
  <2> QED
    BY <2>1, <2>2, <2>3 DEF Owed
<1>13. \A i \in DOMAIN v.transfers :
         OwnCatchup(v.transfers[i]) => v.transfers[i].id = w.seq \/ v.catchup
  <2>1. \A x : x = <<>> => \A i : i \notin DOMAIN x
    OBVIOUS
  <2>2. \A i \in DOMAIN w.transfers :
          OwnCatchup(w.transfers[i]) => w.transfers[i].id = w.seq \/ w.catchup
    BY <1>f DEF Covered
  <2> SUFFICES ASSUME NEW i \in DOMAIN v.transfers, OwnCatchup(v.transfers[i])
               PROVE  v.transfers[i].id = w.seq \/ v.catchup
    OBVIOUS
  <2> DEFINE a == v.transfers
  <2>3. i \in DOMAIN a
    OBVIOUS
  <2> HIDE DEF a
  <2>4. a # <<>>
    BY <2>1, <2>3
  <2>5. v.transfers[i].id = w.seq \/ w.catchup
    <3>1. i + 1 \in DOMAIN w.transfers /\ v.transfers[i] = w.transfers[i + 1]
      BY <1>1, Zenon
    <3>2. OwnCatchup(w.transfers[i + 1])
      BY <3>1, Zenon
    <3>3. w.transfers[i + 1].id = w.seq \/ w.catchup
      BY <2>2, <3>1, <3>2, Zenon
    <3> QED
      BY <3>1, <3>3, Zenon
  <2>6. w.catchup => v.catchup
    BY <2>4, Zenon DEF a
  <2> QED
    BY <2>5, <2>6
<1>14. Catchup(f) => f.n = w.seq \/ v.catchup \/ v.catching
  BY <1>1, <1>f DEF Covered
<1>15. Covered(v, q, k, r) /\ Due(v, q) \subseteq Due(w, p)
  BY <1>7, <1>12, <1>13, <1>14, <1>f, AppendedCovered DEF q
<1> QED
  BY <1>7, <1>9, <1>10, <1>11, <1>15, <1>f DEF Flow, q

\* What the removal of the first frame leaves true.
LEMMA TailFlow ==
  ASSUME NEW w \in Workers, NEW p \in Seq(Frames), NEW k \in Caches, NEW r \in Seq(Snapshots), NEW l,
         Flow(w, p, k, r, l), p # <<>>
  PROVE  LET q == Tail(p) IN
         /\ Bounded(w, q, k, r) /\ Ordered(q) /\ Ahead(w, q, k, r)
         /\ Matched(w, q) /\ Alternating(w, q)
         /\ \A i \in DOMAIN q : Catchup(q[i]) =>
              /\ k.current <= q[i].n \/ Owed(w, q, i, k.current)
              /\ p[1].n <= q[i].n \/ Owed(w, q, i, p[1].n)
              /\ \A j \in DOMAIN r : r[j] <= q[i].n \/ Owed(w, q, i, r[j])
              /\ \A j \in DOMAIN q : j < i => q[j].n <= q[i].n \/ Owed(w, q, i, q[j].n)
         /\ \A n : Owed(w, p, 1, n) => Owed(w, q, 0, n)
         /\ \A n \in Int : Owed(w, p, 0, n) => (Catchup(p[1]) /\ n <= p[1].n) \/ Owed(w, q, 0, n)
         /\ \A n \in Sent(p) : n \in Sent(q) \/ (Event(p[1]) /\ n = p[1].n)
<1> DEFINE q == Tail(p)
<1>f. /\ Bounded(w, p, k, r) /\ Ordered(p) /\ Ahead(w, p, k, r) /\ Matched(w, p) /\ Alternating(w, p)
      /\ Open(w, p, k) /\ Current(k, l) /\ Covered(w, p, k, r)
  BY DEF Flow
<1>1. /\ 1 \in DOMAIN p
      /\ \A i \in DOMAIN q : i \in Int /\ i > 0 /\ i + 1 \in DOMAIN p /\ q[i] = p[i + 1]
      /\ \A i \in DOMAIN p : i \in Int /\ (i # 1 => i > 1 /\ i - 1 \in DOMAIN q /\ q[i - 1] = p[i])
  BY TailEntries
<1> HIDE DEF q
<1>2. Bounded(w, q, k, r)
  <2>1. \A i \in DOMAIN q : k.heard <= q[i].n /\ q[i].n <= w.seq
    BY <1>f, <1>1 DEF Bounded
  <2> QED
    BY <1>f, <2>1 DEF Bounded
<1>3. Ordered(q)
  <2> SUFFICES ASSUME NEW i \in DOMAIN q, NEW j \in DOMAIN q, i < j
               PROVE  /\ Event(q[j]) => q[i].n < q[j].n
                      /\ Event(q[i]) => q[i].n <= q[j].n
    BY DEF Ordered
  <2>1. i + 1 \in DOMAIN p /\ j + 1 \in DOMAIN p /\ i + 1 < j + 1 /\ q[i] = p[i + 1] /\ q[j] = p[j + 1]
    BY <1>1
  <2> QED
    BY <1>f, <2>1 DEF Ordered
<1>4. Ahead(w, q, k, r)
  BY <1>f, <1>1 DEF Ahead
<1>5. Matched(w, q)
  <2> SUFFICES ASSUME NEW i \in DOMAIN q, Opening(q[i])
               PROVE  \/ \E e \in DOMAIN q : /\ i < e /\ Closing(q[e]) /\ q[e].n = q[i].n
                                            /\ \A j \in DOMAIN q : i < j /\ j < e => Response(q[j])
                      \/ /\ w.begun /\ w.transfers[1].id = q[i].n
                         /\ \A j \in DOMAIN q : i < j => Response(q[j])
    BY <1>f DEF Matched
  <2>1. /\ i + 1 \in DOMAIN p /\ q[i] = p[i + 1] /\ Opening(p[i + 1]) /\ i \in Int
        /\ \A j \in DOMAIN q : j \in Int /\ j + 1 \in DOMAIN p /\ q[j] = p[j + 1]
    BY <1>1
  <2>2. ASSUME NEW e \in DOMAIN p, i + 1 < e, Closing(p[e]), p[e].n = p[i + 1].n,
               \A j \in DOMAIN p : i + 1 < j /\ j < e => Response(p[j])
        PROVE  \E d \in DOMAIN q : /\ i < d /\ Closing(q[d]) /\ q[d].n = q[i].n
                                   /\ \A j \in DOMAIN q : i < j /\ j < d => Response(q[j])
    <3>1. /\ e \in Int /\ e - 1 \in DOMAIN q /\ q[e - 1] = p[e] /\ i < e - 1
      BY <1>1, <2>1, <2>2
    <3>2. ASSUME NEW j \in DOMAIN q, i < j, j < e - 1 PROVE Response(q[j])
      <4>1. i + 1 < j + 1 /\ j + 1 < e
        BY <2>1, <3>1, <3>2
      <4> QED
        BY <2>1, <2>2, <4>1
    <3> QED
      BY <2>1, <2>2, <3>1, <3>2
  <2>3. ASSUME w.begun, w.transfers[1].id = p[i + 1].n, \A j \in DOMAIN p : i + 1 < j => Response(p[j])
        PROVE  /\ w.begun /\ w.transfers[1].id = q[i].n
               /\ \A j \in DOMAIN q : i < j => Response(q[j])
    BY <2>1, <2>3
  <2> QED
    BY <1>f, <2>1, <2>2, <2>3 DEF Matched
<1>6. Alternating(w, q)
  <2> SUFFICES ASSUME NEW i \in DOMAIN q, Event(q[i]) \/ Closing(q[i])
               PROVE  /\ \A e \in DOMAIN q : i < e /\ Closing(q[e])
                                             => \E j \in DOMAIN q : i < j /\ j < e /\ Opening(q[j])
                      /\ w.begun => \E j \in DOMAIN q : i < j /\ Opening(q[j])
    BY DEF Alternating
  <2>1. i + 1 \in DOMAIN p /\ q[i] = p[i + 1] /\ i \in Int /\ i > 0
    BY <1>1
  <2>2. ASSUME NEW e \in DOMAIN q, i < e, Closing(q[e])
        PROVE  \E j \in DOMAIN q : i < j /\ j < e /\ Opening(q[j])
    <3>1. e + 1 \in DOMAIN p /\ i + 1 < e + 1 /\ Closing(p[e + 1]) /\ e \in Int
      BY <1>1, <2>1, <2>2
    <3>2. PICK j \in DOMAIN p : i + 1 < j /\ j < e + 1 /\ Opening(p[j])
      BY <1>f, <2>1, <3>1 DEF Alternating
    <3>3. j \in Int /\ j # 1
      BY <1>1, <2>1, <3>2
    <3>4. j - 1 \in DOMAIN q /\ q[j - 1] = p[j]
      BY <1>1, <3>3
    <3>5. i < j - 1 /\ j - 1 < e
      BY <2>1, <3>1, <3>2, <3>3
    <3> QED
      BY <3>2, <3>4, <3>5
  <2>3. ASSUME w.begun PROVE \E j \in DOMAIN q : i < j /\ Opening(q[j])
    <3>1. PICK j \in DOMAIN p : i + 1 < j /\ Opening(p[j])
      BY <1>f, <2>1, <2>3 DEF Alternating
    <3>2. j - 1 \in DOMAIN q /\ q[j - 1] = p[j] /\ i < j - 1
      BY <1>1, <2>1, <3>1
    <3> QED
      BY <3>1, <3>2
  <2> QED
    BY <2>2, <2>3
<1>7. \A n : \A m \in Nat : Owed(w, p, m + 1, n) => Owed(w, q, m, n)
  <2> SUFFICES ASSUME NEW m \in Nat, NEW n, Owed(w, p, m + 1, n) PROVE Owed(w, q, m, n)
    OBVIOUS
  <2>1. ASSUME NEW i \in DOMAIN p, m + 1 < i, Catchup(p[i]), n <= p[i].n PROVE Owed(w, q, m, n)
    <3>1. i - 1 \in DOMAIN q /\ q[i - 1] = p[i] /\ m < i - 1
      BY <1>1, <2>1
    <3> QED
      BY <2>1, <3>1 DEF Owed
  <2> QED
    BY <2>1 DEF Owed
<1>8. \A n \in Int : Owed(w, p, 0, n) => (Catchup(p[1]) /\ n <= p[1].n) \/ Owed(w, q, 0, n)
  <2> SUFFICES ASSUME NEW n \in Int, Owed(w, p, 0, n)
               PROVE  (Catchup(p[1]) /\ n <= p[1].n) \/ Owed(w, q, 0, n)
    OBVIOUS
  <2>1. ASSUME NEW i \in DOMAIN p, Catchup(p[i]), n <= p[i].n, i # 1 PROVE Owed(w, q, 0, n)
    <3>1. i - 1 \in DOMAIN q /\ q[i - 1] = p[i] /\ 0 < i - 1
      BY <1>1, <2>1
    <3> QED
      BY <2>1, <3>1 DEF Owed
  <2> QED
    BY <2>1 DEF Owed
<1>9. \A n \in Sent(p) : n \in Sent(q) \/ (Event(p[1]) /\ n = p[1].n)
  BY <1>1 DEF Sent
<1>10. ASSUME NEW i \in DOMAIN q, Catchup(q[i])
       PROVE  /\ k.current <= q[i].n \/ Owed(w, q, i, k.current)
              /\ p[1].n <= q[i].n \/ Owed(w, q, i, p[1].n)
              /\ \A j \in DOMAIN r : r[j] <= q[i].n \/ Owed(w, q, i, r[j])
              /\ \A j \in DOMAIN q : j < i => q[j].n <= q[i].n \/ Owed(w, q, i, q[j].n)
  <2>1. i + 1 \in DOMAIN p /\ q[i] = p[i + 1] /\ i \in Nat /\ 1 < i + 1
    BY <1>1
  <2>2. /\ k.current <= p[i + 1].n \/ Owed(w, p, i + 1, k.current)
        /\ \A j \in DOMAIN r : r[j] <= p[i + 1].n \/ Owed(w, p, i + 1, r[j])
        /\ \A j \in DOMAIN p : j < i + 1 => p[j].n <= p[i + 1].n \/ Owed(w, p, i + 1, p[j].n)
    BY <1>f, <1>10, <2>1 DEF Covered
  <2>3. ASSUME NEW j \in DOMAIN q, j < i PROVE q[j].n <= q[i].n \/ Owed(w, q, i, q[j].n)
    <3>1. j + 1 \in DOMAIN p /\ q[j] = p[j + 1] /\ j + 1 < i + 1
      BY <1>1, <2>1, <2>3
    <3> QED
      BY <1>7, <2>1, <2>2, <3>1
  <2> QED
    BY <1>1, <1>7, <2>1, <2>2, <2>3
<1>11. \A n : Owed(w, p, 1, n) => Owed(w, q, 0, n)
  BY <1>7
<1> QED
  BY <1>2, <1>3, <1>4, <1>5, <1>6, <1>8, <1>9, <1>10, <1>11 DEF q

\* What a snapshot s, no newer than any frame in the pipe allows, leaves true.
LEMMA GrownCache ==
  ASSUME NEW w \in Workers, NEW p \in Seq(Frames), NEW k \in Caches, NEW j \in Caches,
         NEW r \in Seq(Snapshots), Bounded(w, p, k, r), Ahead(w, p, k, r),
         NEW s \in Snapshots, s <= w.seq, \A i \in DOMAIN p : Event(p[i]) => s < p[i].n,
         j.heard = k.heard, j.current \in {k.current, s}, GenWithin(j, k, s)
  PROVE  Bounded(w, p, j, r) /\ Ahead(w, p, j, r)
<1>1. \A x \in Snapshots : Stored(j, x) => x = s \/ Stored(k, x)
  BY DEF GenWithin, Stored
<1>2. Bounded(w, p, j, r)
  BY <1>1 DEF Bounded
<1>3. ASSUME NEW i \in DOMAIN p, Event(p[i]) PROVE Unseen(j, r, p[i].n)
  <2>1. Unseen(k, r, p[i].n) /\ s < p[i].n
    BY <1>3 DEF Ahead
  <2> QED
    BY <1>1, <2>1 DEF Unseen
<1>4. Ahead(w, p, j, r)
  BY <1>3 DEF Ahead
<1> QED
  BY <1>2, <1>4

LEMMA EventFlow ==
  ASSUME NEW w \in Workers, NEW p \in Seq(Frames), NEW k \in Caches, NEW r \in Seq(Snapshots), NEW l,
         Flow(w, p, k, r, l), p # <<>>, Event(p[1]),
         NEW j \in Caches, j.heard = p[1].n, j.cache = None, j.current \in {k.current, None},
         \A s \in Snapshots : Stored(j, s) => Stored(k, s)
  PROVE  /\ Flow(w, Tail(p), j, r, l) /\ Due(w, Tail(p)) \subseteq Due(w, p) \cup {p[1].n}
         /\ \A s \in Int : Knows(k, s) => s < p[1].n /\ Knows(j, s)
<1> DEFINE q == Tail(p)
           n == p[1].n
<1>f. /\ Bounded(w, p, k, r) /\ Ordered(p) /\ Ahead(w, p, k, r) /\ Matched(w, p) /\ Alternating(w, p)
      /\ Open(w, p, k) /\ Current(k, l) /\ Covered(w, p, k, r)
  BY DEF Flow
<1>t. /\ Bounded(w, q, k, r) /\ Ordered(q) /\ Ahead(w, q, k, r)
      /\ Matched(w, q) /\ Alternating(w, q)
      /\ \A i \in DOMAIN q : Catchup(q[i]) =>
           /\ k.current <= q[i].n \/ Owed(w, q, i, k.current)
           /\ \A m \in DOMAIN r : r[m] <= q[i].n \/ Owed(w, q, i, r[m])
           /\ \A m \in DOMAIN q : m < i => q[m].n <= q[i].n \/ Owed(w, q, i, q[m].n)
      /\ \A m \in Int : Owed(w, p, 0, m) => (Catchup(p[1]) /\ m <= p[1].n) \/ Owed(w, q, 0, m)
      /\ \A m \in Sent(p) : m \in Sent(q) \/ m = n
  BY TailFlow
<1>1. /\ 1 \in DOMAIN p /\ p[1] \in Frames /\ q \in Seq(Frames)
      /\ \A i \in DOMAIN q : i \in Int /\ 1 < i + 1 /\ i + 1 \in DOMAIN p /\ q[i] = p[i + 1]
      /\ \A i \in DOMAIN p : i \in Int /\ (i # 1 => i - 1 \in DOMAIN q /\ q[i - 1] = p[i])
  BY TailEntries
<1>2. ~Catchup(p[1]) /\ n \in 1..MaxEvents /\ n \in Int
  BY <1>1, FrameFacts
<1>3. Unseen(k, r, n) /\ \A i \in DOMAIN w.transfers : n <= w.transfers[i].id
  BY <1>f, <1>1 DEF Ahead
<1>n. /\ w.seq \in Int /\ k.current \in Int /\ k.heard \in Int /\ j.current \in Int
      /\ \A i \in DOMAIN q : q[i].n \in Int
  BY <1>1, Numbers DEF Caches
<1>o. n <= w.seq
  BY <1>f, <1>1 DEF Bounded
<1> HIDE DEF q
<1>4. \A i \in DOMAIN q : n <= q[i].n /\ (Event(q[i]) => n < q[i].n)
  BY <1>f, <1>1 DEF Ordered
<1> HIDE DEF n
<1>5. Bounded(w, q, j, r)
  <2>1. j.current <= w.seq /\ j.heard <= w.seq
    <3>1. k.current <= w.seq /\ w.seq \in Nat
      BY <1>f, WorkerFacts DEF Bounded
    <3> QED
      BY <1>o, <3>1 DEF n
  <2>2. \A i \in DOMAIN q : j.heard <= q[i].n /\ q[i].n <= w.seq
    BY <1>t, <1>4 DEF Bounded, n
  <2>3. \A i \in DOMAIN w.transfers : j.heard <= w.transfers[i].id /\ w.transfers[i].id <= w.seq
    BY <1>t, <1>3 DEF Bounded, n
  <2> QED
    BY <1>t, <2>1, <2>2, <2>3 DEF Bounded
<1>6. Ahead(w, q, j, r)
  <2> SUFFICES ASSUME NEW i \in DOMAIN q, Event(q[i]) PROVE Unseen(j, r, q[i].n)
    BY <1>t DEF Ahead
  <2>1. Unseen(k, r, q[i].n) /\ j.heard < q[i].n
    BY <1>t, <1>4 DEF Ahead, n
  <2>2. j.current < q[i].n
    BY <1>n, <1>4, <1>2, <2>1 DEF Unseen
  <2> QED
    BY <2>1, <2>2 DEF Unseen
<1>7. Open(w, q, j)
  <2>1. \A f \in Frames : Opening(f) => ~Response(f)
    BY FrameFacts
  <2>2. ASSUME NEW i \in DOMAIN q, Closing(q[i]), \A m \in DOMAIN q : m < i => Response(q[m])
        PROVE  FALSE
    <3>1. i + 1 \in DOMAIN p /\ 1 < i + 1 /\ Closing(p[i + 1]) /\ i \in Int
      BY <1>1, <2>2
    <3>2. PICK m \in DOMAIN p : 1 < m /\ m < i + 1 /\ Opening(p[m])
      BY <1>f, <1>1, <3>1 DEF Alternating
    <3>3. m \in Int /\ m # 1
      BY <1>1, <3>2
    <3>4. m - 1 \in DOMAIN q /\ q[m - 1] = p[m] /\ m - 1 < i
      BY <1>1, <3>1, <3>2, <3>3, SMTT(30)
    <3>5. Response(p[m]) /\ p[m] \in Frames
      BY <2>2, <3>4
    <3> QED
      BY <2>1, <3>2, <3>5
  <2>3. ASSUME w.begun, \A m \in DOMAIN q : Response(q[m])
        PROVE  FALSE
    <3>2. PICK m \in DOMAIN p : 1 < m /\ Opening(p[m])
      BY <1>f, <1>1, <2>3 DEF Alternating
    <3>3. m \in Int /\ m # 1
      BY <1>1, <3>2
    <3>4. m - 1 \in DOMAIN q /\ q[m - 1] = p[m]
      BY <1>1, <3>3
    <3>5. Response(p[m]) /\ p[m] \in Frames
      BY <2>3, <3>4
    <3> QED
      BY <2>1, <3>2, <3>5
  <2> QED
    BY <2>2, <2>3 DEF Open
<1>8. Current(j, l)
  BY <1>3 DEF Current, Unseen, n
<1>9. \A s \in Int : Knows(k, s) => s < n /\ Knows(j, s)
  BY <1>2, <1>3, <1>n DEF Knows, Unseen, n
<1>10. Due(w, q) \subseteq Due(w, p) \cup {n}
  <2> SUFFICES ASSUME NEW m \in Due(w, q), m # n PROVE m \in Due(w, p)
    OBVIOUS
  <2>1. m \in 1..w.seq /\ m \in Int /\ m \notin Sent(q) /\ ~Owed(w, q, 0, m)
    BY <1>n DEF Due
  <2> QED
    BY <1>t, <1>2, <2>1 DEF Due
<1>11. Covered(w, q, j, r)
  <2>1. \A m \in Due(w, q) : Knows(j, m)
    <3> SUFFICES ASSUME NEW m \in Due(w, q) PROVE Knows(j, m)
      OBVIOUS
    <3>1. CASE m = n
      BY <1>2, <3>1 DEF Knows, n
    <3>2. CASE m # n
      <4>1. m \in Due(w, p) /\ m \in Int
        BY <1>10, <1>n, <3>2 DEF Due
      <4> QED
        BY <1>9, <1>f, <4>1 DEF Covered
    <3> QED
      BY <3>1, <3>2
  <2>2. \A i \in DOMAIN q : Catchup(q[i]) => j.current <= q[i].n \/ Owed(w, q, i, j.current)
    <3>1. CASE j.current = k.current
      BY <1>t, <3>1
    <3>2. CASE j.current = None
      <4>1. \A i \in DOMAIN q : q[i].n \in Snapshots
        BY <1>1, FrameFacts
      <4> QED
        BY <3>2, <4>1
    <3> QED
      BY <3>1, <3>2
  <2>3. \A i \in DOMAIN w.transfers : OwnCatchup(w.transfers[i]) => w.transfers[i].id = w.seq \/ w.catchup
    BY <1>f DEF Covered
  <2> QED
    BY <1>t, <2>1, <2>2, <2>3 DEF Covered
<1> QED
  BY <1>t, <1>5, <1>6, <1>7, <1>8, <1>9, <1>10, <1>11 DEF Flow, q, n

LEMMA ResponseFlow ==
  ASSUME NEW w \in Workers, NEW p \in Seq(Frames), NEW k \in Caches, NEW r \in Seq(Snapshots), NEW l,
         Flow(w, p, k, r, l), p # <<>>, Response(p[1])
  PROVE  LET t == Append(r, p[1].n) IN
         /\ t \in Seq(Snapshots) /\ Flow(w, Tail(p), k, t, l)
         /\ Due(w, Tail(p)) \subseteq Due(w, p)
<1> DEFINE q == Tail(p)
           n == p[1].n
           t == Append(r, n)
<1>f. /\ Bounded(w, p, k, r) /\ Ordered(p) /\ Ahead(w, p, k, r) /\ Matched(w, p) /\ Alternating(w, p)
      /\ Open(w, p, k) /\ Current(k, l) /\ Covered(w, p, k, r)
  BY DEF Flow
<1>t. /\ Bounded(w, q, k, r) /\ Ordered(q) /\ Ahead(w, q, k, r)
      /\ Matched(w, q) /\ Alternating(w, q)
      /\ \A i \in DOMAIN q : Catchup(q[i]) =>
           /\ k.current <= q[i].n \/ Owed(w, q, i, k.current)
           /\ n <= q[i].n \/ Owed(w, q, i, n)
           /\ \A m \in DOMAIN r : r[m] <= q[i].n \/ Owed(w, q, i, r[m])
           /\ \A m \in DOMAIN q : m < i => q[m].n <= q[i].n \/ Owed(w, q, i, q[m].n)
      /\ \A m \in Int : Owed(w, p, 0, m) => (Catchup(p[1]) /\ m <= p[1].n) \/ Owed(w, q, 0, m)
      /\ \A m \in Sent(p) : m \in Sent(q) \/ (Event(p[1]) /\ m = p[1].n)
  BY TailFlow
<1>1. /\ 1 \in DOMAIN p /\ p[1] \in Frames /\ q \in Seq(Frames)
      /\ \A i \in DOMAIN q : i \in Int /\ 1 < i + 1 /\ i + 1 \in DOMAIN p /\ q[i] = p[i + 1]
      /\ \A i \in DOMAIN p : i \in Int /\ (i # 1 => i - 1 \in DOMAIN q /\ q[i - 1] = p[i])
  BY TailEntries
<1>2. ~Catchup(p[1]) /\ ~Event(p[1]) /\ n \in Snapshots /\ n \in Int
  BY <1>1, FrameFacts
<1>n. w.seq \in Int
  BY Numbers
<1>3. n <= w.seq
  BY <1>f, <1>1 DEF Bounded
<1> HIDE DEF q
<1>4. \A i \in DOMAIN q : Event(q[i]) => n < q[i].n
  BY <1>f, <1>1 DEF Ordered
<1> HIDE DEF n
<1>5. /\ t \in Seq(Snapshots)
      /\ \A i \in DOMAIN t : t[i] = n \/ (i \in DOMAIN r /\ t[i] = r[i])
  BY <1>2, AppendEntries
<1> HIDE DEF t
<1>6. Bounded(w, q, k, t)
  BY <1>t, <1>3, <1>5 DEF Bounded
<1>7. Ahead(w, q, k, t)
  <2> SUFFICES ASSUME NEW i \in DOMAIN q, Event(q[i]) PROVE Unseen(k, t, q[i].n)
    BY <1>t DEF Ahead
  <2>1. Unseen(k, r, q[i].n) /\ n < q[i].n
    BY <1>t, <1>4 DEF Ahead
  <2> QED
    BY <1>5, <2>1 DEF Unseen
<1>8. Open(w, q, k)
  <2>1. ASSUME NEW i \in DOMAIN q, Closing(q[i]), \A m \in DOMAIN q : m < i => Response(q[m])
        PROVE  Opened(k, q[i].n)
    <3>1. i + 1 \in DOMAIN p /\ q[i] = p[i + 1] /\ i \in Int
      BY <1>1
    <3>2. ASSUME NEW m \in DOMAIN p, m < i + 1 PROVE Response(p[m])
      <4>1. CASE m # 1
        <5>1. m - 1 \in DOMAIN q /\ q[m - 1] = p[m] /\ m - 1 < i
          BY <1>1, <3>1, <3>2, <4>1
        <5> QED
          BY <2>1, <5>1
      <4> QED
        BY <4>1
    <3> QED
      BY <1>f, <2>1, <3>1, <3>2 DEF Open
  <2>2. ASSUME w.begun, \A m \in DOMAIN q : Response(q[m])
        PROVE  Opened(k, w.transfers[1].id)
    <3>1. \A m \in DOMAIN p : Response(p[m])
      BY <1>1, <2>2
    <3> QED
      BY <1>f, <2>2, <3>1 DEF Open
  <2> QED
    BY <2>1, <2>2 DEF Open
<1>9. Due(w, q) \subseteq Due(w, p)
  <2> SUFFICES ASSUME NEW m \in Due(w, q) PROVE m \in Due(w, p)
    OBVIOUS
  <2>1. m \in 1..w.seq /\ m \in Int /\ m \notin Sent(q) /\ ~Owed(w, q, 0, m)
    BY <1>n DEF Due
  <2> QED
    BY <1>t, <1>2, <2>1 DEF Due
<1>10. Covered(w, q, k, t)
  <2>1. \A i \in DOMAIN q : Catchup(q[i]) => \A m \in DOMAIN t : t[m] <= q[i].n \/ Owed(w, q, i, t[m])
    BY <1>t, <1>5
  <2>2. \A m \in Due(w, q) : Knows(k, m)
    BY <1>f, <1>9 DEF Covered
  <2>3. \A i \in DOMAIN w.transfers : OwnCatchup(w.transfers[i]) => w.transfers[i].id = w.seq \/ w.catchup
    BY <1>f DEF Covered
  <2> QED
    BY <1>t, <2>1, <2>2, <2>3 DEF Covered
<1> QED
  BY <1>f, <1>t, <1>5, <1>6, <1>7, <1>8, <1>9, <1>10 DEF Flow, q, n, t

LEMMA OpeningFlow ==
  ASSUME NEW w \in Workers, NEW p \in Seq(Frames), NEW k \in Caches, NEW r \in Seq(Snapshots), NEW l,
         Flow(w, p, k, r, l), p # <<>>, Opening(p[1])
  PROVE  LET j == Begun(k, p[1].n) IN
         /\ Flow(w, Tail(p), j, r, l) /\ Due(w, Tail(p)) \subseteq Due(w, p)
         /\ j \in Caches /\ \A s \in Int : Knows(k, s) => Knows(j, s)
<1> DEFINE q == Tail(p)
           n == p[1].n
           j == Begun(k, n)
<1>f. /\ Bounded(w, p, k, r) /\ Ordered(p) /\ Ahead(w, p, k, r) /\ Matched(w, p) /\ Alternating(w, p)
      /\ Open(w, p, k) /\ Current(k, l) /\ Covered(w, p, k, r)
  BY DEF Flow
<1>t. /\ Bounded(w, q, k, r) /\ Ordered(q) /\ Ahead(w, q, k, r)
      /\ Matched(w, q) /\ Alternating(w, q)
      /\ \A i \in DOMAIN q : Catchup(q[i]) =>
           /\ k.current <= q[i].n \/ Owed(w, q, i, k.current)
           /\ n <= q[i].n \/ Owed(w, q, i, n)
           /\ \A m \in DOMAIN r : r[m] <= q[i].n \/ Owed(w, q, i, r[m])
           /\ \A m \in DOMAIN q : m < i => q[m].n <= q[i].n \/ Owed(w, q, i, q[m].n)
      /\ \A m \in Int : Owed(w, p, 0, m) => (Catchup(p[1]) /\ m <= p[1].n) \/ Owed(w, q, 0, m)
      /\ \A m \in Sent(p) : m \in Sent(q) \/ (Event(p[1]) /\ m = p[1].n)
  BY TailFlow
<1>1. /\ 1 \in DOMAIN p /\ p[1] \in Frames /\ q \in Seq(Frames)
      /\ \A i \in DOMAIN q : i \in Int /\ 1 < i + 1 /\ i + 1 \in DOMAIN p /\ q[i] = p[i + 1]
      /\ \A i \in DOMAIN p : i \in Int /\ (i # 1 => 1 < i /\ i - 1 \in DOMAIN q /\ q[i - 1] = p[i])
  BY TailEntries
<1>2. ~Catchup(p[1]) /\ ~Event(p[1]) /\ ~Response(p[1]) /\ ~Closing(p[1]) /\ n \in Snapshots /\ n \in Int
  BY <1>1, FrameFacts
<1>n. w.seq \in Int /\ k.current \in Int /\ k.heard \in Int
  BY Numbers
<1>3. n <= w.seq /\ k.heard <= n
  BY <1>f, <1>1 DEF Bounded
<1> HIDE DEF q
<1>4. \A i \in DOMAIN q : Event(q[i]) => n < q[i].n
  BY <1>f, <1>1 DEF Ordered
<1> HIDE DEF n
<1>5. k.gen[n] # "none" => n <= k.current
  <2>1. Stored(k, n) => n <= k.current \/ n < k.heard
    BY <1>f, <1>2 DEF Current
  <2>2. Stored(k, n) => n <= k.current
    BY <1>2, <1>3, <1>n, <2>1
  <2> QED
    BY <2>2 DEF Stored
<1>6. /\ j \in Caches /\ j.heard = k.heard /\ k.current <= j.current /\ j.current \in {k.current, n}
      /\ j.cache \in {k.cache, None, n}
      /\ GenWithin(j, k, n)
      /\ Opened(j, n)
  BY <1>2, <1>5, BegunFacts
<1> HIDE DEF j
<1>7. Bounded(w, q, j, r) /\ Ahead(w, q, j, r)
  BY <1>1, <1>2, <1>3, <1>4, <1>6, <1>t, GrownCache
<1>8. Open(w, q, j)
  <2>1. \A f \in Frames : Closing(f) => ~Response(f)
    BY FrameFacts
  <2>2. ASSUME NEW i \in DOMAIN q, Closing(q[i]), \A m \in DOMAIN q : m < i => Response(q[m])
        PROVE  q[i].n = n
    <3>1. i + 1 \in DOMAIN p /\ q[i] = p[i + 1] /\ 1 < i + 1 /\ i \in Int /\ p[i + 1] \in Frames
      BY <1>1
    <3>2. PICK e \in DOMAIN p : /\ 1 < e /\ Closing(p[e]) /\ p[e].n = n
                                /\ \A m \in DOMAIN p : 1 < m /\ m < e => Response(p[m])
      BY <1>f, <1>1, <2>1, <2>2, <3>1 DEF Matched, n
    <3>3. e \in Int /\ e - 1 \in DOMAIN q /\ q[e - 1] = p[e] /\ p[e] \in Frames
      BY <1>1, <3>2
    <3>4. ~(e - 1 < i)
      BY <2>1, <2>2, <3>2, <3>3
    <3>5. ~(i + 1 < e)
      BY <2>1, <2>2, <3>1, <3>2
    <3>6. e = i + 1
      BY <3>1, <3>3, <3>4, <3>5
    <3> QED
      BY <3>1, <3>2, <3>6
  <2>3. ASSUME w.begun, \A m \in DOMAIN q : Response(q[m])
        PROVE  w.transfers[1].id = n
    <3>1. ASSUME NEW e \in DOMAIN p, 1 < e, Closing(p[e]) PROVE FALSE
      <4>1. e - 1 \in DOMAIN q /\ q[e - 1] = p[e] /\ p[e] \in Frames
        BY <1>1, <3>1
      <4> QED
        BY <2>1, <2>3, <3>1, <4>1
    <3> QED
      BY <1>f, <1>1, <3>1 DEF Matched, n
  <2> QED
    BY <1>6, <2>2, <2>3 DEF Open
<1>9. Current(j, l)
  <2>1. j.current \in Int
    BY <1>n, <1>2, <1>6
  <2>2. ASSUME NEW s \in Snapshots, Stored(j, s) PROVE s <= j.current \/ s < j.heard
    <3>1. CASE s = n
      BY <1>6, <3>1 DEF Opened
    <3>2. CASE s # n
      <4>1. Stored(k, s)
        BY <1>6, <2>2, <3>2 DEF GenWithin, Stored
      <4>2. s <= k.current \/ s < k.heard
        BY <1>f, <4>1 DEF Current
      <4> QED
        BY <1>6, <1>n, <2>1, <4>2
    <3> QED
      BY <3>1, <3>2
  <2>3. j.cache # None => j.cache \in l \/ j.heard <= j.cache
    BY <1>f, <1>3, <1>6 DEF Current
  <2> QED
    BY <2>2, <2>3 DEF Current
<1>10. \A s \in Int : Knows(k, s) => Knows(j, s)
  BY <1>2, <1>6, <1>n DEF Knows
<1>11. Due(w, q) \subseteq Due(w, p)
  <2> SUFFICES ASSUME NEW m \in Due(w, q) PROVE m \in Due(w, p)
    OBVIOUS
  <2>1. m \in 1..w.seq /\ m \in Int /\ m \notin Sent(q) /\ ~Owed(w, q, 0, m)
    BY <1>n DEF Due
  <2> QED
    BY <1>t, <1>2, <2>1 DEF Due
<1>12. Covered(w, q, j, r)
  <2>1. \A i \in DOMAIN q : Catchup(q[i]) => j.current <= q[i].n \/ Owed(w, q, i, j.current)
    BY <1>t, <1>6
  <2>2. \A m \in Due(w, q) : Knows(j, m)
    BY <1>f, <1>10, <1>11, <1>n DEF Covered, Due
  <2>3. \A i \in DOMAIN w.transfers : OwnCatchup(w.transfers[i]) => w.transfers[i].id = w.seq \/ w.catchup
    BY <1>f DEF Covered
  <2> QED
    BY <1>t, <2>1, <2>2, <2>3 DEF Covered
<1> QED
  BY <1>t, <1>6, <1>7, <1>8, <1>9, <1>10, <1>11, <1>12 DEF Flow, q, n, j

\* If the end of the worker's catch-up finds its snapshot outdated, another is owed.
LEMMA ClosingFlow ==
  ASSUME NEW w \in Workers, NEW p \in Seq(Frames), NEW k \in Caches, NEW r \in Seq(Snapshots), NEW l,
         Flow(w, p, k, r, l), p # <<>>, Closing(p[1])
  PROVE  LET j == Ended(k, p[1].n) IN
         /\ Flow(w, Tail(p), j, r, l)
         /\ (Published(k, p[1].n) /\ Catchup(p[1])) \/ Due(w, Tail(p)) \subseteq Due(w, p)
         /\ j \in Caches /\ \A s \in Int : Knows(k, s) => Knows(j, s)
<1> DEFINE q == Tail(p)
           n == p[1].n
           j == Ended(k, n)
<1>f. /\ Bounded(w, p, k, r) /\ Ordered(p) /\ Ahead(w, p, k, r) /\ Matched(w, p) /\ Alternating(w, p)
      /\ Open(w, p, k) /\ Current(k, l) /\ Covered(w, p, k, r)
  BY DEF Flow
<1>t. /\ Bounded(w, q, k, r) /\ Ordered(q) /\ Ahead(w, q, k, r)
      /\ Matched(w, q) /\ Alternating(w, q)
      /\ \A i \in DOMAIN q : Catchup(q[i]) =>
           /\ k.current <= q[i].n \/ Owed(w, q, i, k.current)
           /\ \A m \in DOMAIN r : r[m] <= q[i].n \/ Owed(w, q, i, r[m])
           /\ \A m \in DOMAIN q : m < i => q[m].n <= q[i].n \/ Owed(w, q, i, q[m].n)
      /\ \A m : Owed(w, p, 1, m) => Owed(w, q, 0, m)
      /\ \A m \in Int : Owed(w, p, 0, m) => (Catchup(p[1]) /\ m <= n) \/ Owed(w, q, 0, m)
      /\ \A m \in Sent(p) : m \in Sent(q) \/ (Event(p[1]) /\ m = p[1].n)
  BY TailFlow
<1>1. /\ 1 \in DOMAIN p /\ p[1] \in Frames /\ q \in Seq(Frames)
      /\ \A i \in DOMAIN q : i \in Int /\ 1 < i + 1 /\ i + 1 \in DOMAIN p /\ q[i] = p[i + 1]
      /\ \A i \in DOMAIN p : i \in Int /\ 1 <= i /\ (i # 1 => 1 < i /\ i - 1 \in DOMAIN q /\ q[i - 1] = p[i])
  BY TailEntries
<1>2. ~Event(p[1]) /\ n \in Snapshots /\ n \in Int
  BY <1>1, FrameFacts
<1>n. w.seq \in Int /\ k.current \in Int /\ k.heard \in Int
  BY Numbers
<1>3. k.heard <= n
  BY <1>f, <1>1 DEF Bounded
<1> HIDE DEF q
<1>4. Opened(k, n)
  <2>1. \A i \in DOMAIN p : ~(i < 1)
    BY <1>1
  <2> QED
    BY <1>f, <1>1, <2>1 DEF Open
<1>5. /\ j \in Caches /\ j.heard = k.heard /\ j.current = k.current
      /\ j.cache = k.cache \/ (j.cache = n /\ k.current = n)
      /\ \A s \in Snapshots : Stored(j, s) => Stored(k, s)
  BY <1>2, EndedFacts DEF Stored
<1> HIDE DEF n, j
<1>6. Bounded(w, q, j, r) /\ Ahead(w, q, j, r)
  <2>1. Bounded(w, q, j, r)
    BY <1>t, <1>5 DEF Bounded
  <2>2. Ahead(w, q, j, r)
    BY <1>t, <1>5 DEF Ahead, Unseen
  <2> QED
    BY <2>1, <2>2
<1>7. Open(w, q, j)
  <2>1. \A f \in Frames : Opening(f) => ~Response(f)
    BY FrameFacts
  <2>2. ASSUME NEW i \in DOMAIN q, Closing(q[i]), \A m \in DOMAIN q : m < i => Response(q[m])
        PROVE  FALSE
    <3>1. i + 1 \in DOMAIN p /\ 1 < i + 1 /\ Closing(p[i + 1]) /\ i \in Int
      BY <1>1, <2>2
    <3>2. PICK m \in DOMAIN p : 1 < m /\ m < i + 1 /\ Opening(p[m])
      BY <1>f, <1>1, <3>1 DEF Alternating
    <3>3. m \in Int /\ m # 1
      BY <1>1, <3>2
    <3>4. m - 1 \in DOMAIN q /\ q[m - 1] = p[m] /\ m - 1 < i
      BY <1>1, <3>1, <3>2, <3>3, SMTT(30)
    <3>5. Response(p[m]) /\ p[m] \in Frames
      BY <2>2, <3>4
    <3> QED
      BY <2>1, <3>2, <3>5
  <2>3. ASSUME w.begun, \A m \in DOMAIN q : Response(q[m])
        PROVE  FALSE
    <3>2. PICK m \in DOMAIN p : 1 < m /\ Opening(p[m])
      BY <1>f, <1>1, <2>3 DEF Alternating
    <3>3. m \in Int /\ m # 1
      BY <1>1, <3>2
    <3>4. m - 1 \in DOMAIN q /\ q[m - 1] = p[m]
      BY <1>1, <3>3
    <3>5. Response(p[m]) /\ p[m] \in Frames
      BY <2>3, <3>4
    <3> QED
      BY <2>1, <3>2, <3>5
  <2> QED
    BY <2>2, <2>3 DEF Open
<1>8. Current(j, l)
  BY <1>f, <1>3, <1>5 DEF Current
<1>9. \A s \in Int : Knows(k, s) => Knows(j, s)
  BY <1>5 DEF Knows
<1>10. (Published(k, n) /\ Catchup(p[1])) \/ Due(w, q) \subseteq Due(w, p)
  <2> SUFFICES ASSUME ~(Published(k, n) /\ Catchup(p[1])), NEW m \in Due(w, q) PROVE m \in Due(w, p)
    OBVIOUS
  <2>1. m \in 1..w.seq /\ m \in Int /\ m \notin Sent(q) /\ ~Owed(w, q, 0, m)
    BY <1>n DEF Due
  <2>2. CASE ~Catchup(p[1])
    BY <1>t, <1>2, <2>1, <2>2 DEF Due
  <2>3. CASE Catchup(p[1])
    <3>1. n < k.current
      BY <1>2, <1>4, <1>n, <2>3 DEF Opened, Published, Transferring
    <3>2. Owed(w, q, 0, k.current)
      <4>1. k.current <= n \/ Owed(w, p, 1, k.current)
        BY <1>f, <1>1, <2>3 DEF Covered, n
      <4> QED
        BY <1>t, <1>2, <1>n, <3>1, <4>1
    <3>3. ~(m <= n)
      <4>1. ASSUME m <= n PROVE FALSE
        <5>1. m <= k.current
          BY <1>2, <1>n, <2>1, <3>1, <4>1
        <5>2. Owed(w, q, 0, m)
          BY <1>1, <1>n, <2>1, <3>2, <5>1, OwedDown
        <5> QED
          BY <2>1, <5>2
      <4> QED
        BY <4>1
    <3> QED
      BY <1>t, <1>2, <2>1, <3>3 DEF Due
  <2> QED
    BY <2>2, <2>3
<1>11. Covered(w, q, j, r)
  <2>1. ASSUME NEW m \in Due(w, q) PROVE Knows(j, m)
    <3>1. m \in 1..w.seq /\ m \in Int /\ m \notin Sent(q) /\ ~Owed(w, q, 0, m)
      BY <1>n DEF Due
    <3>2. CASE m <= n
      <4>1. m <= k.current
        BY <1>2, <1>4, <1>n, <3>1, <3>2 DEF Opened
      <4> QED
        BY <1>5, <4>1 DEF Knows
    <3>3. CASE ~(m <= n)
      <4>1. m \in Due(w, p)
        BY <1>t, <1>2, <3>1, <3>3 DEF Due
      <4> QED
        BY <1>f, <1>9, <3>1, <4>1 DEF Covered
    <3> QED
      BY <3>2, <3>3
  <2>2. \A i \in DOMAIN w.transfers : OwnCatchup(w.transfers[i]) => w.transfers[i].id = w.seq \/ w.catchup
    BY <1>f DEF Covered
  <2>3. \A i \in DOMAIN q : Catchup(q[i]) => j.current <= q[i].n \/ Owed(w, q, i, j.current)
    BY <1>t, <1>5
  <2> QED
    BY <1>t, <2>1, <2>2, <2>3 DEF Covered
<1> QED
  BY <1>t, <1>5, <1>6, <1>7, <1>8, <1>9, <1>10, <1>11 DEF Flow, q, n, j

\* The continuation of a response: r loses its head, and the caches may take its snapshot.
LEMMA LoadedFlow ==
  ASSUME NEW w \in Workers, NEW p \in Seq(Frames), NEW k \in Caches, NEW r \in Seq(Snapshots), NEW l,
         Flow(w, p, k, r, l), r # <<>>, NEW observed \in Snapshots \cup {None}, NEW m,
         LET j == CacheLoaded(k, Head(r), observed) IN
           l \subseteq m /\ (j.cache # None => j.cache \in m \/ j.heard <= j.cache)
  PROVE  LET j == CacheLoaded(k, Head(r), observed) IN
         /\ Flow(w, p, j, Tail(r), m) /\ Flow(w, p, k, Tail(r), l)
         /\ \A s \in Int : Knows(k, s) => Knows(j, s)
<1> DEFINE t == Tail(r)
           n == Head(r)
           j == CacheLoaded(k, n, observed)
<1>f. /\ Bounded(w, p, k, r) /\ Ordered(p) /\ Ahead(w, p, k, r) /\ Matched(w, p) /\ Alternating(w, p)
      /\ Open(w, p, k) /\ Current(k, l) /\ Covered(w, p, k, r)
  BY DEF Flow
<1>1. /\ 1 \in DOMAIN r /\ n = r[1] /\ n \in Snapshots /\ t \in Seq(Snapshots)
      /\ \A i \in DOMAIN t : i + 1 \in DOMAIN r /\ t[i] = r[i + 1]
  BY TailEntries
<1>n. w.seq \in Int /\ k.current \in Int /\ k.heard \in Int /\ n \in Int
  BY <1>1, Numbers
<1>2. j.cache # None => j.cache \in m \/ j.heard <= j.cache
  OBVIOUS
<1> HIDE DEF t, n
<1>3. /\ j \in Caches /\ j.heard = k.heard /\ k.current <= j.current
      /\ j.current \in {k.current, n}
      /\ GenWithin(j, k, n)
      /\ GenKept(j, k)
      /\ j.current = n \/ j = k
  <2>1. /\ j \in Caches /\ j.heard = k.heard /\ k.current <= j.current
        /\ IF Outrun(k, n, observed) THEN j = k /\ k.current # None
           ELSE j.current = n /\ j.cache = n
        /\ GenWithin(j, k, n) /\ GenKept(j, k)
    BY <1>1, CacheLoadedFacts, ZenonT(60)
  <2> HIDE DEF j
  <2>2. Outrun(k, n, observed) \in BOOLEAN
    BY DEF Outrun
  <2>3. CASE Outrun(k, n, observed)
    BY <2>1, <2>3
  <2>4. CASE ~Outrun(k, n, observed)
    BY <2>1, <2>4
  <2> QED
    BY <2>2, <2>3, <2>4
<1> HIDE DEF j
<1>4. n <= w.seq /\ \A i \in DOMAIN p : Event(p[i]) => n < p[i].n
  BY <1>1, <1>f DEF Bounded, Ahead, Unseen
<1>5. Bounded(w, p, k, t) /\ Ahead(w, p, k, t) /\ Covered(w, p, k, t)
  <2>1. Bounded(w, p, k, t)
    BY <1>1, <1>f DEF Bounded
  <2>2. Ahead(w, p, k, t)
    BY <1>1, <1>f DEF Ahead, Unseen
  <2>3. Covered(w, p, k, t)
    BY <1>1, <1>f DEF Covered
  <2> QED
    BY <2>1, <2>2, <2>3
<1>6. Bounded(w, p, j, t) /\ Ahead(w, p, j, t)
  BY <1>1, <1>3, <1>4, <1>5, GrownCache
<1>7. Open(w, p, j)
  <2>1. ASSUME NEW s \in Snapshots, Opened(k, s) PROVE Opened(j, s)
    <3>1. s <= k.current /\ k.current <= j.current /\ j.current \in Int /\ s \in Int
      BY <1>3, <1>n, <2>1 DEF Opened
    <3>2. s <= j.current
      BY <1>n, <3>1
    <3>3. ASSUME j.current = s PROVE j.gen[s] \in Transferring
      <4>1. k.current = s
        BY <1>n, <3>1, <3>3
      <4> QED
        BY <1>3, <2>1, <4>1 DEF Opened, GenKept
    <3> QED
      BY <3>2, <3>3 DEF Opened
  <2>2. \A i \in DOMAIN p : p[i].n \in Snapshots
    BY FrameFacts
  <2>3. w.begun => w.transfers[1].id \in Snapshots
    <3>1. w.begun => 1 \in DOMAIN w.transfers
      BY <1>f, WorkerFacts, TailEntries DEF Matched
    <3> QED
      BY <3>1, WorkerFacts
  <2> QED
    BY <1>f, <2>1, <2>2, <2>3 DEF Open
<1>8. Current(j, m)
  <2>1. j.current \in Int
    BY <1>3, <1>n
  <2>2. ASSUME NEW s \in Snapshots, Stored(j, s) PROVE s <= j.current \/ s < j.heard
    <3>1. CASE j = k
      BY <1>f, <2>2, <3>1 DEF Current
    <3>2. CASE j.current = n /\ s = n
      BY <1>n, <3>2
    <3>3. CASE s # n
      <4>1. Stored(k, s)
        BY <1>3, <2>2, <3>3 DEF GenWithin, Stored
      <4>2. s <= k.current \/ s < k.heard
        BY <1>f, <4>1 DEF Current
      <4> QED
        BY <1>3, <1>n, <2>1, <4>2
    <3> QED
      BY <1>3, <3>1, <3>2, <3>3
  <2> QED
    BY <1>2, <2>2 DEF Current
<1>9. \A s \in Int : Knows(k, s) => Knows(j, s)
  <2>1. j.current \in Int
    BY <1>3, <1>n
  <2> QED
    BY <1>3, <1>n, <2>1 DEF Knows
<1>10. Covered(w, p, j, t)
  <2>1. \A i \in DOMAIN p : Catchup(p[i]) => j.current <= p[i].n \/ Owed(w, p, i, j.current)
    BY <1>1, <1>3, <1>f DEF Covered
  <2>2. \A s \in Due(w, p) : Knows(j, s)
    BY <1>9, <1>f, <1>n DEF Covered, Due
  <2> QED
    BY <1>5, <2>1, <2>2 DEF Covered
<1> QED
  BY <1>f, <1>5, <1>6, <1>7, <1>8, <1>9, <1>10 DEF Flow, t, n, j

-------------------------------------------------------------------------------
(* A client with view u and connection q, and a supervisor with caches k.  *)
(* due: the events that are neither on their way nor owed by the worker    *)

Socket(q) ==
  /\ ~q.blocked => Len(q.out) < HighWater
  /\ q.stage = "loaded" \/ Streaming(q) => q.snap # None
  /\ Count(q.out, "event") <= HighWater
  /\ \A i \in DOMAIN q.out : Event(q.out[i]) => q.out[i].n # 0

\* The supervisor knows what it shows, and an event that it sends is new.
Shown(k, u, q) ==
  /\ Knows(k, u.cursor)
  /\ \A m \in u.view : Knows(k, m)
  /\ Streaming(q) => Knows(k, q.snap)
  /\ \A i \in DOMAIN q.out : Knows(k, q.out[i].n)
  /\ \A i \in DOMAIN q.out : Event(q.out[i]) =>
       u.cursor < q.out[i].n /\ \A j \in DOMAIN q.out : j < i => q.out[j].n < q.out[i].n

\* The client has event n, or will once it has read its socket.
Reflected(u, q, n) ==
  \/ n \in u.view
  \/ \E i \in DOMAIN q.out : Event(q.out[i]) /\ q.out[i].n = n
  \/ \E i \in DOMAIN q.out : Closing(q.out[i]) /\ n <= q.out[i].n

\* A snapshot takes nothing back that was shown before it.
Complete(u, q) ==
  /\ \A i \in DOMAIN q.out : Closing(q.out[i]) =>
       /\ \A m \in u.view : m <= q.out[i].n
       /\ \A j \in DOMAIN q.out : j < i => q.out[j].n <= q.out[i].n
  /\ Streaming(q) => /\ \A m \in u.view : m <= q.snap
                     /\ \A j \in DOMAIN q.out : q.out[j].n <= q.snap
  /\ q.stage = "endWait" => \A n \in 1..q.snap : Reflected(u, q, n)

Follows(due, u, q) ==
  ~q.pending => \A n \in due : /\ q.stage = "idle" => Reflected(u, q, n)
                               /\ Streaming(q) => n <= q.snap

\* lacks: the client is marked as missing an event.
Client(k, due, u, q, lacks) ==
  /\ Socket(q)
  /\ Shown(k, u, q)
  /\ ~lacks => Complete(u, q) /\ Follows(due, u, q)

LEMMA ClientNumbers ==
  ASSUME NEW k \in Caches, NEW u \in Views, NEW q \in Conns
  PROVE  /\ k.current \in Int /\ k.heard \in Nat /\ u.cursor \in Int /\ q.snap \in Int
         /\ q.out \in Seq(Records) /\ u.view \subseteq Int
         /\ \A i \in DOMAIN q.out : i \in Int /\ q.out[i].n \in Snapshots /\ q.out[i].n \in Int
<1>1. q.out \in Seq(Records)
  BY DEF Conns
<1>2. \A e \in Records : e.n \in Snapshots
  BY DEF Records
<1>3. \A i \in DOMAIN q.out : i \in Int /\ q.out[i].n \in Snapshots /\ q.out[i].n \in Int
  BY <1>1, <1>2
<1>4. u.view \subseteq Int /\ u.cursor \in Int
  BY DEF Views
<1> QED
  BY <1>1, <1>3, <1>4 DEF Caches, Conns

LEMMA ClientKept ==
  ASSUME NEW k \in Caches, NEW j \in Caches, NEW u \in Views, NEW q \in Conns, NEW due, NEW due2,
         NEW lacks \in BOOLEAN, NEW lacks2 \in BOOLEAN, Client(k, due, u, q, lacks),
         \A s \in Int : Knows(k, s) => Knows(j, s), due2 \subseteq due, lacks => lacks2
  PROVE  Client(j, due2, u, q, lacks2)
<1>1. Shown(j, u, q)
  BY ClientNumbers DEF Client, Shown
<1>2. Follows(due, u, q) => Follows(due2, u, q)
  BY DEF Follows
<1> QED
  BY <1>1, <1>2 DEF Client

\* A connection whose client is not being served, with the same records in its socket.
LEMMA ClientWaits ==
  ASSUME NEW k \in Caches, NEW u \in Views, NEW q \in Conns, NEW p \in Conns, NEW due, NEW due2,
         NEW lacks \in BOOLEAN, NEW lacks2 \in BOOLEAN, Client(k, due, u, q, lacks), lacks => lacks2,
         p.out = q.out, p.blocked = q.blocked,
         p.stage \in {"none", "seeking", "loading", "loaded"}, p.stage = "loaded" => p.snap # None
  PROVE  Client(k, due2, u, p, lacks2)
<1>1. ~Streaming(p) /\ p.stage # "idle" /\ p.stage # "endWait"
  BY DEF Streaming
<1>2. Socket(p)
  BY <1>1 DEF Client, Socket
<1>3. Shown(k, u, p)
  BY <1>1 DEF Client, Shown
<1>4. Complete(u, q) => Complete(u, p)
  BY <1>1 DEF Complete
<1>5. Follows(due2, u, p)
  BY <1>1 DEF Follows
<1> QED
  BY <1>2, <1>3, <1>4, <1>5 DEF Client

\* A connection that differs in nothing that the invariant speaks of.
LEMMA ClientSame ==
  ASSUME NEW k \in Caches, NEW u \in Views, NEW q \in Conns, NEW p \in Conns, NEW due,
         NEW lacks \in BOOLEAN, Client(k, due, u, q, lacks),
         p.out = q.out, p.blocked = q.blocked, p.stage = q.stage, p.snap = q.snap,
         p.pending = q.pending
  PROVE  Client(k, due, u, p, lacks)
<1>1. Streaming(p) <=> Streaming(q)
  BY DEF Streaming
<1>2. Socket(p)
  BY <1>1 DEF Client, Socket
<1>3. Shown(k, u, p)
  BY <1>1 DEF Client, Shown
<1>r. \A n : Reflected(u, q, n) => Reflected(u, p, n)
  BY DEF Reflected
<1>4. Complete(u, q) => Complete(u, p)
  BY <1>1, <1>r DEF Complete
<1>5. Follows(due, u, q) => Follows(due, u, p)
  BY <1>1, <1>r DEF Follows
<1> QED
  BY <1>2, <1>3, <1>4, <1>5 DEF Client

LEMMA ClientClosed ==
  ASSUME NEW k \in Caches, NEW u \in Views, NEW q \in Conns, NEW due, NEW due2,
         NEW lacks \in BOOLEAN, NEW lacks2 \in BOOLEAN, Client(k, due, u, q, lacks)
  PROVE  Client(k, due2, u, Closed, lacks2)
<1> DEFINE p == Closed
<1>1. /\ p \in Conns /\ p.out = <<>> /\ p.stage = "none" /\ p.blocked = FALSE
  BY ClosedFacts
<1> HIDE DEF p
<1>2. ~Streaming(p) /\ p.stage # "idle" /\ p.stage # "endWait" /\ p.stage # "loaded"
  BY <1>1 DEF Streaming
<1>3. DOMAIN p.out = {} /\ Len(p.out) = 0
  BY <1>1
<1>4. Count(p.out, "event") = 0
  <2>1. {i \in DOMAIN p.out : p.out[i].t = "event"} = {}
    BY <1>3
  <2> QED
    BY <2>1, FS_EmptySet DEF Count
<1>5. Socket(p)
  BY <1>2, <1>3, <1>4 DEF Socket
<1>6. Shown(k, u, p)
  BY <1>2, <1>3 DEF Client, Shown
<1>7. Complete(u, p)
  BY <1>2, <1>3 DEF Complete
<1>8. Follows(due2, u, p)
  BY <1>2 DEF Follows
<1>9. Client(k, due2, u, p, lacks2)
  BY <1>5, <1>6, <1>7, <1>8 DEF Client
<1> QED
  BY <1>9 DEF p

LEMMA RecordFacts ==
  /\ \A n \in Snapshots, t \in {"response", "begin", "end", "event"} :
       LET e == [t |-> t, n |-> n] IN
       /\ e \in Records /\ e.n = n
       /\ Event(e) <=> t = "event"
       /\ Closing(e) <=> t = "end"
  /\ \A e \in Records : /\ Event(e) => ~Closing(e)
                        /\ Event(e) <=> e.t = "event"
                        /\ e.t \in {"response", "begin"} => ~Event(e) /\ ~Closing(e)
BY DEF Records, Event, Closing

\* A record behind the others in a socket that is not blocked.
LEMMA WrittenEvents ==
  ASSUME NEW q \in Conns, Socket(q), ~q.blocked, NEW e \in Records
  PROVE  Count(Append(q.out, e), "event") <= HighWater
<1>1. q.out \in Seq(Records)
  BY DEF Conns
<1>2. Count(Append(q.out, e), "event") = Count(q.out, "event") + (IF e.t = "event" THEN 1 ELSE 0)
  BY <1>1, CountAppend
<1>3. Count(q.out, "event") \in Nat /\ Count(q.out, "event") <= Len(q.out) /\ Len(q.out) \in Nat
  <2>1. Len(q.out) \in Nat
    BY <1>1
  <2> QED
    BY <1>1, <2>1, CountBound
<1>4. Len(q.out) < HighWater
  BY DEF Socket
<1> DEFINE one == IF e.t = "event" THEN 1 ELSE 0
<1>5. one \in {0, 1}
  OBVIOUS
<1>6. Count(Append(q.out, e), "event") = Count(q.out, "event") + one
  BY <1>2
<1> HIDE DEF one
<1> QED
  BY <1>3, <1>4, <1>5, <1>6

LEMMA ClientForward ==
  ASSUME NEW k \in Caches, NEW j \in Caches, NEW u \in Views, NEW q \in Conns,
         NEW due, NEW due2, NEW n \in Snapshots, n # 0,
         NEW lacks \in BOOLEAN, Client(k, due, u, q, lacks),
         \A s \in Int : Knows(k, s) => s < n /\ Knows(j, s), Knows(j, n), due2 \subseteq due \cup {n}
  PROVE  Client(j, due2, u, Forward(q, n), lacks)
<1> DEFINE p == Forward(q, n)
           e == [t |-> "event", n |-> n]
<1>1. /\ p \in Conns /\ p.stage = q.stage /\ p.snap = q.snap
      /\ \/ ~Attached(q) /\ p = q
         \/ p.out = q.out /\ p.blocked = q.blocked /\ p.pending
         \/ /\ ~Streaming(q) /\ ~q.blocked /\ p.pending = q.pending
            /\ p.out = Append(q.out, e) /\ p.blocked = ~Accepts(q)
  BY ForwardFacts
<1>2. e \in Records /\ Event(e) /\ ~Closing(e) /\ e.n = n /\ e.t = "event"
  BY RecordFacts
<1> HIDE DEF p, e
<1>n. /\ k.current \in Int /\ k.heard \in Nat /\ u.cursor \in Int /\ q.snap \in Int
      /\ q.out \in Seq(Records) /\ u.view \subseteq Int
      /\ \A i \in DOMAIN q.out : i \in Int /\ q.out[i].n \in Int
  BY ClientNumbers
<1>3. Streaming(p) <=> Streaming(q)
  BY <1>1 DEF Streaming
<1>4. ASSUME p.out = q.out, p.blocked = q.blocked, p.pending \/ ~Attached(q)
      PROVE  Client(j, due2, u, p, lacks)
  <2>1. Socket(p)
    BY <1>1, <1>3, <1>4 DEF Client, Socket
  <2>2. Shown(j, u, p)
    BY <1>1, <1>3, <1>4, <1>n DEF Client, Shown
  <2>3. Complete(u, q) => Complete(u, p)
    BY <1>1, <1>3, <1>4 DEF Complete, Reflected
  <2>4. ~Attached(q) => ~Streaming(q) /\ q.stage # "idle"
    BY DEF Attached, Streaming
  <2>5. Follows(due2, u, p)
    BY <1>1, <1>3, <1>4, <2>4 DEF Follows
  <2> QED
    BY <2>1, <2>2, <2>3, <2>5 DEF Client
<1>5. ASSUME ~Streaming(q), ~q.blocked, p.pending = q.pending,
             p.out = Append(q.out, e), p.blocked = ~Accepts(q)
      PROVE  Client(j, due2, u, p, lacks)
  <2> DEFINE last == Len(q.out) + 1
  <2>1. /\ last \in Int /\ last \in DOMAIN p.out /\ p.out[last] = e
        /\ \A i \in DOMAIN q.out : i \in Int /\ i < last /\ i \in DOMAIN p.out /\ p.out[i] = q.out[i]
        /\ \A i \in DOMAIN p.out : i = last \/ i \in DOMAIN q.out
        /\ Len(p.out) = Len(q.out) + 1
    BY <1>2, <1>5, <1>n, AppendEntries
  <2> HIDE DEF last
  <2>2. Socket(p)
    <3>1. Count(p.out, "event") <= HighWater
      BY <1>2, <1>5, WrittenEvents DEF Client
    <3>2. ~p.blocked => Len(p.out) < HighWater
      BY <1>5, <2>1 DEF Accepts
    <3>3. \A i \in DOMAIN p.out : Event(p.out[i]) => p.out[i].n # 0
      BY <1>2, <2>1 DEF Client, Socket
    <3> QED
      BY <1>1, <1>3, <1>5, <3>1, <3>2, <3>3 DEF Client, Socket
  <2>3. Shown(j, u, p)
    <3>1. \A i \in DOMAIN q.out : Knows(k, q.out[i].n) /\ q.out[i].n < n /\ Knows(j, q.out[i].n)
      BY <1>n DEF Client, Shown
    <3>2. /\ Knows(j, u.cursor) /\ u.cursor < n
          /\ \A m \in u.view : Knows(j, m)
      BY <1>n DEF Client, Shown
    <3>3. \A i \in DOMAIN p.out : Knows(j, p.out[i].n)
      BY <1>2, <2>1, <3>1
    <3>4. ASSUME NEW i \in DOMAIN p.out, Event(p.out[i])
          PROVE  u.cursor < p.out[i].n /\ \A m \in DOMAIN p.out : m < i => p.out[m].n < p.out[i].n
      <4>1. CASE i = last
        BY <1>2, <2>1, <3>1, <3>2, <4>1
      <4>2. CASE i \in DOMAIN q.out
        <5>1. u.cursor < q.out[i].n /\ \A m \in DOMAIN q.out : m < i => q.out[m].n < q.out[i].n
          BY <2>1, <3>4, <4>2 DEF Client, Shown
        <5> QED
          BY <2>1, <4>2, <5>1
      <4> QED
        BY <2>1, <4>1, <4>2
    <3> QED
      BY <1>3, <1>5, <3>2, <3>3, <3>4 DEF Shown
  <2>4. \A m : m = n \/ Reflected(u, q, m) => Reflected(u, p, m)
    BY <1>2, <2>1 DEF Reflected
  <2>5. Complete(u, q) => Complete(u, p)
    <3>1. q.stage # "endWait"
      BY <1>5 DEF Streaming
    <3>2. \A i \in DOMAIN p.out : Closing(p.out[i]) => i \in DOMAIN q.out /\ Closing(q.out[i])
      BY <1>2, <2>1
    <3>3. \A i \in DOMAIN q.out, m \in DOMAIN p.out : m < i => m \in DOMAIN q.out
      BY <2>1
    <3>4. ASSUME Complete(u, q), NEW i \in DOMAIN p.out, Closing(p.out[i])
          PROVE  /\ \A m \in u.view : m <= p.out[i].n
                 /\ \A m \in DOMAIN p.out : m < i => p.out[m].n <= p.out[i].n
      <4>1. i \in DOMAIN q.out /\ Closing(q.out[i]) /\ p.out[i] = q.out[i]
        BY <2>1, <3>2, <3>4
      <4>2. /\ \A m \in u.view : m <= q.out[i].n
            /\ \A m \in DOMAIN q.out : m < i => q.out[m].n <= q.out[i].n
        BY <3>4, <4>1 DEF Complete
      <4> QED
        BY <2>1, <3>3, <4>1, <4>2
    <3> QED
      BY <1>1, <1>3, <1>5, <3>1, <3>4 DEF Complete
  <2>6. Follows(due, u, q) => Follows(due2, u, p)
    BY <1>1, <1>3, <1>5, <2>4 DEF Follows
  <2> QED
    BY <2>2, <2>3, <2>5, <2>6 DEF Client
<1>6. Client(j, due2, u, p, lacks)
  BY <1>1, <1>4, <1>5
<1> QED
  BY <1>6 DEF p

\* What the end of the worker's catch-up does to an attached client.
LEMMA ClientQueued ==
  ASSUME NEW k \in Caches, NEW u \in Views, NEW q \in Conns, NEW due, NEW due2,
         NEW lacks \in BOOLEAN, Client(k, due, u, q, lacks)
  PROVE  Client(k, due2, u, IF Attached(q) THEN Queue(q, TRUE) ELSE q, lacks)
<1> DEFINE p == Queue(q, TRUE)
<1>1. /\ p \in Conns /\ p.out = q.out /\ p.blocked = q.blocked /\ p.snap = q.snap
      /\ \/ p.stage = q.stage /\ p.pending
         \/ p.stage = "seeking"
  BY QueueFacts
<1> HIDE DEF p
<1>2. ASSUME p.stage = "seeking" PROVE Client(k, due2, u, p, lacks)
  BY <1>1, <1>2, ClientWaits
<1>3. ASSUME p.stage = q.stage, p.pending PROVE Client(k, due2, u, p, lacks)
  <2>1. Streaming(p) <=> Streaming(q)
    BY <1>3 DEF Streaming
  <2>2. Socket(p)
    BY <1>1, <1>3, <2>1 DEF Client, Socket
  <2>3. Shown(k, u, p)
    BY <1>1, <1>3, <2>1 DEF Client, Shown
  <2>4. Complete(u, q) => Complete(u, p)
    BY <1>1, <1>3, <2>1 DEF Complete, Reflected
  <2>5. Follows(due2, u, p)
    BY <1>3 DEF Follows
  <2> QED
    BY <2>2, <2>3, <2>4, <2>5 DEF Client
<1>4. ASSUME ~Attached(q) PROVE Client(k, due2, u, q, lacks)
  <2>1. ~Streaming(q) /\ q.stage # "idle"
    BY <1>4 DEF Attached, Streaming
  <2>2. Follows(due2, u, q)
    BY <2>1 DEF Follows
  <2> QED
    BY <1>4, <2>2 DEF Client
<1>5. Client(k, due2, u, q, lacks) \/ Attached(q)
  BY <1>4
<1>6. Client(k, due2, u, p, lacks)
  BY <1>1, <1>2, <1>3
<1> QED
  BY <1>5, <1>6 DEF p

LEMMA ClientFailed ==
  ASSUME NEW k \in Caches, NEW u \in Views, NEW q \in Conns, NEW due, NEW due2,
         NEW lacks \in BOOLEAN, NEW lacks2 \in BOOLEAN, Client(k, due, u, q, lacks),
         q.purpose = "resync" => lacks2
  PROVE  Client(k, due2, u, Fail(q), lacks2)
<1> DEFINE p == Fail(q)
<1>1. /\ p \in Conns
      /\ \/ p = Closed
         \/ /\ p.out = q.out /\ p.blocked = q.blocked /\ q.purpose = "resync"
            /\ p.stage \in {"idle", "seeking"}
  BY FailFacts
<1> HIDE DEF p
<1>2. ASSUME p = Closed PROVE Client(k, due2, u, p, lacks2)
  BY <1>2, ClientClosed
<1>3. ASSUME p.out = q.out, p.blocked = q.blocked, q.purpose = "resync", p.stage \in {"idle", "seeking"}
      PROVE  Client(k, due2, u, p, lacks2)
  <2>1. ~Streaming(p) /\ p.stage # "loaded"
    BY <1>3 DEF Streaming
  <2>2. Socket(p)
    BY <1>3, <2>1 DEF Client, Socket
  <2>3. Shown(k, u, p)
    BY <1>3, <2>1 DEF Client, Shown
  <2> QED
    BY <1>3, <2>2, <2>3 DEF Client
<1>4. Client(k, due2, u, p, lacks2)
  BY <1>1, <1>2, <1>3
<1> QED
  BY <1>4 DEF p

LEMMA ClientStreams ==
  ASSUME NEW k \in Caches, NEW u \in Views, NEW q \in Conns, NEW due, NEW due2,
         NEW lacks \in BOOLEAN, NEW lacks2 \in BOOLEAN, Client(k, due, u, q, lacks),
         lacks => lacks2, k.current # None, ~lacks2 => k.heard <= k.current,
         \A n \in due2 : n \in Int /\ Knows(k, n)
  PROVE  Client(k, due2, u, Stream(q, k.current), lacks2)
<1> DEFINE s == k.current
           p == Stream(q, s)
<1>0. s \in Snapshots
  BY DEF Caches
<1>1. /\ p \in Conns /\ p.snap = s /\ p.stage \in {"beginWait", "body"}
      /\ Grown(p.out, q.out, s)
      /\ ~p.blocked => Len(p.out) < HighWater
  BY <1>0, StreamFacts
<1> HIDE DEF p
<1>n. /\ s \in Int /\ k.heard \in Nat /\ u.cursor \in Int
      /\ q.out \in Seq(Records) /\ u.view \subseteq Int
      /\ \A i \in DOMAIN q.out : i \in Int /\ q.out[i].n \in Int
  BY ClientNumbers
<1>2. /\ \A i \in DOMAIN q.out : i \in DOMAIN p.out /\ p.out[i] = q.out[i]
      /\ \A i \in DOMAIN p.out : i \notin DOMAIN q.out => p.out[i].n = s /\ ~Event(p.out[i]) /\ ~Closing(p.out[i])
      /\ \A i \in DOMAIN q.out, m \in DOMAIN p.out : m < i => m \in DOMAIN q.out
      /\ Count(p.out, "event") = Count(q.out, "event")
  <2>1. p.out \in Seq(Records)
    BY <1>1 DEF Conns
  <2>2. \A i \in DOMAIN p.out : p.out[i] \in Records
    BY <2>1
  <2>3. DOMAIN p.out = 1..Len(p.out) /\ DOMAIN q.out = 1..Len(q.out) /\ Len(q.out) \in Nat /\ Len(p.out) \in Nat
    <3> DEFINE a == p.out
               b == q.out
    <3>1. a \in Seq(Records) /\ b \in Seq(Records)
      BY <1>n, <2>1
    <3> HIDE DEF a, b
    <3>2. DOMAIN a = 1..Len(a) /\ DOMAIN b = 1..Len(b) /\ Len(b) \in Nat /\ Len(a) \in Nat
      BY <3>1
    <3> QED
      BY <3>2 DEF a, b
  <2>4. \A i \in DOMAIN q.out, m \in DOMAIN p.out : m < i => m \in DOMAIN q.out
    BY <2>3
  <2>5. /\ \A i \in DOMAIN q.out : i \in DOMAIN p.out /\ p.out[i] = q.out[i]
        /\ \A i \in DOMAIN p.out : i \notin DOMAIN q.out => p.out[i].n = s /\ p.out[i].t \in {"response", "begin"}
        /\ Count(p.out, "event") = Count(q.out, "event")
    BY <1>1 DEF Grown
  <2>6. \A i \in DOMAIN p.out : i \notin DOMAIN q.out => ~Event(p.out[i]) /\ ~Closing(p.out[i])
    BY <2>2, <2>5, RecordFacts
  <2> QED
    BY <2>4, <2>5, <2>6
<1>3. Streaming(p) /\ p.stage # "idle" /\ p.stage # "endWait" /\ p.stage # "loaded"
  BY <1>1 DEF Streaming
<1> HIDE DEF s
<1>4. Socket(p)
  BY <1>1, <1>2, <1>3 DEF Client, Socket, s
<1>5. Knows(k, s)
  BY <1>n DEF Knows, s
<1>6. Shown(k, u, p)
  <2>1. \A i \in DOMAIN p.out : Knows(k, p.out[i].n)
    BY <1>2, <1>5 DEF Client, Shown
  <2>2. ASSUME NEW i \in DOMAIN p.out, Event(p.out[i])
        PROVE  u.cursor < p.out[i].n /\ \A m \in DOMAIN p.out : m < i => p.out[m].n < p.out[i].n
    <3>1. i \in DOMAIN q.out /\ p.out[i] = q.out[i] /\ Event(q.out[i])
      BY <1>2, <2>2
    <3>2. u.cursor < q.out[i].n /\ \A m \in DOMAIN q.out : m < i => q.out[m].n < q.out[i].n
      BY <3>1 DEF Client, Shown
    <3> QED
      BY <1>2, <3>1, <3>2
  <2>3. Knows(k, u.cursor) /\ \A m \in u.view : Knows(k, m)
    BY DEF Client, Shown
  <2> QED
    BY <1>1, <1>5, <2>1, <2>2, <2>3 DEF Shown
<1>7. ASSUME ~lacks2 PROVE Complete(u, p) /\ Follows(due2, u, p)
  <2>1. \A n \in Int : Knows(k, n) => n <= s
    BY <1>7, <1>n DEF Knows, s
  <2>2. \A m \in u.view : m <= s
    BY <2>1, <1>n DEF Client, Shown
  <2>3. \A i \in DOMAIN p.out : p.out[i].n <= s
    BY <2>1, <1>n, <1>2 DEF Client, Shown
  <2>4. ASSUME NEW i \in DOMAIN p.out, Closing(p.out[i])
        PROVE  /\ \A m \in u.view : m <= p.out[i].n
               /\ \A m \in DOMAIN p.out : m < i => p.out[m].n <= p.out[i].n
    <3>1. i \in DOMAIN q.out /\ p.out[i] = q.out[i] /\ Closing(q.out[i])
      BY <1>2, <2>4
    <3>2. /\ \A m \in u.view : m <= q.out[i].n
          /\ \A m \in DOMAIN q.out : m < i => q.out[m].n <= q.out[i].n
      BY <1>7, <3>1 DEF Client, Complete
    <3> QED
      BY <1>2, <3>1, <3>2
  <2>5. Complete(u, p)
    BY <1>1, <1>3, <2>2, <2>3, <2>4 DEF Complete
  <2>6. Follows(due2, u, p)
    BY <1>1, <1>3, <2>1 DEF Follows
  <2> QED
    BY <2>5, <2>6
<1>8. Client(k, due2, u, p, lacks2)
  BY <1>4, <1>6, <1>7 DEF Client
<1> QED
  BY <1>8 DEF p, s

\* A client at the end of attachClient, with loaded snapshot s.
LEMMA ClientServed ==
  ASSUME NEW k \in Caches, NEW u \in Views, NEW q \in Conns, NEW s \in Snapshots, NEW due, NEW due2,
         NEW lacks \in BOOLEAN, NEW lacks2 \in BOOLEAN, Client(k, due, u, q, lacks), lacks => lacks2,
         ~lacks2 => IF Chosen(k, s) = k.current THEN k.heard <= k.current ELSE q.purpose # "resync",
         \A n \in due2 : n \in Int /\ Knows(k, n)
  PROVE  Client(k, due2, u, Serve(q, s, k), lacks2) /\ Serve(q, s, k) \in Conns
<1>1. Chosen(k, s) \in Snapshots
  BY DEF Chosen, Caches
<1>2. CASE Chosen(k, s) = k.current
  <2>1. k.current # None /\ k.current \in Snapshots
    BY <1>1, <1>2
  <2>0. ~lacks2 => k.heard <= k.current
    BY <1>2
  <2>2. Stream(q, k.current) \in Conns
    BY <2>1, StreamFacts
  <2>3. Client(k, due2, u, Stream(q, k.current), lacks2)
    BY <2>0, <2>1, ClientStreams
  <2> QED
    BY <1>2, <2>2, <2>3 DEF Serve
<1>3. CASE Chosen(k, s) # k.current
  <2>1. Fail(q) \in Conns /\ Client(k, due2, u, Fail(q), lacks2)
    BY <1>3, FailFacts, ClientFailed
  <2> QED
    BY <1>3, <2>1 DEF Serve
<1> QED
  BY <1>2, <1>3

\* A client whose snapshot has been sent: the end is written behind it.
LEMMA ClientFinished ==
  ASSUME NEW k \in Caches, NEW u \in Views, NEW q \in Conns, NEW due,
         NEW lacks \in BOOLEAN, Client(k, due, u, q, lacks), q.stage = "body", due \subseteq Nat \ {0}
  PROVE  LET p == Write(q, "end", q.snap)
             r == IF Accepts(q) THEN Release(p) ELSE [p EXCEPT !.stage = "endWait"]
         IN r \in Conns /\ Client(k, due, u, r, lacks)
<1> DEFINE p == Write(q, "end", q.snap)
           e == [t |-> "end", n |-> q.snap]
           held == [p EXCEPT !.stage = "endWait"]
           r == IF Accepts(q) THEN Release(p) ELSE held
<1>0. Streaming(q) /\ q.snap # None /\ q.snap \in Snapshots
  <2>1. Streaming(q)
    BY DEF Streaming
  <2> QED
    BY <2>1 DEF Client, Socket, Conns
<1>1. /\ p \in Conns /\ p.out = Append(q.out, e) /\ p.blocked = (q.blocked \/ ~Accepts(q))
      /\ p.snap = q.snap /\ p.pending = q.pending
  BY <1>0, WriteFacts
<1>2. e \in Records /\ ~Event(e) /\ Closing(e) /\ e.n = q.snap /\ e.t # "event"
  BY <1>0, RecordFacts
<1> HIDE DEF p, e
<1>3. /\ held \in Conns /\ held.out = p.out /\ held.blocked = p.blocked /\ held.snap = p.snap
      /\ held.pending = p.pending /\ held.stage = "endWait"
  BY <1>1 DEF Conns, Stages
<1> HIDE DEF held
<1>4. /\ r \in Conns /\ r.out = p.out
      /\ r.blocked \/ Accepts(q)
      /\ \/ r.stage = "idle" /\ r.pending = q.pending
         \/ r.stage = "seeking"
         \/ r.stage = "endWait" /\ r.snap = q.snap /\ r.pending = q.pending
  <2>1. CASE Accepts(q)
    BY <1>1, <2>1, ReleaseFacts
  <2>2. CASE ~Accepts(q)
    BY <1>1, <1>3, <2>2
  <2> QED
    BY <2>1, <2>2
<1> HIDE DEF r
<1>n. /\ k.current \in Int /\ k.heard \in Nat /\ u.cursor \in Int /\ q.snap \in Int
      /\ q.out \in Seq(Records) /\ u.view \subseteq Int
      /\ \A i \in DOMAIN q.out : i \in Int /\ q.out[i].n \in Int
  BY ClientNumbers
<1> DEFINE last == Len(q.out) + 1
<1>5. /\ last \in Int /\ last \in DOMAIN r.out /\ r.out[last] = e
      /\ \A i \in DOMAIN q.out : i \in Int /\ i < last /\ i \in DOMAIN r.out /\ r.out[i] = q.out[i]
      /\ \A i \in DOMAIN r.out : i = last \/ i \in DOMAIN q.out
      /\ Len(r.out) = Len(q.out) + 1
  BY <1>1, <1>2, <1>4, <1>n, AppendEntries
<1> HIDE DEF last
<1>6. Streaming(r) => r.snap = q.snap /\ r.pending = q.pending
  BY <1>4 DEF Streaming
<1>7. Socket(r)
  <2>1. Count(r.out, "event") <= HighWater
    <3>1. Count(r.out, "event") = Count(q.out, "event") + 0 /\ Count(q.out, "event") \in Nat
      <4>1. Count(q.out, "event") \in Nat
        BY <1>n, CountBound
      <4>2. Count(Append(q.out, e), "event") = Count(q.out, "event") + (IF e.t = "event" THEN 1 ELSE 0)
        BY <1>2, <1>n, CountAppend
      <4> QED
        BY <1>1, <1>2, <1>4, <4>1, <4>2
    <3> QED
      BY <3>1 DEF Client, Socket
  <2>2. ~r.blocked => Len(r.out) < HighWater
    BY <1>4, <1>5 DEF Accepts
  <2>3. \A i \in DOMAIN r.out : Event(r.out[i]) => r.out[i].n # 0
    BY <1>2, <1>5 DEF Client, Socket
  <2> QED
    BY <1>0, <1>4, <1>6, <2>1, <2>2, <2>3 DEF Socket
<1>8. Knows(k, q.snap)
  BY <1>0 DEF Client, Shown
<1>9. Shown(k, u, r)
  <2>1. \A i \in DOMAIN r.out : Knows(k, r.out[i].n)
    BY <1>2, <1>5, <1>8 DEF Client, Shown
  <2>2. ASSUME NEW i \in DOMAIN r.out, Event(r.out[i])
        PROVE  u.cursor < r.out[i].n /\ \A m \in DOMAIN r.out : m < i => r.out[m].n < r.out[i].n
    <3>1. i \in DOMAIN q.out /\ r.out[i] = q.out[i] /\ Event(q.out[i])
      BY <1>2, <1>5, <2>2
    <3>2. u.cursor < q.out[i].n /\ \A m \in DOMAIN q.out : m < i => q.out[m].n < q.out[i].n
      BY <3>1 DEF Client, Shown
    <3> QED
      BY <1>5, <3>1, <3>2
  <2> QED
    BY <1>6, <1>8, <2>1, <2>2 DEF Client, Shown
<1>10. ASSUME NEW n \in Nat, n <= q.snap PROVE Reflected(u, r, n)
  BY <1>2, <1>5, <1>10 DEF Reflected
<1>11. ASSUME ~lacks PROVE Complete(u, r) /\ Follows(due, u, r)
  <2>0. Complete(u, q) /\ Follows(due, u, q)
    BY <1>11 DEF Client
  <2>1. /\ \A m \in u.view : m <= q.snap
        /\ \A i \in DOMAIN q.out : q.out[i].n <= q.snap
    BY <1>0, <2>0 DEF Complete
  <2>2. ASSUME NEW i \in DOMAIN r.out, Closing(r.out[i])
        PROVE  /\ \A m \in u.view : m <= r.out[i].n
               /\ \A m \in DOMAIN r.out : m < i => r.out[m].n <= r.out[i].n
    <3>1. CASE i = last
      BY <1>2, <1>5, <2>1, <3>1
    <3>2. CASE i \in DOMAIN q.out
      <4>1. r.out[i] = q.out[i] /\ Closing(q.out[i])
        BY <1>5, <2>2, <3>2
      <4>2. /\ \A m \in u.view : m <= q.out[i].n
            /\ \A m \in DOMAIN q.out : m < i => q.out[m].n <= q.out[i].n
        BY <2>0, <3>2, <4>1 DEF Complete
      <4> QED
        BY <1>5, <3>2, <4>1, <4>2
    <3> QED
      BY <1>5, <3>1, <3>2
  <2>3. Streaming(r) => \A i \in DOMAIN r.out : r.out[i].n <= r.snap
    BY <1>2, <1>5, <1>6, <1>n, <2>1
  <2>4. r.stage = "endWait" => \A n \in 1..r.snap : Reflected(u, r, n)
    <3>1. r.stage = "endWait" => r.snap = q.snap
      BY <1>4
    <3>2. \A n \in 1..q.snap : n \in Nat /\ n <= q.snap
      BY <1>n
    <3> QED
      BY <1>10, <3>1, <3>2
  <2>5. Complete(u, r)
    BY <1>6, <2>1, <2>2, <2>3, <2>4 DEF Complete
  <2>6. Follows(due, u, r)
    <3>1. ~q.pending => \A n \in due : n <= q.snap
      BY <1>0, <2>0 DEF Follows
    <3>2. r.stage = "idle" => r.pending = q.pending
      BY <1>4
    <3> QED
      BY <1>6, <1>10, <3>1, <3>2 DEF Follows
  <2> QED
    BY <2>5, <2>6
<1>12. r \in Conns /\ Client(k, due, u, r, lacks)
  BY <1>4, <1>7, <1>9, <1>11 DEF Client
<1> QED
  BY <1>12 DEF r, held, p

Drained(q) ==
  LET p == [q EXCEPT !.needDrain = FALSE, !.blocked = FALSE] IN
  CASE p.stage = "beginWait" -> [p EXCEPT !.stage = "body"]
    [] p.stage = "endWait" -> Release(p)
    [] p.stage = "idle" -> Rest(p)
    [] OTHER -> p

LEMMA ClientDrained ==
  ASSUME NEW k \in Caches, NEW u \in Views, NEW q \in Conns, NEW due,
         NEW lacks \in BOOLEAN, Client(k, due, u, q, lacks), q.out = <<>>, due \subseteq Nat \ {0}
  PROVE  /\ Drained(q) \in Conns /\ Client(k, due, u, Drained(q), lacks)
         /\ Drained(q).stage = "loading" <=> q.stage = "loading"
<1> DEFINE p == [q EXCEPT !.needDrain = FALSE, !.blocked = FALSE]
           begun == [p EXCEPT !.stage = "body"]
           r == CASE p.stage = "beginWait" -> begun
                  [] p.stage = "endWait" -> Release(p)
                  [] p.stage = "idle" -> Rest(p)
                  [] OTHER -> p
<1>1. /\ p \in Conns /\ p.out = <<>> /\ p.blocked = FALSE /\ p.stage = q.stage
      /\ p.snap = q.snap /\ p.pending = q.pending
  BY DEF Conns
<1> HIDE DEF p
<1>2. /\ begun \in Conns /\ begun.out = p.out /\ begun.blocked = p.blocked /\ begun.snap = p.snap
      /\ begun.pending = p.pending /\ begun.stage = "body"
  BY <1>1 DEF Conns, Stages
<1> HIDE DEF begun
<1>3. /\ r \in Conns /\ r.out = <<>> /\ r.blocked = FALSE
      /\ \/ r.stage = "body" /\ q.stage = "beginWait" /\ r.snap = q.snap /\ r.pending = q.pending
         \/ r.stage = "idle" /\ q.stage \in {"endWait", "idle"} /\ r.pending = q.pending
         \/ r.stage = "seeking" /\ q.stage \in {"endWait", "idle"}
         \/ /\ r.stage = q.stage /\ q.stage \notin {"beginWait", "endWait", "idle"}
            /\ r.snap = q.snap /\ r.pending = q.pending
  <2>1. CASE p.stage = "beginWait"
    BY <1>1, <1>2, <2>1
  <2>2. CASE p.stage = "endWait"
    <3>1. r = Release(p)
      BY <2>2
    <3> HIDE DEF r
    <3> QED
      BY <1>1, <2>2, <3>1, ReleaseFacts
  <2>3. CASE p.stage = "idle"
    <3>1. r = Rest(p)
      BY <2>3
    <3> HIDE DEF r
    <3> QED
      BY <1>1, <2>3, <3>1, RestFacts
  <2>4. CASE p.stage \notin {"beginWait", "endWait", "idle"}
    <3>1. r = p
      BY <2>4
    <3> HIDE DEF r
    <3> QED
      BY <1>1, <2>4, <3>1
  <2> QED
    BY <2>1, <2>2, <2>3, <2>4
<1> HIDE DEF r
<1>4. DOMAIN r.out = {} /\ Len(r.out) = 0 /\ DOMAIN q.out = {}
  BY <1>3
<1>5. Count(r.out, "event") = 0
  <2>1. {i \in DOMAIN r.out : r.out[i].t = "event"} = {}
    BY <1>4
  <2> QED
    BY <2>1, FS_EmptySet DEF Count
<1>6. /\ Streaming(r) => Streaming(q) /\ r.snap = q.snap /\ r.pending = q.pending
      /\ r.stage # "endWait"
      /\ r.stage = "loaded" => q.stage = "loaded" /\ r.snap = q.snap
  BY <1>3 DEF Streaming
<1>7. Socket(r)
  BY <1>4, <1>5, <1>6 DEF Client, Socket
<1>8. Shown(k, u, r)
  BY <1>4, <1>6 DEF Client, Shown
<1>9. \A n : Reflected(u, q, n) => Reflected(u, r, n)
  BY <1>4 DEF Reflected
<1>10. ASSUME ~lacks PROVE Complete(u, r) /\ Follows(due, u, r)
  <2>0. Complete(u, q) /\ Follows(due, u, q)
    BY <1>10 DEF Client
  <2>1. Complete(u, r)
    BY <1>4, <1>6, <2>0 DEF Complete
  <2>2. ASSUME NEW n \in due, ~r.pending, r.stage = "idle" PROVE Reflected(u, r, n)
    <3>1. ~q.pending /\ q.stage \in {"endWait", "idle"}
      BY <1>3, <2>2
    <3>2. CASE q.stage = "idle"
      BY <1>9, <2>0, <3>1, <3>2 DEF Follows
    <3>3. CASE q.stage = "endWait"
      <4>1. n <= q.snap
        BY <2>0, <3>1, <3>3 DEF Follows, Streaming
      <4>2. n \in Nat \ {0} /\ q.snap \in Int
        BY ClientNumbers
      <4>3. n \in 1..q.snap
        BY <4>1, <4>2
      <4> QED
        BY <1>9, <2>0, <3>3, <4>3 DEF Complete
    <3> QED
      BY <3>1, <3>2, <3>3
  <2>3. Follows(due, u, r)
    BY <1>6, <2>0, <2>2 DEF Follows
  <2> QED
    BY <2>1, <2>3
<1>11. r \in Conns /\ Client(k, due, u, r, lacks)
  BY <1>3, <1>7, <1>8, <1>10 DEF Client
<1>12. r.stage = "loading" <=> q.stage = "loading"
  BY <1>3
<1>13. Drained(q) = r
  BY DEF Drained, r, begun, p
<1> QED
  BY <1>11, <1>12, <1>13

LEMMA AppliedFacts ==
  ASSUME NEW u \in Views, NEW e \in Records, Event(e) => e.n # 0 /\ u.cursor < e.n
  PROVE  /\ Applied(u, e) \in Views
         /\ Applied(u, e).cursor \in {u.cursor, e.n}
         /\ \A m \in Applied(u, e).view : m \in u.view \/ (Event(e) /\ m = e.n) \/ (Closing(e) /\ m <= e.n)
         /\ ~Closing(e) => u.view \subseteq Applied(u, e).view
         /\ Event(e) => e.n \in Applied(u, e).view
         /\ Closing(e) => \A m \in 1..e.n : m \in Applied(u, e).view
<1>0. /\ e.t \in {"response", "begin", "end", "event"} /\ e.n \in Snapshots /\ e.n \in Int
      /\ u.view \subseteq 1..MaxEvents /\ u.cursor \in Snapshots \cup {None} /\ u.cursor \in Int
      /\ u.following \in BOOLEAN
  BY DEF Records, Views
<1>1. AtLeast(u.cursor, e.n) \in {u.cursor, e.n}
  BY DEF AtLeast
<1> DEFINE v == Applied(u, e)
<1>2. CASE e.t = "response"
  <2>1. v = [u EXCEPT !.cursor = AtLeast(@, e.n)] /\ ~Event(e) /\ ~Closing(e)
    BY <1>2 DEF Applied, Event, Closing
  <2> HIDE DEF v
  <2>2. v = [view |-> u.view, cursor |-> AtLeast(u.cursor, e.n), following |-> u.following]
    BY <2>1 DEF Views
  <2>3. v \in Views /\ v.cursor \in {u.cursor, e.n} /\ v.view = u.view
    BY <1>0, <1>1, <2>2 DEF Views
  <2> QED
    BY <2>1, <2>3 DEF v
<1>3. CASE e.t = "begin"
  <2>1. v = u /\ ~Event(e) /\ ~Closing(e)
    BY <1>3 DEF Applied, Event, Closing
  <2> QED
    BY <2>1
<1>4. CASE e.t = "end"
  <2>1. /\ v = [view |-> 1..e.n, cursor |-> AtLeast(u.cursor, e.n), following |-> TRUE]
        /\ ~Event(e) /\ Closing(e)
    BY <1>4 DEF Applied, Event, Closing
  <2> HIDE DEF v
  <2>2. v \in Views /\ v.cursor \in {u.cursor, e.n} /\ v.view = 1..e.n
    BY <1>0, <1>1, <2>1 DEF Views
  <2>3. \A m \in 1..e.n : m <= e.n
    BY <1>0
  <2> QED
    BY <2>1, <2>2, <2>3 DEF v
<1>5. CASE e.t = "event"
  <2>0. Event(e) /\ ~Closing(e)
    BY <1>5 DEF Event, Closing
  <2>1. ~(e.n <= u.cursor)
    BY <1>0, <2>0
  <2>2. v = [u EXCEPT !.view = @ \cup {e.n}, !.cursor = e.n]
    BY <1>5, <2>1 DEF Applied
  <2> HIDE DEF v
  <2>3. v = [view |-> u.view \cup {e.n}, cursor |-> e.n, following |-> u.following]
    BY <2>2 DEF Views
  <2>4. u.view \cup {e.n} \subseteq 1..MaxEvents
    BY <1>0, <2>0
  <2>5. v \in Views /\ v.cursor = e.n /\ v.view = u.view \cup {e.n}
    BY <1>0, <2>3, <2>4 DEF Views
  <2> QED
    BY <2>0, <2>5 DEF v
<1> QED
  BY <1>0, <1>2, <1>3, <1>4, <1>5

LEMMA ClientReads ==
  ASSUME NEW k \in Caches, NEW u \in Views, NEW q \in Conns, NEW due,
         NEW lacks \in BOOLEAN, Client(k, due, u, q, lacks), q.out # <<>>, due \subseteq Nat \ {0}
  PROVE  LET r == [q EXCEPT !.out = Tail(q.out)]
             v == Applied(u, Head(q.out))
         IN r \in Conns /\ v \in Views /\ Client(k, due, v, r, lacks)
<1> DEFINE t == Tail(q.out)
           r == [q EXCEPT !.out = t]
           e == Head(q.out)
           v == Applied(u, e)
<1>n. /\ k.current \in Int /\ k.heard \in Nat /\ u.cursor \in Int /\ q.snap \in Int
      /\ q.out \in Seq(Records) /\ u.view \subseteq Int
      /\ \A i \in DOMAIN q.out : i \in Int /\ q.out[i].n \in Int
  BY ClientNumbers
<1>1. /\ t \in Seq(Records) /\ e \in Records /\ 1 \in DOMAIN q.out /\ e = q.out[1]
      /\ Len(t) < Len(q.out) /\ Len(t) \in Int /\ Len(q.out) \in Int
      /\ \A i \in DOMAIN t : i \in Int /\ i + 1 \in DOMAIN q.out /\ 1 < i + 1 /\ t[i] = q.out[i + 1]
      /\ \A i \in DOMAIN q.out : i # 1 => i - 1 \in DOMAIN t /\ t[i - 1] = q.out[i]
  <2>1. /\ t \in Seq(Records) /\ e \in Records /\ 1 \in DOMAIN q.out /\ e = q.out[1]
        /\ Len(q.out) \in Nat \ {0} /\ Len(t) = Len(q.out) - 1 /\ DOMAIN t = 1..Len(q.out) - 1
        /\ \A i \in DOMAIN t : i + 1 \in DOMAIN q.out /\ i + 1 > 1 /\ t[i] = q.out[i + 1]
        /\ \A i \in DOMAIN q.out : i # 1 => i - 1 \in DOMAIN t /\ t[i - 1] = q.out[i]
    <3> DEFINE s == q.out
    <3>1. s \in Seq(Records) /\ s # <<>>
      BY <1>n
    <3> HIDE DEF s
    <3>2. /\ Tail(s) \in Seq(Records) /\ Head(s) \in Records /\ 1 \in DOMAIN s /\ Head(s) = s[1]
          /\ Len(s) \in Nat \ {0} /\ Len(Tail(s)) = Len(s) - 1
          /\ DOMAIN s = 1..Len(s) /\ DOMAIN Tail(s) = 1..Len(s) - 1
          /\ \A i \in DOMAIN Tail(s) : i + 1 \in DOMAIN s /\ i + 1 > 1 /\ Tail(s)[i] = s[i + 1]
          /\ \A i \in DOMAIN s : i # 1 => i - 1 \in DOMAIN Tail(s) /\ Tail(s)[i - 1] = s[i]
      BY <3>1, TailEntries
    <3> QED
      BY <3>2 DEF s
  <2> HIDE DEF t, e
  <2>2. \A i \in DOMAIN t : i \in Int /\ 1 < i + 1
    BY <2>1
  <2> QED
    BY <2>1, <2>2
<1>c. Count(t, "event") <= Count(q.out, "event") /\ Count(t, "event") \in Int /\ Count(q.out, "event") \in Int
  <2> DEFINE one == IF e.t = "event" THEN 1 ELSE 0
  <2>1. Count(t, "event") = Count(q.out, "event") - one
    BY <1>n, CountTail
  <2>2. one \in {0, 1}
    OBVIOUS
  <2>3. Count(q.out, "event") \in Nat
    BY <1>n, CountBound
  <2> HIDE DEF one, t
  <2> QED
    BY <2>1, <2>2, <2>3
<1> HIDE DEF t, e
<1>2. /\ r \in Conns /\ r.out = t /\ r.blocked = q.blocked /\ r.stage = q.stage
      /\ r.snap = q.snap /\ r.pending = q.pending
  BY <1>1 DEF Conns
<1> HIDE DEF r
<1>3. Event(e) => e.n # 0 /\ u.cursor < e.n
  BY <1>1 DEF Client, Socket, Shown
<1>4. /\ v \in Views /\ v.cursor \in {u.cursor, e.n}
      /\ \A m \in v.view : m \in u.view \/ m <= e.n
      /\ ~Closing(e) => u.view \subseteq v.view
      /\ Event(e) => e.n \in v.view
      /\ Closing(e) => \A m \in 1..e.n : m \in v.view
  <2>1. e.n <= e.n
    BY <1>1, <1>n
  <2> QED
    BY <1>1, <1>3, <2>1, AppliedFacts
<1> HIDE DEF v
<1>5. Streaming(r) <=> Streaming(q)
  BY <1>2 DEF Streaming
<1>6. Socket(r)
  <2>1. Count(r.out, "event") <= HighWater
    BY <1>2, <1>c DEF Client, Socket
  <2>2. ~r.blocked => Len(r.out) < HighWater
    BY <1>1, <1>2 DEF Client, Socket
  <2>3. \A i \in DOMAIN r.out : Event(r.out[i]) => r.out[i].n # 0
    BY <1>1, <1>2 DEF Client, Socket
  <2> QED
    BY <1>2, <1>5, <2>1, <2>2, <2>3 DEF Client, Socket
<1>7. v.view \subseteq Int /\ e.n \in Int /\ v.cursor \in Int
  BY <1>1, <1>4, <1>n DEF Views
<1>8. Knows(k, e.n)
  BY <1>1 DEF Client, Shown
<1>9. Shown(k, v, r)
  <2>1. \A m \in v.view : Knows(k, m)
    <3> SUFFICES ASSUME NEW m \in v.view PROVE Knows(k, m)
      OBVIOUS
    <3>1. CASE m \in u.view
      BY <3>1 DEF Client, Shown
    <3>2. CASE m <= e.n
      BY <1>7, <1>8, <1>n, <3>2 DEF Knows
    <3> QED
      BY <1>4, <3>1, <3>2
  <2>2. Knows(k, v.cursor)
    BY <1>4, <1>8 DEF Client, Shown
  <2>3. \A i \in DOMAIN t : Knows(k, t[i].n)
    BY <1>1 DEF Client, Shown
  <2>4. ASSUME NEW i \in DOMAIN t, Event(t[i])
        PROVE  v.cursor < t[i].n /\ \A m \in DOMAIN t : m < i => t[m].n < t[i].n
    <3>1. i + 1 \in DOMAIN q.out /\ t[i] = q.out[i + 1] /\ Event(q.out[i + 1]) /\ 1 < i + 1 /\ i \in Int
      BY <1>1, <2>4
    <3>2. u.cursor < q.out[i + 1].n /\ \A m \in DOMAIN q.out : m < i + 1 => q.out[m].n < q.out[i + 1].n
      BY <3>1 DEF Client, Shown
    <3>3. e.n < q.out[i + 1].n
      BY <1>1, <3>1, <3>2
    <3>4. v.cursor < t[i].n
      BY <1>4, <3>1, <3>2, <3>3
    <3>5. ASSUME NEW m \in DOMAIN t, m < i PROVE t[m].n < t[i].n
      <4>1. m + 1 \in DOMAIN q.out /\ t[m] = q.out[m + 1] /\ m + 1 < i + 1
        BY <1>1, <3>1, <3>5
      <4> QED
        BY <3>1, <3>2, <4>1
    <3> QED
      BY <3>4, <3>5
  <2>5. Streaming(r) => Knows(k, r.snap)
    BY <1>2, <1>5 DEF Client, Shown
  <2> QED
    BY <1>2, <2>1, <2>2, <2>3, <2>4, <2>5 DEF Shown
<1>10. ASSUME NEW n \in Nat \ {0}, ~lacks, Reflected(u, q, n) PROVE Reflected(v, r, n)
  <2>1. CASE n \in u.view
    <3>1. CASE ~Closing(e)
      BY <1>4, <2>1, <3>1 DEF Reflected
    <3>2. CASE Closing(e)
      <4>1. n <= e.n
        BY <1>1, <1>10, <2>1, <3>2 DEF Client, Complete
      <4>2. n \in 1..e.n
        BY <1>7, <4>1
      <4> QED
        BY <1>4, <3>2, <4>2 DEF Reflected
    <3> QED
      BY <3>1, <3>2
  <2>2. ASSUME NEW i \in DOMAIN q.out, Event(q.out[i]), q.out[i].n = n PROVE Reflected(v, r, n)
    <3>1. CASE i = 1
      BY <1>1, <1>4, <2>2, <3>1 DEF Reflected
    <3>2. CASE i # 1
      BY <1>1, <1>2, <2>2, <3>2 DEF Reflected
    <3> QED
      BY <3>1, <3>2
  <2>3. ASSUME NEW i \in DOMAIN q.out, Closing(q.out[i]), n <= q.out[i].n PROVE Reflected(v, r, n)
    <3>1. CASE i = 1
      <4>1. n <= e.n /\ Closing(e)
        BY <1>1, <2>3, <3>1
      <4>2. n \in 1..e.n
        BY <1>7, <4>1
      <4> QED
        BY <1>4, <4>1, <4>2 DEF Reflected
    <3>2. CASE i # 1
      BY <1>1, <1>2, <2>3, <3>2 DEF Reflected
    <3> QED
      BY <3>1, <3>2
  <2> QED
    BY <1>10, <2>1, <2>2, <2>3 DEF Reflected
<1>11. ASSUME ~lacks PROVE Complete(v, r)
  <2>0. Complete(u, q)
    BY <1>11 DEF Client
  <2>1. ASSUME NEW i \in DOMAIN t, Closing(t[i])
        PROVE  /\ \A m \in v.view : m <= t[i].n
               /\ \A m \in DOMAIN t : m < i => t[m].n <= t[i].n
    <3>1. i + 1 \in DOMAIN q.out /\ t[i] = q.out[i + 1] /\ Closing(q.out[i + 1]) /\ 1 < i + 1 /\ i \in Int
      BY <1>1, <2>1
    <3>2. /\ \A m \in u.view : m <= t[i].n
          /\ \A m \in DOMAIN q.out : m < i + 1 => q.out[m].n <= t[i].n
      BY <2>0, <3>1 DEF Complete
    <3>3. e.n <= t[i].n /\ t[i].n \in Int
      BY <1>1, <1>n, <3>1, <3>2
    <3>4. ASSUME NEW m \in v.view PROVE m <= t[i].n
      BY <1>4, <1>7, <3>2, <3>3
    <3>5. ASSUME NEW m \in DOMAIN t, m < i PROVE t[m].n <= t[i].n
      <4>1. m + 1 \in DOMAIN q.out /\ t[m] = q.out[m + 1] /\ m + 1 < i + 1
        BY <1>1, <3>1, <3>5
      <4> QED
        BY <3>2, <4>1
    <3> QED
      BY <3>4, <3>5
  <2>2. ASSUME Streaming(r)
        PROVE  (\A m \in v.view : m <= r.snap) /\ \A i \in DOMAIN t : t[i].n <= r.snap
    <3>1. (\A m \in u.view : m <= q.snap) /\ \A i \in DOMAIN q.out : q.out[i].n <= q.snap
      BY <1>5, <2>0, <2>2 DEF Complete
    <3>2. e.n <= q.snap
      BY <1>1, <3>1
    <3>3. \A m \in v.view : m <= q.snap
      BY <1>4, <1>7, <1>n, <3>1, <3>2
    <3>4. \A i \in DOMAIN t : t[i].n <= q.snap
      BY <1>1, <3>1
    <3> QED
      BY <1>2, <3>3, <3>4
  <2>3. ASSUME r.stage = "endWait", NEW n \in 1..r.snap PROVE Reflected(v, r, n)
    <3>1. Reflected(u, q, n)
      BY <1>2, <2>0, <2>3 DEF Complete
    <3>2. n \in Nat \ {0}
      BY <1>2, <1>n
    <3> QED
      BY <1>10, <1>11, <3>1, <3>2
  <2> QED
    BY <1>2, <2>1, <2>2, <2>3 DEF Complete
<1>12. ASSUME ~lacks PROVE Follows(due, v, r)
  <2>1. Follows(due, u, q)
    BY <1>12 DEF Client
  <2> QED
    BY <1>2, <1>5, <1>10, <1>12, <2>1 DEF Follows
<1>13. r \in Conns /\ v \in Views /\ Client(k, due, v, r, lacks)
  BY <1>2, <1>4, <1>6, <1>9, <1>11, <1>12 DEF Client
<1> QED
  BY <1>13 DEF r, v, t, e

-------------------------------------------------------------------------------
(* Loads: each is a request on its way to the worker or back *)

Waits(ls, c) == \E i \in DOMAIN ls : c \in ls[i].waiters

\* A client waits for one load, and one load at most may still be joined.
Separate(ls) ==
  \A i, j \in DOMAIN ls : i # j =>
    ~(ls[i].valid /\ ls[j].valid) /\ \A c \in ls[i].waiters : c \notin ls[j].waiters

Balanced(w, p, r, ls) == w.asked + w.marking + Count(p, "response") + Len(r) = Len(ls)

LEMMA MappedLoads ==
  ASSUME NEW ls \in Seq(Loads), Separate(ls), NEW f, f = [i \in DOMAIN ls |-> f[i]],
         \A i \in DOMAIN ls : /\ f[i] \in Loads /\ (f[i].valid => ls[i].valid)
                              /\ f[i].waiters \subseteq ls[i].waiters
  PROVE  f \in Seq(Loads) /\ Len(f) = Len(ls) /\ DOMAIN f = DOMAIN ls /\ Separate(f)
<1>1. f \in Seq(Loads) /\ Len(f) = Len(ls) /\ DOMAIN f = DOMAIN ls
  BY MapEntries
<1>2. Separate(f)
  BY <1>1 DEF Separate
<1> QED
  BY <1>1, <1>2

LEMMA TailLoads ==
  ASSUME NEW ls \in Seq(Loads), Separate(ls), ls # <<>>
  PROVE  /\ Head(ls) \in Loads /\ Tail(ls) \in Seq(Loads) /\ Separate(Tail(ls))
         /\ Len(ls) \in Nat /\ Len(Tail(ls)) = Len(ls) - 1
         /\ \A c : Waits(Tail(ls), c) <=> Waits(ls, c) /\ c \notin Head(ls).waiters
<1> DEFINE t == Tail(ls)
           h == Head(ls)
<1>1. /\ t \in Seq(Loads) /\ h \in Loads /\ h = ls[1] /\ 1 \in DOMAIN ls
      /\ Len(ls) \in Nat /\ Len(t) = Len(ls) - 1
      /\ \A i \in DOMAIN t : i \in Int /\ i + 1 \in DOMAIN ls /\ i + 1 # 1 /\ t[i] = ls[i + 1]
      /\ \A i \in DOMAIN ls : i # 1 => i - 1 \in DOMAIN t /\ t[i - 1] = ls[i]
  BY TailEntries
<1> HIDE DEF t, h
<1>2. Separate(t)
  <2> SUFFICES ASSUME NEW i \in DOMAIN t, NEW j \in DOMAIN t, i # j
               PROVE  ~(t[i].valid /\ t[j].valid) /\ \A c \in t[i].waiters : c \notin t[j].waiters
    BY DEF Separate
  <2>1. /\ i + 1 \in DOMAIN ls /\ j + 1 \in DOMAIN ls /\ i + 1 # j + 1
        /\ t[i] = ls[i + 1] /\ t[j] = ls[j + 1]
    BY <1>1
  <2> QED
    BY <2>1 DEF Separate
<1>3. ASSUME NEW c PROVE Waits(t, c) <=> Waits(ls, c) /\ c \notin h.waiters
  <2>1. ASSUME NEW i \in DOMAIN t, c \in t[i].waiters PROVE Waits(ls, c) /\ c \notin h.waiters
    <3>1. i + 1 \in DOMAIN ls /\ i + 1 # 1 /\ c \in ls[i + 1].waiters
      BY <1>1, <2>1
    <3> QED
      BY <1>1, <3>1 DEF Waits, Separate
  <2>2. ASSUME NEW i \in DOMAIN ls, c \in ls[i].waiters, c \notin h.waiters PROVE Waits(t, c)
    <3>1. i - 1 \in DOMAIN t /\ t[i - 1] = ls[i]
      BY <1>1, <2>2
    <3> QED
      BY <2>2, <3>1 DEF Waits
  <2> QED
    BY <2>1, <2>2 DEF Waits
<1>4. /\ h \in Loads /\ t \in Seq(Loads) /\ Separate(t) /\ Len(ls) \in Nat /\ Len(t) = Len(ls) - 1
      /\ \A c : Waits(t, c) <=> Waits(ls, c) /\ c \notin h.waiters
  BY <1>1, <1>2, <1>3
<1> QED
  BY <1>4 DEF t, h

LEMMA JoinFacts ==
  ASSUME NEW ls \in Seq(Loads), Separate(ls), NEW cs \in SUBSET Clients, cached \in Caches,
         \A c \in cs : ~Waits(ls, c)
  PROVE  /\ Join(ls, cs) \in Seq(Loads) /\ Separate(Join(ls, cs))
         /\ Len(ls) \in Nat /\ Len(Join(ls, cs)) \in {Len(ls), Len(ls) + 1}
         /\ \A c : Waits(Join(ls, cs), c) <=> Waits(ls, c) \/ c \in cs
<1>0. Len(ls) \in Nat /\ \A i \in DOMAIN ls : ls[i] \in Loads
  OBVIOUS
<1>1. CASE cs = {}
  BY <1>0, <1>1 DEF Join
<1>2. CASE cs # {} /\ ValidLoads(ls) # {}
  <2> DEFINE f == [i \in DOMAIN ls |-> IF ls[i].valid THEN [ls[i] EXCEPT !.waiters = @ \cup cs] ELSE ls[i]]
  <2>1. Join(ls, cs) = f
    BY <1>2 DEF Join
  <2>2. PICK v \in DOMAIN ls : ls[v].valid
    BY <1>2 DEF ValidLoads
  <2>3. \A i \in DOMAIN ls : ls[i].valid => i = v
    BY <2>2 DEF Separate
  <2>4. \A i \in DOMAIN ls : /\ f[i] \in Loads /\ f[i].valid = ls[i].valid
                             /\ f[i].waiters = IF i = v THEN ls[i].waiters \cup cs ELSE ls[i].waiters
    <3> SUFFICES ASSUME NEW i \in DOMAIN ls
                 PROVE  /\ f[i] \in Loads /\ f[i].valid = ls[i].valid
                        /\ f[i].waiters = IF i = v THEN ls[i].waiters \cup cs ELSE ls[i].waiters
      OBVIOUS
    <3>1. ls[i] \in Loads
      BY <1>0
    <3>2. CASE i = v
      <4>1. f[i] = [ls[i] EXCEPT !.waiters = ls[i].waiters \cup cs]
        BY <2>2, <3>2
      <4> HIDE DEF f
      <4> QED
        BY <3>1, <3>2, <4>1 DEF Loads
    <3>3. CASE i # v
      <4>1. f[i] = ls[i]
        BY <2>3, <3>3
      <4> HIDE DEF f
      <4> QED
        BY <3>1, <3>3, <4>1
    <3> QED
      BY <3>2, <3>3
  <2>5. f = [i \in DOMAIN ls |-> f[i]]
    OBVIOUS
  <2> HIDE DEF f
  <2>6. f \in Seq(Loads) /\ Len(f) = Len(ls) /\ DOMAIN f = DOMAIN ls
    BY <2>4, <2>5, MapEntries
  <2>7. Separate(f)
    <3> SUFFICES ASSUME NEW i \in DOMAIN ls, NEW j \in DOMAIN ls, i # j
                 PROVE  ~(f[i].valid /\ f[j].valid) /\ \A c \in f[i].waiters : c \notin f[j].waiters
      BY <2>6 DEF Separate
    <3>1. ~(ls[i].valid /\ ls[j].valid) /\ \A c \in ls[i].waiters : c \notin ls[j].waiters
      BY DEF Separate
    <3>2. \A c \in cs : c \notin ls[i].waiters /\ c \notin ls[j].waiters
      BY DEF Waits
    <3> QED
      BY <2>4, <3>1, <3>2
  <2>8. \A c : Waits(f, c) <=> Waits(ls, c) \/ c \in cs
    BY <2>4, <2>6 DEF Waits
  <2> QED
    BY <1>0, <2>1, <2>6, <2>7, <2>8
<1>3. CASE cs # {} /\ ValidLoads(ls) = {}
  <2> DEFINE e == [valid |-> TRUE, observed |-> cached.current, waiters |-> cs]
             f == Append(ls, e)
             n == Len(ls) + 1
  <2>1. Join(ls, cs) = f
    BY <1>3 DEF Join
  <2>2. e \in Loads /\ e.waiters = cs
    BY DEF Loads, Caches
  <2> HIDE DEF e
  <2>3. /\ f \in Seq(Loads) /\ Len(f) = Len(ls) + 1 /\ DOMAIN f = DOMAIN ls \cup {n}
        /\ \A i \in DOMAIN ls : i # n /\ f[i] = ls[i]
        /\ f[n] = e
    <3>1. n \notin DOMAIN ls
      BY <1>0
    <3> QED
      BY <2>2, <3>1, AppendEntries
  <2> HIDE DEF f, n
  <2>4. \A i \in DOMAIN ls : ~ls[i].valid /\ \A c \in cs : c \notin ls[i].waiters
    BY <1>3 DEF ValidLoads, Waits
  <2>5. Separate(f)
    <3> SUFFICES ASSUME NEW i \in DOMAIN f, NEW j \in DOMAIN f, i # j
                 PROVE  ~(f[i].valid /\ f[j].valid) /\ \A c \in f[i].waiters : c \notin f[j].waiters
      BY DEF Separate
    <3>1. CASE i \in DOMAIN ls /\ j \in DOMAIN ls
      BY <2>3, <3>1 DEF Separate
    <3>2. CASE i \in DOMAIN ls /\ j = n
      BY <2>2, <2>3, <2>4, <3>2
    <3>3. CASE i = n /\ j \in DOMAIN ls
      BY <2>2, <2>3, <2>4, <3>3
    <3> QED
      BY <2>3, <3>1, <3>2, <3>3
  <2>6. \A c : Waits(f, c) <=> Waits(ls, c) \/ c \in cs
    BY <2>2, <2>3 DEF Waits
  <2> QED
    BY <1>0, <2>1, <2>3, <2>5, <2>6
<1> QED
  BY <1>1, <1>2, <1>3

\* The responses among the frames.
LEMMA ResponseCount ==
  ASSUME NEW p \in Seq(Frames)
  PROVE  /\ Count(p, "response") \in Nat
         /\ \A f \in Frames :
              /\ Response(f) => Count(Append(p, f), "response") = Count(p, "response") + 1
              /\ ~Response(f) => Count(Append(p, f), "response") = Count(p, "response")
         /\ p # <<>> =>
              /\ Response(p[1]) => Count(Tail(p), "response") = Count(p, "response") - 1
              /\ ~Response(p[1]) => Count(Tail(p), "response") = Count(p, "response")
<1>1. Count(p, "response") \in Nat
  BY CountBound
<1>2. ASSUME NEW f \in Frames
      PROVE  /\ Response(f) => Count(Append(p, f), "response") = Count(p, "response") + 1
             /\ ~Response(f) => Count(Append(p, f), "response") = Count(p, "response")
  <2>1. Count(Append(p, f), "response") = Count(p, "response") + (IF f.t = "response" THEN 1 ELSE 0)
    BY CountAppend
  <2>2. CASE Response(f)
    <3>1. Count(Append(p, f), "response") = Count(p, "response") + 1
      BY <2>1, <2>2 DEF Response
    <3> QED
      BY <2>2, <3>1
  <2>3. CASE ~Response(f)
    <3>1. Count(Append(p, f), "response") = Count(p, "response") + 0
      BY <2>1, <2>3 DEF Response
    <3> QED
      BY <1>1, <2>3, <3>1
  <2> QED
    BY <2>2, <2>3
<1>3. ASSUME p # <<>>
      PROVE  /\ Response(p[1]) => Count(Tail(p), "response") = Count(p, "response") - 1
             /\ ~Response(p[1]) => Count(Tail(p), "response") = Count(p, "response")
  <2>0. Head(p) = p[1]
    BY <1>3
  <2>1. Count(Tail(p), "response") = Count(p, "response") - (IF p[1].t = "response" THEN 1 ELSE 0)
    BY <1>3, <2>0, CountTail
  <2>2. CASE Response(p[1])
    <3>1. Count(Tail(p), "response") = Count(p, "response") - 1
      BY <2>1, <2>2 DEF Response
    <3> QED
      BY <2>2, <3>1
  <2>3. CASE ~Response(p[1])
    <3>1. Count(Tail(p), "response") = Count(p, "response") - 0
      BY <2>1, <2>3 DEF Response
    <3> QED
      BY <1>1, <2>3, <3>1
  <2> QED
    BY <2>2, <2>3
<1> QED
  BY <1>1, <1>2, <1>3

-------------------------------------------------------------------------------
(* The inductive invariant *)

LoadInv ==
  /\ Separate(loads)
  /\ Balanced(worker, pipe, resolved, loads)
  /\ \A c \in Clients : conn[c].stage = "loading" <=> Waits(loads, c)

FlowInv == Flow(worker, pipe, cached, resolved, late)

ClientInv == \A c \in Clients : Client(cached, Due(worker, pipe), ui[c], conn[c], c \in missed)

CatchupInv == Typed /\ LoadInv /\ FlowInv /\ ClientInv

LEMMA TypedIsTypeOK == CatchupInv => TypeOK
<1> SUFFICES ASSUME CatchupInv PROVE TypeOK
  OBVIOUS
<1>1. Typed /\ LoadInv /\ ClientInv
  BY DEF CatchupInv
<1>2. ASSUME NEW c \in Clients
      PROVE  /\ conn[c] \in [stage : Stages, purpose : Purposes, snap : Snapshots \cup {None},
                             retried : BOOLEAN, pending : BOOLEAN, blocked : BOOLEAN,
                             needDrain : BOOLEAN, out : Seq([t : RecordTypes, n : Snapshots])]
             /\ ui[c] \in Views
             /\ Cardinality({i \in DOMAIN conn[c].out : conn[c].out[i].t = "event"}) <= HighWater
             /\ conn[c].stage = "loading" <=> \E i \in DOMAIN loads : c \in loads[i].waiters
  <2>1. conn[c] \in Conns /\ ui[c] \in Views
    BY <1>1 DEF Typed
  <2>4. conn[c] \in [stage : Stages, purpose : Purposes, snap : Snapshots \cup {None},
                     retried : BOOLEAN, pending : BOOLEAN, blocked : BOOLEAN,
                     needDrain : BOOLEAN, out : Seq([t : RecordTypes, n : Snapshots])]
    BY <2>1, Zenon DEF Conns, Records
  <2>5. Cardinality({i \in DOMAIN conn[c].out : conn[c].out[i].t = "event"}) <= HighWater
    BY <1>1 DEF ClientInv, Client, Socket, Count
  <2>6. conn[c].stage = "loading" <=> \E i \in DOMAIN loads : c \in loads[i].waiters
    BY <1>1 DEF LoadInv, Waits
  <2> QED
    BY <2>1, <2>4, <2>5, <2>6
<1>3. worker \in Workers /\ cached \in Caches /\ loads \in Seq(Loads) /\ resolved \in Seq(Snapshots)
      /\ late \subseteq Snapshots /\ missed \subseteq Clients /\ disconnects \in 0..MaxDisconnects
  BY <1>1 DEF Typed
<1> QED
  BY <1>2, <1>3 DEF TypeOK, Workers, Transfers, Caches, Loads, Views

LEMMA CatchupInit == Init => CatchupInv
<1> SUFFICES ASSUME Init PROVE CatchupInv
  OBVIOUS
<1> USE DEF Init
<1>0. \A S : <<>> \in Seq(S)
  OBVIOUS
<1>1. worker \in Workers /\ worker.seq = 0 /\ worker.asked = 0 /\ worker.marking = 0
      /\ worker.transfers = <<>> /\ ~worker.begun /\ ~worker.catchup /\ ~worker.catching
  BY <1>0 DEF Workers
<1>2. pipe \in Seq(Frames) /\ loads \in Seq(Loads) /\ resolved \in Seq(Snapshots)
      /\ DOMAIN pipe = {} /\ DOMAIN loads = {} /\ DOMAIN resolved = {}
      /\ Len(loads) = 0 /\ Len(resolved) = 0
  OBVIOUS
<1>3. /\ cached \in Caches /\ cached.current = -1 /\ cached.cache = -1 /\ cached.heard = 0
      /\ \A s \in Snapshots : cached.gen[s] = "none"
  BY DEF Caches
<1>4. \A c \in Clients : conn[c] = Closed /\ ui[c] \in Views /\ ui[c].view = {} /\ ui[c].cursor = -1
  BY DEF Views
<1>5. Typed
  <2> DEFINE u == [view |-> {}, cursor |-> -1, following |-> FALSE]
  <2>1. conn \in [Clients -> Conns]
    <3>1. conn = [c \in Clients |-> Closed]
      OBVIOUS
    <3> HIDE DEF Init
    <3> QED
      BY <3>1, ClosedFacts
  <2>2. ui \in [Clients -> Views]
    <3>1. ui = [c \in Clients |-> u]
      OBVIOUS
    <3>2. u \in Views
      BY DEF Views
    <3> HIDE DEF Init, u
    <3> QED
      BY <3>1, <3>2
  <2> QED
    BY <1>1, <1>2, <1>3, <2>1, <2>2 DEF Typed
<1>6. Count(pipe, "response") = 0
  <2>1. {i \in DOMAIN pipe : pipe[i].t = "response"} = {}
    BY <1>2
  <2> QED
    BY <2>1, FS_EmptySet DEF Count
<1>7. LoadInv
  <2>1. Balanced(worker, pipe, resolved, loads)
    BY <1>1, <1>2, <1>6 DEF Balanced
  <2>2. \A c \in Clients : conn[c].stage # "loading"
    BY <1>4, ClosedFacts
  <2> QED
    BY <1>2, <2>1, <2>2 DEF LoadInv, Separate, Waits
<1>8. Due(worker, pipe) = {}
  BY <1>1 DEF Due
<1>9. FlowInv
  <2> DEFINE w == worker
             p == pipe
             k == cached
             r == resolved
  <2>1. DOMAIN w.transfers = {} /\ \A s \in Snapshots : ~Stored(k, s)
    BY <1>1, <1>3 DEF Stored
  <2>2. /\ w.seq = 0 /\ ~w.begun /\ DOMAIN p = {} /\ DOMAIN r = {}
        /\ k.current = -1 /\ k.cache = -1 /\ k.heard = 0 /\ Due(w, p) = {}
    BY <1>1, <1>2, <1>3, <1>8
  <2> HIDE DEF w, p, k, r
  <2>3. Bounded(w, p, k, r)
    BY <2>1, <2>2 DEF Bounded
  <2>4. Ordered(p) /\ Ahead(w, p, k, r) /\ Matched(w, p) /\ Alternating(w, p) /\ Open(w, p, k)
    BY <2>2 DEF Ordered, Ahead, Matched, Alternating, Open
  <2>5. Current(k, late)
    BY <2>1, <2>2 DEF Current
  <2>6. Covered(w, p, k, r)
    BY <2>1, <2>2 DEF Covered
  <2>7. Flow(w, p, k, r, late)
    BY <2>3, <2>4, <2>5, <2>6 DEF Flow
  <2> QED
    BY <2>7 DEF FlowInv, w, p, k, r
<1>10. ClientInv
  <2> SUFFICES ASSUME NEW c \in Clients
               PROVE  Client(cached, Due(worker, pipe), ui[c], conn[c], c \in missed)
    BY DEF ClientInv
  <2> DEFINE k == cached
             u == ui[c]
             q == conn[c]
  <2>1. k.heard = 0 /\ u.view = {} /\ u.cursor = -1 /\ q = Closed
    BY <1>3, <1>4
  <2> HIDE DEF k, u, q
  <2>2. q.out = <<>> /\ q.stage = "none" /\ q.blocked = FALSE
    BY <2>1, ClosedFacts
  <2>3. DOMAIN q.out = {} /\ Len(q.out) = 0 /\ ~Streaming(q)
    BY <2>2 DEF Streaming
  <2>4. {i \in DOMAIN q.out : q.out[i].t = "event"} = {}
    BY <2>3
  <2>5. Count(q.out, "event") = 0
    BY <2>4, FS_EmptySet DEF Count
  <2>6. Socket(q)
    BY <2>2, <2>3, <2>5 DEF Socket
  <2>7. Shown(k, u, q)
    BY <2>1, <2>3 DEF Shown, Knows
  <2>8. Complete(u, q) /\ Follows({}, u, q)
    BY <2>2, <2>3 DEF Complete, Follows
  <2>9. Client(k, {}, u, q, c \in missed)
    BY <2>6, <2>7, <2>8 DEF Client
  <2> QED
    BY <1>8, <2>9 DEF k, u, q
<1> QED
  BY <1>5, <1>7, <1>9, <1>10 DEF CatchupInv

LEMMA DueNumbers ==
  ASSUME NEW w \in Workers, NEW p
  PROVE  Due(w, p) \subseteq Nat \ {0}
BY WorkerFacts DEF Due

-------------------------------------------------------------------------------
(* The worker's steps *)

LEMMA WorkerKeeps ==
  ASSUME CatchupInv, worker' \in Workers, pipe' \in Seq(Frames),
         Flow(worker', pipe', cached, resolved, late),
         Due(worker', pipe') \subseteq Due(worker, pipe),
         Balanced(worker', pipe', resolved, loads),
         UNCHANGED <<cached, loads, resolved, conn, ui, late, missed, disconnects>>
  PROVE  CatchupInv'
<1>1. Typed'
  BY DEF CatchupInv, Typed
<1>2. LoadInv'
  <2>1. LoadInv
    BY DEF CatchupInv
  <2>2. Separate(loads') /\ \A c \in Clients : conn'[c].stage = "loading" <=> Waits(loads', c)
    BY <2>1 DEF LoadInv
  <2>3. Balanced(worker', pipe', resolved', loads')
    OBVIOUS
  <2> QED
    BY <2>2, <2>3 DEF LoadInv
<1>3. FlowInv'
  BY DEF FlowInv
<1>4. ClientInv'
  <2> SUFFICES ASSUME NEW c \in Clients
               PROVE  Client(cached, Due(worker', pipe'), ui[c], conn[c], c \in missed)
    BY DEF ClientInv
  <2>1. /\ cached \in Caches /\ ui[c] \in Views /\ conn[c] \in Conns /\ (c \in missed) \in BOOLEAN
        /\ Client(cached, Due(worker, pipe), ui[c], conn[c], c \in missed)
    BY DEF CatchupInv, ClientInv, Typed
  <2> DEFINE lacks == c \in missed
  <2> HIDE DEF lacks
  <2> QED
    BY <2>1, ClientKept DEF lacks
<1> QED
  BY <1>1, <1>2, <1>3, <1>4 DEF CatchupInv

\* What the other lemmas need of the invariant.
LEMMA CatchupFacts ==
  ASSUME CatchupInv
  PROVE  /\ worker \in Workers /\ pipe \in Seq(Frames) /\ cached \in Caches
         /\ loads \in Seq(Loads) /\ resolved \in Seq(Snapshots)
         /\ Flow(worker, pipe, cached, resolved, late)
         /\ Separate(loads) /\ Balanced(worker, pipe, resolved, loads)
         /\ Count(pipe, "response") \in Nat /\ Len(resolved) \in Nat /\ Len(loads) \in Nat
         /\ worker.seq \in 0..MaxEvents /\ worker.asked \in Nat /\ worker.marking \in Nat
         /\ worker.transfers \in Seq(Transfers)
         /\ worker.begun \in BOOLEAN /\ worker.catching \in BOOLEAN /\ worker.catchup \in BOOLEAN
<1>1. /\ worker \in Workers /\ pipe \in Seq(Frames) /\ cached \in Caches
      /\ loads \in Seq(Loads) /\ resolved \in Seq(Snapshots)
  BY DEF CatchupInv, Typed
<1>2. Flow(worker, pipe, cached, resolved, late)
  BY DEF CatchupInv, FlowInv
<1>3. Separate(loads) /\ Balanced(worker, pipe, resolved, loads)
  BY DEF CatchupInv, LoadInv
<1>4. Count(pipe, "response") \in Nat
  BY <1>1, ResponseCount
<1>5. Len(resolved) \in Nat /\ Len(loads) \in Nat
  BY <1>1
<1>6. /\ worker.seq \in 0..MaxEvents /\ worker.asked \in Nat /\ worker.marking \in Nat
      /\ worker.transfers \in Seq(Transfers)
      /\ worker.begun \in BOOLEAN /\ worker.catching \in BOOLEAN /\ worker.catchup \in BOOLEAN
  BY <1>1 DEF Workers
<1> QED
  BY <1>1, <1>2, <1>3, <1>4, <1>5, <1>6

LEMMA EmitKeeps ==
  ASSUME CatchupInv, NEW final \in BOOLEAN, Emit(final)
  PROVE  CatchupInv'
<1> DEFINE n == worker.seq + 1
           f == [t |-> "event", n |-> n, final |-> final]
<1>t. /\ worker \in Workers /\ pipe \in Seq(Frames) /\ cached \in Caches /\ resolved \in Seq(Snapshots)
      /\ Flow(worker, pipe, cached, resolved, late) /\ Balanced(worker, pipe, resolved, loads)
      /\ worker.seq \in 0..MaxEvents
  BY CatchupFacts
<1>0. /\ n \in 1..MaxEvents /\ worker.seq < MaxEvents
      /\ UNCHANGED <<cached, loads, resolved, conn, ui, late, missed, disconnects>>
  BY <1>t DEF Emit
<1>1. CASE WorkerStreaming(worker)
  <2>1. worker' = [worker EXCEPT !.seq = worker.seq + 1, !.catchup = TRUE] /\ pipe' = pipe
    BY <1>1 DEF Emit
  <2>2. worker' \in Workers /\ Flow(worker', pipe', cached, resolved, late) /\ Due(worker', pipe') = {}
    BY <1>t, <1>0, <2>1, HeldFlow
  <2>3. worker'.asked = worker.asked /\ worker'.marking = worker.marking
    BY <1>t, <2>1 DEF Workers
  <2>4. Balanced(worker', pipe', resolved, loads)
    BY <1>t, <2>1, <2>3 DEF Balanced
  <2> QED
    BY <1>t, <1>0, <2>1, <2>2, <2>4, WorkerKeeps
<1>2. CASE ~WorkerStreaming(worker)
  <2>0. worker.transfers = <<>>
    BY <1>2 DEF WorkerStreaming
  <2>1. worker' = [worker EXCEPT !.seq = worker.seq + 1] /\ pipe' = Append(pipe, f)
    BY <1>2 DEF Emit
  <2>2. f \in Frames /\ Event(f) /\ f.n = worker.seq + 1
    BY <1>0, FrameFacts
  <2> HIDE DEF f, n
  <2>3. /\ worker' \in Workers /\ Flow(worker', pipe', cached, resolved, late)
        /\ Due(worker', pipe') \subseteq Due(worker, pipe)
    BY <1>t, <1>0, <2>0, <2>1, <2>2, SentFlow
  <2>4. pipe' \in Seq(Frames)
    BY <1>t, <2>1, <2>2, AppendEntries
  <2>5. worker'.asked = worker.asked /\ worker'.marking = worker.marking
    BY <1>t, <2>1 DEF Workers
  <2>6. ~Response(f)
    BY <2>2, FrameFacts
  <2>7. Count(pipe', "response") = Count(pipe, "response")
    BY <1>t, <2>1, <2>2, <2>6, ResponseCount
  <2>8. Balanced(worker', pipe', resolved, loads)
    BY <1>t, <2>5, <2>7 DEF Balanced
  <2> QED
    BY <1>0, <2>3, <2>4, <2>8, WorkerKeeps
<1> QED
  BY <1>1, <1>2

LEMMA MarkKeeps ==
  ASSUME CatchupInv, Mark
  PROVE  CatchupInv'
<1> DEFINE a == worker.asked - 1
           m == worker.marking + 1
<1>t. /\ worker \in Workers /\ pipe \in Seq(Frames) /\ Flow(worker, pipe, cached, resolved, late)
      /\ Balanced(worker, pipe, resolved, loads)
      /\ Count(pipe, "response") \in Nat /\ Len(resolved) \in Nat /\ Len(loads) \in Nat
      /\ worker.asked \in Nat /\ worker.marking \in Nat
  BY CatchupFacts
<1>0. /\ worker.asked > 0 /\ worker' = [worker EXCEPT !.asked = a, !.marking = m] /\ pipe' = pipe
      /\ UNCHANGED <<cached, loads, resolved, conn, ui, late, missed, disconnects>>
  BY DEF Mark
<1>1. a \in Nat /\ m \in Nat /\ a + m = worker.asked + worker.marking
  <2>1. worker.asked \in Nat /\ worker.marking \in Nat /\ worker.asked > 0
    BY <1>t, <1>0
  <2> QED
    BY <2>1
<1> HIDE DEF a, m
<1>2. /\ worker' \in Workers /\ worker'.asked = a /\ worker'.marking = m
      /\ worker'.seq = worker.seq /\ worker'.transfers = worker.transfers
      /\ worker'.begun = worker.begun /\ worker'.catching = worker.catching
      /\ worker'.catchup = worker.catchup
  <2>1. worker' = [seq |-> worker.seq, asked |-> a, marking |-> m, transfers |-> worker.transfers,
                   begun |-> worker.begun, catching |-> worker.catching, catchup |-> worker.catchup]
    BY <1>t, <1>0 DEF Workers
  <2> QED
    BY <1>t, <1>1, <2>1 DEF Workers
<1>3. Flow(worker', pipe', cached, resolved, late) /\ Due(worker', pipe') = Due(worker, pipe)
  BY <1>t, <1>0, <1>2, SameFlow
<1>4. Balanced(worker', pipe', resolved, loads)
  BY <1>t, <1>0, <1>1, <1>2 DEF Balanced
<1> QED
  BY <1>t, <1>0, <1>2, <1>3, <1>4, WorkerKeeps

LEMMA AnswerKeeps ==
  ASSUME CatchupInv, Answer
  PROVE  CatchupInv'
<1> DEFINE m == worker.marking - 1
           t == [id |-> worker.seq, purpose |-> "attach"]
           a == Append(worker.transfers, t)
           f == [t |-> "response", n |-> worker.seq]
<1>t. /\ worker \in Workers /\ pipe \in Seq(Frames) /\ cached \in Caches /\ resolved \in Seq(Snapshots)
      /\ Flow(worker, pipe, cached, resolved, late) /\ Balanced(worker, pipe, resolved, loads)
      /\ Count(pipe, "response") \in Nat /\ Len(resolved) \in Nat /\ Len(loads) \in Nat
      /\ worker.seq \in Snapshots /\ worker.asked \in Nat /\ worker.marking \in Nat
      /\ worker.transfers \in Seq(Transfers)
  BY CatchupFacts
<1>0. /\ worker.marking > 0 /\ worker' = [worker EXCEPT !.marking = m, !.transfers = a]
      /\ pipe' = Append(pipe, f)
      /\ UNCHANGED <<cached, loads, resolved, conn, ui, late, missed, disconnects>>
  BY DEF Answer
<1>1. m \in Nat /\ m + 1 = worker.marking
  BY <1>t, <1>0, SMTT(30)
<1>2. t \in Transfers
  BY <1>t DEF Transfers
<1>3. a \in Seq(Transfers)
  BY <1>t, <1>2, AppendEntries
<1>4. f \in Frames /\ Response(f) /\ f.n = worker.seq
  BY <1>t, FrameFacts
<1> HIDE DEF m, a, f
<1>5. /\ worker' \in Workers /\ worker'.asked = worker.asked /\ worker'.marking = m
      /\ worker'.seq = worker.seq /\ worker'.transfers = a
      /\ worker'.begun = worker.begun /\ worker'.catching = worker.catching
      /\ worker'.catchup = worker.catchup
  <2>1. worker' = [seq |-> worker.seq, asked |-> worker.asked, marking |-> m, transfers |-> a,
                   begun |-> worker.begun, catching |-> worker.catching, catchup |-> worker.catchup]
    BY <1>t, <1>0 DEF Workers
  <2> QED
    BY <1>t, <1>1, <1>3, <2>1 DEF Workers
<1>6. /\ Flow(worker', pipe', cached, resolved, late)
      /\ Due(worker', pipe') \subseteq Due(worker, pipe)
  <2>1. /\ worker'.transfers = Append(worker.transfers, [id |-> worker.seq, purpose |-> "attach"])
        /\ worker' \in Workers /\ worker'.seq = worker.seq /\ worker'.begun = worker.begun
        /\ worker'.catching = worker.catching /\ worker'.catchup = worker.catchup
    BY <1>5 DEF a
  <2>2. /\ worker \in Workers /\ pipe \in Seq(Frames) /\ cached \in Caches /\ resolved \in Seq(Snapshots)
        /\ Flow(worker, pipe, cached, resolved, late)
    BY <1>t
  <2>3. /\ Flow(worker', Append(pipe, f), cached, resolved, late)
        /\ Due(worker', Append(pipe, f)) \subseteq Due(worker, pipe)
    BY <1>4, <2>1, <2>2, AnswerFlow
  <2> QED
    BY <1>0, <2>3
<1>7. pipe' \in Seq(Frames)
  BY <1>t, <1>0, <1>4, AppendEntries
<1>8. Count(pipe', "response") = Count(pipe, "response") + 1
  BY <1>t, <1>0, <1>4, ResponseCount
<1>9. Balanced(worker', pipe', resolved, loads)
  <2>1. worker.asked + worker.marking + Count(pipe, "response") + Len(resolved) = Len(loads)
    BY <1>t DEF Balanced
  <2> DEFINE asked == worker.asked
             marking == worker.marking
             count == Count(pipe, "response")
  <2>2. asked \in Nat /\ marking \in Nat /\ count \in Nat /\ Len(resolved) \in Nat
    BY <1>t
  <2>3. m + 1 = marking /\ m \in Nat /\ asked + marking + count + Len(resolved) = Len(loads)
    BY <1>1, <2>1
  <2>4. worker'.asked = asked /\ worker'.marking = m /\ Count(pipe', "response") = count + 1
    BY <1>5, <1>8
  <2> HIDE DEF asked, marking, count
  <2>5. asked + m + (count + 1) + Len(resolved) = Len(loads)
    BY <2>2, <2>3
  <2>6. worker'.asked + worker'.marking + Count(pipe', "response") + Len(resolved) = Len(loads)
    BY <2>4, <2>5
  <2> QED
    BY <2>6 DEF Balanced
<1> QED
  BY <1>0, <1>5, <1>6, <1>7, <1>9, WorkerKeeps

LEMMA BeginKeeps ==
  ASSUME CatchupInv, Begin
  PROVE  CatchupInv'
<1> DEFINE f == [t |-> "begin", n |-> worker.transfers[1].id]
<1>t. /\ worker \in Workers /\ pipe \in Seq(Frames) /\ cached \in Caches /\ resolved \in Seq(Snapshots)
      /\ Flow(worker, pipe, cached, resolved, late) /\ Balanced(worker, pipe, resolved, loads)
      /\ worker.transfers \in Seq(Transfers)
  BY CatchupFacts
<1>0. /\ worker.transfers # <<>> /\ ~worker.begun
      /\ UNCHANGED <<cached, loads, resolved, conn, ui, late, missed, disconnects>>
  BY DEF Begin
<1>1. Head(worker.transfers) = worker.transfers[1] /\ 1 \in DOMAIN worker.transfers
  BY <1>t, <1>0
<1>2. worker' = [worker EXCEPT !.begun = TRUE] /\ pipe' = Append(pipe, f)
  BY <1>1 DEF Begin
<1>3. f \in Frames /\ Opening(f) /\ f.n = worker.transfers[1].id
  BY <1>t, <1>1, WorkerFacts, FrameFacts
<1> HIDE DEF f
<1>4. /\ worker' \in Workers /\ worker'.begun = TRUE
      /\ worker'.asked = worker.asked /\ worker'.marking = worker.marking
      /\ worker'.seq = worker.seq /\ worker'.transfers = worker.transfers
      /\ worker'.catching = worker.catching /\ worker'.catchup = worker.catchup
  BY <1>t, <1>2 DEF Workers
<1>5. /\ Flow(worker', pipe', cached, resolved, late)
      /\ Due(worker', pipe') \subseteq Due(worker, pipe)
  <2>1. /\ worker \in Workers /\ pipe \in Seq(Frames) /\ cached \in Caches /\ resolved \in Seq(Snapshots)
        /\ Flow(worker, pipe, cached, resolved, late)
    BY <1>t
  <2>2. /\ Flow(worker', Append(pipe, f), cached, resolved, late)
        /\ Due(worker', Append(pipe, f)) \subseteq Due(worker, pipe)
    BY <1>0, <1>3, <1>4, <2>1, BeginFlow
  <2> QED
    BY <1>2, <2>2
<1>6. pipe' \in Seq(Frames)
  BY <1>t, <1>2, <1>3, AppendEntries
<1>7. Count(pipe', "response") = Count(pipe, "response")
  <2>1. ~Response(f)
    BY <1>3, FrameFacts
  <2> QED
    BY <1>t, <1>2, <1>3, <2>1, ResponseCount
<1>8. Balanced(worker', pipe', resolved, loads)
  BY <1>t, <1>4, <1>7 DEF Balanced
<1> QED
  BY <1>0, <1>4, <1>5, <1>6, <1>8, WorkerKeeps

LEMMA EndKeeps ==
  ASSUME CatchupInv, End
  PROVE  CatchupInv'
<1> DEFINE t == worker.transfers[1]
           f == [t |-> "end", n |-> t.id, purpose |-> t.purpose]
           rest == Tail(worker.transfers)
           u == [worker EXCEPT !.begun = FALSE, !.transfers = rest]
<1>t. /\ worker \in Workers /\ pipe \in Seq(Frames) /\ cached \in Caches /\ resolved \in Seq(Snapshots)
      /\ Flow(worker, pipe, cached, resolved, late) /\ Balanced(worker, pipe, resolved, loads)
      /\ worker.transfers \in Seq(Transfers)
      /\ worker.catching \in BOOLEAN /\ worker.catchup \in BOOLEAN
  BY CatchupFacts
<1>0. /\ worker.begun
      /\ UNCHANGED <<cached, loads, resolved, conn, ui, late, missed, disconnects>>
  BY DEF End
<1>1. worker.transfers # <<>>
  BY <1>t, <1>0 DEF Flow, Matched
<1>2. Head(worker.transfers) = t /\ t \in Transfers /\ rest \in Seq(Transfers)
  BY <1>t, <1>1, TailEntries
<1>3. worker' = AfterTransfer(u) /\ pipe' = Append(pipe, f)
  BY <1>2 DEF End
<1>4. f \in Frames /\ Closing(f) /\ f.n = t.id /\ (Catchup(f) <=> OwnCatchup(t))
  <2>1. t.id \in Snapshots /\ t.purpose \in {"attach", "catchup"}
    BY <1>2 DEF Transfers
  <2> QED
    BY <2>1, FrameFacts DEF OwnCatchup
<1> HIDE DEF f, rest, t
<1>5. /\ u \in Workers /\ u.begun = FALSE /\ u.transfers = rest
      /\ u.asked = worker.asked /\ u.marking = worker.marking /\ u.seq = worker.seq
      /\ u.catching = worker.catching /\ u.catchup = worker.catchup
  <2>1. u = [seq |-> worker.seq, asked |-> worker.asked, marking |-> worker.marking, transfers |-> rest,
             begun |-> FALSE, catching |-> worker.catching, catchup |-> worker.catchup]
    <3>1. u = [worker EXCEPT !.begun = FALSE, !.transfers = rest]
      OBVIOUS
    <3> HIDE DEF u
    <3> QED
      BY <1>t, <3>1 DEF Workers
  <2> HIDE DEF u
  <2> QED
    BY <1>t, <1>2, <2>1 DEF Workers
<1> HIDE DEF u
<1>6. /\ worker' \in Workers /\ worker'.begun = FALSE /\ worker'.transfers = rest
      /\ worker'.asked = worker.asked /\ worker'.marking = worker.marking /\ worker'.seq = worker.seq
      /\ worker.catchup \/ worker.catching => worker'.catchup \/ worker'.catching
      /\ worker.catchup => worker'.catchup \/ rest = <<>>
  <2>1. CASE u.catchup /\ ~WorkerStreaming(u) /\ ~u.catching
    <3>1. worker' = [u EXCEPT !.catchup = FALSE, !.catching = TRUE]
      BY <1>3, <2>1 DEF AfterTransfer
    <3>2. worker' = [seq |-> u.seq, asked |-> u.asked, marking |-> u.marking, transfers |-> u.transfers,
                     begun |-> u.begun, catching |-> TRUE, catchup |-> FALSE]
      BY <1>5, <3>1 DEF Workers
    <3>3. rest = <<>>
      BY <1>5, <2>1 DEF WorkerStreaming
    <3> QED
      BY <1>5, <3>2, <3>3 DEF Workers
  <2>2. CASE ~(u.catchup /\ ~WorkerStreaming(u) /\ ~u.catching)
    <3>1. worker' = u
      BY <1>3, <2>2 DEF AfterTransfer
    <3> QED
      BY <1>5, <3>1
  <2> QED
    BY <2>1, <2>2
<1>7. /\ Flow(worker', pipe', cached, resolved, late)
      /\ Due(worker', pipe') \subseteq Due(worker, pipe)
  <2>1. /\ worker \in Workers /\ pipe \in Seq(Frames) /\ cached \in Caches /\ resolved \in Seq(Snapshots)
        /\ Flow(worker, pipe, cached, resolved, late)
    BY <1>t
  <2>2. /\ worker' \in Workers /\ worker'.seq = worker.seq /\ worker'.begun = FALSE
        /\ worker'.transfers = Tail(worker.transfers)
        /\ worker.catchup \/ worker.catching => worker'.catchup \/ worker'.catching
        /\ worker.catchup => worker'.catchup \/ worker'.transfers = <<>>
    BY <1>6 DEF rest
  <2>3. f.n = worker.transfers[1].id /\ (Catchup(f) <=> OwnCatchup(worker.transfers[1]))
    BY <1>4 DEF t
  <2>4. /\ Flow(worker', Append(pipe, f), cached, resolved, late)
        /\ Due(worker', Append(pipe, f)) \subseteq Due(worker, pipe)
    BY <1>0, <1>4, <2>1, <2>2, <2>3, EndFlow
  <2> QED
    BY <1>3, <2>4
<1>8. pipe' \in Seq(Frames)
  BY <1>t, <1>3, <1>4, AppendEntries
<1>9. Count(pipe', "response") = Count(pipe, "response")
  <2>1. ~Response(f)
    BY <1>4, FrameFacts
  <2> QED
    BY <1>t, <1>3, <1>4, <2>1, ResponseCount
<1>10. Balanced(worker', pipe', resolved, loads)
  BY <1>t, <1>6, <1>9 DEF Balanced
<1> QED
  BY <1>0, <1>6, <1>7, <1>8, <1>10, WorkerKeeps

LEMMA WorkerCatchupKeeps ==
  ASSUME CatchupInv, WorkerCatchup
  PROVE  CatchupInv'
<1> DEFINE t == [id |-> worker.seq, purpose |-> "catchup"]
           a == Append(worker.transfers, t)
<1>t. /\ worker \in Workers /\ pipe \in Seq(Frames) /\ cached \in Caches /\ resolved \in Seq(Snapshots)
      /\ Flow(worker, pipe, cached, resolved, late) /\ Balanced(worker, pipe, resolved, loads)
      /\ worker.seq \in Snapshots /\ worker.transfers \in Seq(Transfers)
  BY CatchupFacts
<1>0. /\ worker' = [worker EXCEPT !.catching = FALSE, !.transfers = a] /\ pipe' = pipe
      /\ UNCHANGED <<cached, loads, resolved, conn, ui, late, missed, disconnects>>
  BY DEF WorkerCatchup
<1>1. t \in Transfers
  BY <1>t DEF Transfers
<1>2. a \in Seq(Transfers)
  BY <1>t, <1>1, AppendEntries
<1> HIDE DEF a
<1>3. /\ worker' \in Workers /\ worker'.asked = worker.asked /\ worker'.marking = worker.marking
      /\ worker'.seq = worker.seq /\ worker'.transfers = a
      /\ worker'.begun = worker.begun /\ worker'.catching = FALSE
      /\ worker'.catchup = worker.catchup
  <2>1. worker' = [seq |-> worker.seq, asked |-> worker.asked, marking |-> worker.marking, transfers |-> a,
                   begun |-> worker.begun, catching |-> FALSE, catchup |-> worker.catchup]
    BY <1>t, <1>0 DEF Workers
  <2> QED
    BY <1>t, <1>2, <2>1 DEF Workers
<1>4. /\ Flow(worker', pipe', cached, resolved, late)
      /\ Due(worker', pipe') \subseteq Due(worker, pipe)
  <2>1. /\ worker'.transfers = Append(worker.transfers, [id |-> worker.seq, purpose |-> "catchup"])
        /\ worker' \in Workers /\ worker'.seq = worker.seq /\ worker'.begun = worker.begun
        /\ worker'.catching = FALSE /\ worker'.catchup = worker.catchup
    BY <1>3 DEF a
  <2>2. /\ worker \in Workers /\ pipe \in Seq(Frames) /\ cached \in Caches /\ resolved \in Seq(Snapshots)
        /\ Flow(worker, pipe, cached, resolved, late)
    BY <1>t
  <2>3. /\ Flow(worker', pipe, cached, resolved, late)
        /\ Due(worker', pipe) \subseteq Due(worker, pipe)
    BY <2>1, <2>2, CatchingFlow
  <2> QED
    BY <1>0, <2>3
<1>5. Balanced(worker', pipe', resolved, loads)
  BY <1>t, <1>0, <1>3 DEF Balanced
<1> QED
  BY <1>t, <1>0, <1>3, <1>4, <1>5, WorkerKeeps

-------------------------------------------------------------------------------
(* The frames that the supervisor receives *)

LEMMA ReceiveKeeps ==
  ASSUME CatchupInv, pipe # <<>>, pipe' = Tail(pipe),
         UNCHANGED <<worker, ui, late, missed, disconnects>>,
         cached' \in Caches, resolved' \in Seq(Snapshots), conn' \in [Clients -> Conns],
         loads' \in Seq(Loads), Separate(loads'), Len(loads') = Len(loads),
         \A c \in Clients : /\ Waits(loads', c) <=> Waits(loads, c)
                            /\ conn'[c].stage = "loading" <=> conn[c].stage = "loading"
                            /\ Client(cached', Due(worker, Tail(pipe)), ui[c], conn'[c], c \in missed),
         Flow(worker, Tail(pipe), cached', resolved', late),
         Count(Tail(pipe), "response") + Len(resolved') = Count(pipe, "response") + Len(resolved)
  PROVE  CatchupInv'
<1>1. Typed'
  <2>1. Typed
    BY DEF CatchupInv
  <2>2. pipe' \in Seq(Frames)
    BY <2>1, TailEntries DEF Typed
  <2> QED
    BY <2>1, <2>2 DEF Typed
<1>2. LoadInv'
  <2>1. LoadInv
    BY DEF CatchupInv
  <2>2. Balanced(worker', pipe', resolved', loads')
    <3> DEFINE a == worker.asked
               m == worker.marking
               n == Count(pipe, "response")
               o == Count(Tail(pipe), "response")
               d == Len(resolved)
               e == Len(resolved')
               l == Len(loads)
    <3>1. a \in Nat /\ m \in Nat /\ n \in Nat /\ d \in Nat /\ l \in Nat
      BY CatchupFacts
    <3>2. o \in Nat /\ e \in Nat
      <4>1. Tail(pipe) \in Seq(Frames)
        BY CatchupFacts, TailEntries
      <4>2. o \in Nat
        BY <4>1, ResponseCount
      <4>3. e \in Nat
        OBVIOUS
      <4> QED
        BY <4>2, <4>3
    <3>3. a + m + n + d = l /\ o + e = n + d
      BY <2>1 DEF LoadInv, Balanced
    <3> HIDE DEF a, m, n, o, d, e, l
    <3>4. a + m + o + e = l
      BY <3>1, <3>2, <3>3
    <3> QED
      BY <3>4 DEF Balanced, a, m, o, e, l
  <2> QED
    BY <2>1, <2>2 DEF LoadInv
<1>3. FlowInv'
  BY DEF FlowInv
<1>4. ClientInv'
  BY DEF ClientInv
<1> QED
  BY <1>1, <1>2, <1>3, <1>4 DEF CatchupInv

\* What the other lemmas need of the invariant about the clients.
LEMMA ClientFacts ==
  ASSUME CatchupInv, NEW c \in Clients
  PROVE  /\ conn[c] \in Conns /\ ui[c] \in Views /\ (c \in missed) \in BOOLEAN
         /\ Client(cached, Due(worker, pipe), ui[c], conn[c], c \in missed)
         /\ conn[c].stage = "loading" <=> Waits(loads, c)
         /\ conn \in [Clients -> Conns]
<1>1. conn \in [Clients -> Conns] /\ ui \in [Clients -> Views]
  BY DEF CatchupInv, Typed
<1>2. Client(cached, Due(worker, pipe), ui[c], conn[c], c \in missed)
  BY DEF CatchupInv, ClientInv
<1>3. conn[c].stage = "loading" <=> Waits(loads, c)
  BY DEF CatchupInv, LoadInv
<1> QED
  BY <1>1, <1>2, <1>3

LEMMA DeliverFacts ==
  ASSUME CatchupInv, Receive
  PROVE  /\ pipe # <<>> /\ pipe' = Tail(pipe) /\ pipe[1] \in Frames /\ Head(pipe) = pipe[1]
         /\ UNCHANGED <<worker, ui, late, missed, disconnects>>
         /\ Event(pipe[1]) =>
              /\ cached' = [Invalidated(cached, pipe[1].final) EXCEPT !.heard = pipe[1].n]
              /\ loads' = [i \in DOMAIN loads |-> [loads[i] EXCEPT !.valid = @ /\ ~pipe[1].final]]
              /\ conn' = [c \in Clients |-> Forward(conn[c], pipe[1].n)]
              /\ resolved' = resolved /\ pipe[1].final \in BOOLEAN
         /\ Response(pipe[1]) => /\ resolved' = Append(resolved, pipe[1].n)
                                 /\ UNCHANGED <<cached, loads, conn>>
         /\ Opening(pipe[1]) => /\ cached' = Begun(cached, pipe[1].n)
                                /\ UNCHANGED <<loads, resolved, conn>>
         /\ Closing(pipe[1]) =>
              /\ cached' = Ended(cached, pipe[1].n)
              /\ conn' = IF Published(cached, pipe[1].n) /\ Catchup(pipe[1])
                         THEN [c \in Clients |-> IF Attached(conn[c]) THEN Queue(conn[c], TRUE)
                                                 ELSE conn[c]]
                         ELSE conn
              /\ UNCHANGED <<loads, resolved>>
<1>1. pipe # <<>> /\ pipe' = Tail(pipe) /\ Deliver(Head(pipe))
      /\ UNCHANGED <<worker, ui, late, missed, disconnects>>
  BY DEF Receive
<1>2. pipe \in Seq(Frames)
  BY CatchupFacts
<1>3. pipe[1] \in Frames /\ Head(pipe) = pipe[1]
  BY <1>1, <1>2, TailEntries
<1> DEFINE f == pipe[1]
<1>4. f \in Frames /\ Deliver(f)
  BY <1>1, <1>3
<1> HIDE DEF f
<1>5. ASSUME Event(f)
      PROVE  /\ cached' = [Invalidated(cached, f.final) EXCEPT !.heard = f.n]
             /\ loads' = [i \in DOMAIN loads |-> [loads[i] EXCEPT !.valid = @ /\ ~f.final]]
             /\ conn' = [c \in Clients |-> Forward(conn[c], f.n)]
             /\ resolved' = resolved /\ f.final \in BOOLEAN
  <2>1. f.t = "event"
    BY <1>5 DEF Event
  <2>2. f.final \in BOOLEAN
    BY <1>4, <2>1 DEF Frames
  <2>3. /\ cached' = [Invalidated(cached, f.final) EXCEPT !.heard = f.n]
        /\ loads' = [i \in DOMAIN loads |-> [loads[i] EXCEPT !.valid = @ /\ ~f.final]]
        /\ conn' = [c \in Clients |-> Forward(conn[c], f.n)]
        /\ resolved' = resolved
    BY <1>4, <2>1 DEF Deliver
  <2> QED
    BY <2>2, <2>3
<1>6. ASSUME Response(f)
      PROVE  resolved' = Append(resolved, f.n) /\ UNCHANGED <<cached, loads, conn>>
  BY <1>4, <1>6 DEF Deliver, Response
<1>7. ASSUME Opening(f)
      PROVE  cached' = Begun(cached, f.n) /\ UNCHANGED <<loads, resolved, conn>>
  BY <1>4, <1>7 DEF Deliver, Opening
<1>8. ASSUME Closing(f)
      PROVE  /\ cached' = Ended(cached, f.n)
             /\ conn' = IF Published(cached, f.n) /\ Catchup(f)
                        THEN [c \in Clients |-> IF Attached(conn[c]) THEN Queue(conn[c], TRUE)
                                                ELSE conn[c]]
                        ELSE conn
             /\ UNCHANGED <<loads, resolved>>
  BY <1>4, <1>8 DEF Deliver, Closing, Catchup
<1> QED
  BY <1>1, <1>3, <1>5, <1>6, <1>7, <1>8 DEF f

LEMMA EventReceived ==
  ASSUME CatchupInv, Receive, Event(pipe[1])
  PROVE  CatchupInv'
<1> DEFINE n == pipe[1].n
           final == pipe[1].final
           f == [i \in DOMAIN loads |-> [loads[i] EXCEPT !.valid = @ /\ ~final]]
<1>d. /\ pipe # <<>> /\ pipe' = Tail(pipe) /\ pipe[1] \in Frames
      /\ UNCHANGED <<worker, ui, late, missed, disconnects>>
      /\ cached' = [Invalidated(cached, final) EXCEPT !.heard = n]
      /\ loads' = f
      /\ conn' = [c \in Clients |-> Forward(conn[c], n)]
      /\ resolved' = resolved /\ final \in BOOLEAN
  BY DeliverFacts
<1>t. /\ worker \in Workers /\ pipe \in Seq(Frames) /\ cached \in Caches
      /\ loads \in Seq(Loads) /\ resolved \in Seq(Snapshots)
      /\ Flow(worker, pipe, cached, resolved, late)
      /\ Separate(loads) /\ Count(pipe, "response") \in Nat /\ Len(resolved) \in Nat
  BY CatchupFacts
<1>1. n \in Snapshots /\ n # 0 /\ n \in Int /\ ~Response(pipe[1])
  BY <1>d, FrameFacts
<1>2. f \in Seq(Loads) /\ Len(f) = Len(loads) /\ Separate(f) /\ \A c : Waits(f, c) <=> Waits(loads, c)
  <2>1. f = [i \in DOMAIN loads |-> f[i]]
    OBVIOUS
  <2>2. \A i \in DOMAIN loads : f[i] = [loads[i] EXCEPT !.valid = loads[i].valid /\ ~final]
    OBVIOUS
  <2> HIDE DEF f, final
  <2>3. ASSUME NEW i \in DOMAIN loads
        PROVE  /\ f[i] \in Loads /\ (f[i].valid => loads[i].valid)
               /\ f[i].waiters = loads[i].waiters
    <3> DEFINE valid == loads[i].valid /\ ~final
    <3>1. loads[i] \in Loads /\ valid \in BOOLEAN /\ (valid => loads[i].valid)
      BY <1>t
    <3>2. f[i] = [loads[i] EXCEPT !.valid = valid]
      BY <2>2
    <3> HIDE DEF valid
    <3> QED
      BY <3>1, <3>2 DEF Loads
  <2>4. f \in Seq(Loads) /\ Len(f) = Len(loads) /\ DOMAIN f = DOMAIN loads /\ Separate(f)
    BY <1>t, <2>1, <2>3, MappedLoads
  <2>5. \A c : Waits(f, c) <=> Waits(loads, c)
    BY <2>3, <2>4 DEF Waits
  <2> QED
    BY <2>4, <2>5
<1> HIDE DEF f
<1>3. /\ cached' \in Caches /\ cached'.heard = n /\ cached'.cache = None
      /\ cached'.current \in {cached.current, None}
      /\ \A s \in Snapshots : Stored(cached', s) => Stored(cached, s)
  BY <1>t, <1>d, <1>1, InvalidatedFacts, SMTT(30) DEF Stored
<1>4. /\ Flow(worker, Tail(pipe), cached', resolved, late)
      /\ Due(worker, Tail(pipe)) \subseteq Due(worker, pipe) \cup {n}
      /\ \A s \in Int : Knows(cached, s) => s < n /\ Knows(cached', s)
  <2>1. cached'.heard = pipe[1].n
    BY <1>3
  <2>2. /\ worker \in Workers /\ pipe \in Seq(Frames) /\ cached \in Caches /\ resolved \in Seq(Snapshots)
        /\ Flow(worker, pipe, cached, resolved, late) /\ pipe # <<>>
    BY <1>t, <1>d
  <2> QED
    BY <1>3, <2>1, <2>2, EventFlow
<1>5. Knows(cached', n)
  BY <1>1, <1>3 DEF Knows
<1>6. ASSUME NEW c \in Clients
      PROVE  /\ conn'[c] \in Conns /\ conn'[c].stage = conn[c].stage
             /\ Client(cached', Due(worker, Tail(pipe)), ui[c], conn'[c], c \in missed)
  <2> DEFINE lacks == c \in missed
  <2>1. /\ conn[c] \in Conns /\ ui[c] \in Views /\ lacks \in BOOLEAN
        /\ Client(cached, Due(worker, pipe), ui[c], conn[c], lacks)
    BY <1>6, ClientFacts
  <2>2. conn'[c] = Forward(conn[c], n)
    BY <1>d
  <2> HIDE DEF lacks, n
  <2>3. conn'[c] \in Conns /\ conn'[c].stage = conn[c].stage
    <3>1. n \in Snapshots /\ conn[c] \in Conns
      BY <1>1, <2>1
    <3> DEFINE q == conn[c]
    <3> HIDE DEF q
    <3>2. Forward(q, n) \in Conns /\ Forward(q, n).stage = q.stage
      BY <3>1, ForwardFacts DEF q
    <3> QED
      BY <2>2, <3>2 DEF q
  <2>4. Client(cached', Due(worker, Tail(pipe)), ui[c], Forward(conn[c], n), lacks)
    <3> DEFINE j    == cached'
               q    == conn[c]
               u    == ui[c]
               due  == Due(worker, pipe)
               due2 == Due(worker, Tail(pipe))
    <3>1. /\ cached \in Caches /\ j \in Caches /\ u \in Views /\ q \in Conns
          /\ n \in Snapshots /\ n # 0 /\ lacks \in BOOLEAN
      BY <1>t, <1>1, <1>3, <2>1
    <3>2. Client(cached, due, u, q, lacks)
      BY <2>1
    <3>3. /\ \A s \in Int : Knows(cached, s) => s < n /\ Knows(j, s)
          /\ Knows(j, n) /\ due2 \subseteq due \cup {n}
      BY <1>4, <1>5
    <3> HIDE DEF j, q, u, due, due2
    <3>4. Client(j, due2, u, Forward(q, n), lacks)
      BY <3>1, <3>2, <3>3, ClientForward
    <3> QED
      BY <3>4 DEF j, q, u, due2
  <2> QED
    BY <2>2, <2>3, <2>4 DEF lacks
<1>7. conn' \in [Clients -> Conns]
  BY <1>d, <1>6
<1>8. Count(Tail(pipe), "response") + Len(resolved') = Count(pipe, "response") + Len(resolved)
  BY <1>t, <1>d, <1>1, ResponseCount
<1>9. /\ loads' \in Seq(Loads) /\ Separate(loads') /\ Len(loads') = Len(loads)
      /\ \A c \in Clients : Waits(loads', c) <=> Waits(loads, c)
  BY <1>d, <1>2
<1>10. /\ resolved' \in Seq(Snapshots) /\ Flow(worker, Tail(pipe), cached', resolved', late)
       /\ pipe # <<>> /\ pipe' = Tail(pipe) /\ UNCHANGED <<worker, ui, late, missed, disconnects>>
       /\ cached' \in Caches
  BY <1>t, <1>d, <1>3, <1>4
<1> QED
  BY <1>6, <1>7, <1>8, <1>9, <1>10, ReceiveKeeps

LEMMA ResponseReceived ==
  ASSUME CatchupInv, Receive, Response(pipe[1])
  PROVE  CatchupInv'
<1>d. /\ pipe # <<>> /\ pipe' = Tail(pipe) /\ pipe[1] \in Frames
      /\ UNCHANGED <<worker, ui, late, missed, disconnects>>
      /\ resolved' = Append(resolved, pipe[1].n)
      /\ UNCHANGED <<cached, loads, conn>>
  BY DeliverFacts
<1>t. /\ worker \in Workers /\ pipe \in Seq(Frames) /\ cached \in Caches
      /\ loads \in Seq(Loads) /\ resolved \in Seq(Snapshots)
      /\ Flow(worker, pipe, cached, resolved, late)
      /\ Separate(loads) /\ Count(pipe, "response") \in Nat /\ Len(resolved) \in Nat
  BY CatchupFacts
<1>1. /\ resolved' \in Seq(Snapshots) /\ Flow(worker, Tail(pipe), cached, resolved', late)
      /\ Due(worker, Tail(pipe)) \subseteq Due(worker, pipe)
  BY <1>t, <1>d, ResponseFlow
<1>2. ASSUME NEW c \in Clients
      PROVE  Client(cached', Due(worker, Tail(pipe)), ui[c], conn'[c], c \in missed)
  <2> DEFINE lacks == c \in missed
  <2>1. /\ conn[c] \in Conns /\ ui[c] \in Views /\ lacks \in BOOLEAN
        /\ Client(cached, Due(worker, pipe), ui[c], conn[c], lacks)
    BY <1>2, ClientFacts
  <2> HIDE DEF lacks
  <2>2. Client(cached, Due(worker, Tail(pipe)), ui[c], conn[c], lacks)
    BY <1>t, <1>1, <2>1, ClientKept
  <2> QED
    BY <1>d, <2>2 DEF lacks
<1>3. Count(Tail(pipe), "response") + Len(resolved') = Count(pipe, "response") + Len(resolved)
  <2>1. Count(Tail(pipe), "response") = Count(pipe, "response") - 1
    BY <1>t, <1>d, ResponseCount
  <2>2. Len(resolved') = Len(resolved) + 1
    BY <1>d
  <2> QED
    BY <1>t, <2>1, <2>2
<1>4. conn' \in [Clients -> Conns] /\ \A c \in Clients : conn'[c] = conn[c]
  <2>1. conn \in [Clients -> Conns]
    BY DEF CatchupInv, Typed
  <2> QED
    BY <1>d, <2>1
<1>5. /\ cached' \in Caches /\ loads' \in Seq(Loads) /\ Separate(loads') /\ Len(loads') = Len(loads)
      /\ \A c \in Clients : Waits(loads', c) <=> Waits(loads, c)
      /\ Flow(worker, Tail(pipe), cached', resolved', late)
      /\ pipe # <<>> /\ pipe' = Tail(pipe) /\ UNCHANGED <<worker, ui, late, missed, disconnects>>
  BY <1>t, <1>d, <1>1
<1> QED
  BY <1>1, <1>2, <1>3, <1>4, <1>5, ReceiveKeeps

LEMMA OpeningReceived ==
  ASSUME CatchupInv, Receive, Opening(pipe[1])
  PROVE  CatchupInv'
<1>d. /\ pipe # <<>> /\ pipe' = Tail(pipe) /\ pipe[1] \in Frames
      /\ UNCHANGED <<worker, ui, late, missed, disconnects>>
      /\ cached' = Begun(cached, pipe[1].n)
      /\ UNCHANGED <<loads, resolved, conn>>
  BY DeliverFacts
<1>t. /\ worker \in Workers /\ pipe \in Seq(Frames) /\ cached \in Caches
      /\ loads \in Seq(Loads) /\ resolved \in Seq(Snapshots)
      /\ Flow(worker, pipe, cached, resolved, late)
      /\ Separate(loads) /\ Count(pipe, "response") \in Nat /\ Len(resolved) \in Nat
  BY CatchupFacts
<1>1. /\ cached' \in Caches /\ Flow(worker, Tail(pipe), cached', resolved, late)
      /\ Due(worker, Tail(pipe)) \subseteq Due(worker, pipe)
      /\ \A s \in Int : Knows(cached, s) => Knows(cached', s)
  BY <1>t, <1>d, OpeningFlow
<1>2. ASSUME NEW c \in Clients
      PROVE  Client(cached', Due(worker, Tail(pipe)), ui[c], conn'[c], c \in missed)
  <2> DEFINE lacks == c \in missed
  <2>1. /\ conn[c] \in Conns /\ ui[c] \in Views /\ lacks \in BOOLEAN
        /\ Client(cached, Due(worker, pipe), ui[c], conn[c], lacks)
    BY <1>2, ClientFacts
  <2> HIDE DEF lacks
  <2>2. Client(cached', Due(worker, Tail(pipe)), ui[c], conn[c], lacks)
    BY <1>t, <1>1, <2>1, ClientKept
  <2> QED
    BY <1>d, <2>2 DEF lacks
<1>3. Count(Tail(pipe), "response") + Len(resolved') = Count(pipe, "response") + Len(resolved)
  <2>1. ~Response(pipe[1])
    BY <1>d, FrameFacts
  <2> QED
    BY <1>t, <1>d, <2>1, ResponseCount
<1>4. conn' \in [Clients -> Conns] /\ \A c \in Clients : conn'[c] = conn[c]
  <2>1. conn \in [Clients -> Conns]
    BY DEF CatchupInv, Typed
  <2> QED
    BY <1>d, <2>1
<1>5. /\ loads' \in Seq(Loads) /\ Separate(loads') /\ Len(loads') = Len(loads)
      /\ \A c \in Clients : Waits(loads', c) <=> Waits(loads, c)
      /\ resolved' \in Seq(Snapshots) /\ Flow(worker, Tail(pipe), cached', resolved', late)
      /\ pipe # <<>> /\ pipe' = Tail(pipe) /\ UNCHANGED <<worker, ui, late, missed, disconnects>>
  BY <1>t, <1>d, <1>1
<1> QED
  BY <1>1, <1>2, <1>3, <1>4, <1>5, ReceiveKeeps

LEMMA ClosingReceived ==
  ASSUME CatchupInv, Receive, Closing(pipe[1])
  PROVE  CatchupInv'
<1> DEFINE published == Published(cached, pipe[1].n) /\ Catchup(pipe[1])
<1>d. /\ pipe # <<>> /\ pipe' = Tail(pipe) /\ pipe[1] \in Frames
      /\ UNCHANGED <<worker, ui, late, missed, disconnects>>
      /\ cached' = Ended(cached, pipe[1].n)
      /\ conn' = IF published
                 THEN [c \in Clients |-> IF Attached(conn[c]) THEN Queue(conn[c], TRUE) ELSE conn[c]]
                 ELSE conn
      /\ UNCHANGED <<loads, resolved>>
  BY DeliverFacts
<1>t. /\ worker \in Workers /\ pipe \in Seq(Frames) /\ cached \in Caches
      /\ loads \in Seq(Loads) /\ resolved \in Seq(Snapshots)
      /\ Flow(worker, pipe, cached, resolved, late)
      /\ Separate(loads) /\ Count(pipe, "response") \in Nat /\ Len(resolved) \in Nat
  BY CatchupFacts
<1>1. /\ cached' \in Caches /\ Flow(worker, Tail(pipe), cached', resolved, late)
      /\ published \/ Due(worker, Tail(pipe)) \subseteq Due(worker, pipe)
      /\ \A s \in Int : Knows(cached, s) => Knows(cached', s)
  BY <1>t, <1>d, ClosingFlow
<1> HIDE DEF published
<1>2. ASSUME NEW c \in Clients
      PROVE  /\ conn'[c] \in Conns /\ (conn'[c].stage = "loading" <=> conn[c].stage = "loading")
             /\ Client(cached', Due(worker, Tail(pipe)), ui[c], conn'[c], c \in missed)
  <2> DEFINE lacks == c \in missed
             queued == IF Attached(conn[c]) THEN Queue(conn[c], TRUE) ELSE conn[c]
  <2>1. /\ conn[c] \in Conns /\ ui[c] \in Views /\ lacks \in BOOLEAN
        /\ Client(cached, Due(worker, pipe), ui[c], conn[c], lacks)
    BY <1>2, ClientFacts
  <2> HIDE DEF lacks
  <2>2. CASE published
    <3>1. conn'[c] = queued
      BY <1>d, <2>2
    <3>2. queued \in Conns /\ (queued.stage = "loading" <=> conn[c].stage = "loading")
      <4>1. /\ Queue(conn[c], TRUE) \in Conns
            /\ \/ Queue(conn[c], TRUE).stage = conn[c].stage
               \/ conn[c].stage = "idle" /\ Queue(conn[c], TRUE).stage = "seeking"
        BY <2>1, QueueFacts
      <4> QED
        BY <2>1, <4>1
    <3>3. Client(cached, Due(worker, Tail(pipe)), ui[c], queued, lacks)
      BY <1>t, <2>1, ClientQueued
    <3> HIDE DEF queued
    <3>4. Client(cached', Due(worker, Tail(pipe)), ui[c], queued, lacks)
      BY <1>t, <1>1, <2>1, <3>2, <3>3, ClientKept
    <3> QED
      BY <3>1, <3>2, <3>4 DEF lacks
  <2>3. CASE ~published
    <3>1. conn'[c] = conn[c]
      BY <1>d, <2>3
    <3>2. Client(cached', Due(worker, Tail(pipe)), ui[c], conn[c], lacks)
      BY <1>t, <1>1, <2>1, <2>3, ClientKept
    <3> QED
      BY <2>1, <3>1, <3>2 DEF lacks
  <2> QED
    BY <2>2, <2>3
<1>3. Count(Tail(pipe), "response") + Len(resolved') = Count(pipe, "response") + Len(resolved)
  <2>1. ~Response(pipe[1])
    BY <1>d, FrameFacts
  <2> QED
    BY <1>t, <1>d, <2>1, ResponseCount
<1>4. conn' \in [Clients -> Conns]
  <2>1. conn \in [Clients -> Conns]
    BY DEF CatchupInv, Typed
  <2>2. conn' = [c \in Clients |-> conn'[c]]
    BY <1>d, <2>1
  <2> QED
    BY <1>2, <2>2
<1>5. /\ loads' \in Seq(Loads) /\ Separate(loads') /\ Len(loads') = Len(loads)
      /\ \A c \in Clients : Waits(loads', c) <=> Waits(loads, c)
      /\ resolved' \in Seq(Snapshots) /\ Flow(worker, Tail(pipe), cached', resolved', late)
      /\ pipe # <<>> /\ pipe' = Tail(pipe) /\ UNCHANGED <<worker, ui, late, missed, disconnects>>
  BY <1>t, <1>d, <1>1
<1> QED
  BY <1>1, <1>2, <1>3, <1>4, <1>5, ReceiveKeeps

LEMMA ReceivedKeeps ==
  ASSUME CatchupInv, Receive
  PROVE  CatchupInv'
<1>1. Event(pipe[1]) \/ Response(pipe[1]) \/ Opening(pipe[1]) \/ Closing(pipe[1])
  BY DeliverFacts, FrameFacts
<1> QED
  BY <1>1, EventReceived, ResponseReceived, OpeningReceived, ClosingReceived

-------------------------------------------------------------------------------
(* The snapshots that loads end with *)

LEMMA ServeStage ==
  ASSUME NEW q \in Conns, NEW s \in Snapshots, NEW k \in Caches
  PROVE  Serve(q, s, k).stage # "loading" /\ Chosen(k, s) \in Snapshots
<1>1. Chosen(k, s) \in Snapshots
  <2>1. k.cache \in Snapshots \cup {None}
    BY DEF Caches
  <2> QED
    BY <2>1 DEF Chosen
<1>2. CASE Chosen(k, s) = k.current
  <2>1. k.current \in Snapshots
    BY <1>1, <1>2
  <2>2. Stream(q, k.current).stage \in {"beginWait", "body"}
    BY <2>1, StreamFacts
  <2>3. Serve(q, s, k) = Stream(q, k.current)
    BY <1>2 DEF Serve
  <2> QED
    BY <1>1, <2>2, <2>3
<1>3. CASE Chosen(k, s) # k.current
  <2>1. Fail(q).stage # "loading"
    BY FailFacts, ClosedFacts
  <2>2. Serve(q, s, k) = Fail(q)
    BY <1>3 DEF Serve
  <2> QED
    BY <1>1, <2>1, <2>2
<1> QED
  BY <1>2, <1>3

\* A client that ends its attachClient, where lates holds the late snapshots.
LEMMA ServedClient ==
  ASSUME NEW k \in Caches, NEW u \in Views, NEW q \in Conns, NEW s \in Snapshots, NEW due, NEW due2,
         NEW lacks \in BOOLEAN, NEW lacks2 \in BOOLEAN, Client(k, due, u, q, lacks), lacks => lacks2,
         NEW lates, Current(k, lates), k.cache = None => Behind(s, k) \subseteq lates,
         Chosen(k, s) \in lates \/ (Chosen(k, s) # k.current /\ q.purpose = "resync") => lacks2,
         \A n \in due2 : n \in Int /\ Knows(k, n)
  PROVE  Client(k, due2, u, Serve(q, s, k), lacks2) /\ Serve(q, s, k) \in Conns
<1>1. ASSUME ~lacks2, Chosen(k, s) = k.current PROVE k.heard <= k.current
  <2>0. Chosen(k, s) \notin lates
    BY <1>1
  <2>1. CASE k.cache # None
    <3>1. k.cache \notin lates /\ k.cache = k.current
      BY <1>1, <2>0, <2>1 DEF Chosen
    <3> QED
      BY <2>1, <3>1 DEF Current
  <2>2. CASE k.cache = None
    <3>1. ~(Chosen(k, s) < k.heard)
      BY <2>0, <2>2 DEF Behind
    <3>2. k.heard \in Int /\ k.current \in Int
      BY DEF Caches
    <3> QED
      BY <1>1, <3>1, <3>2
  <2> QED
    BY <2>1, <2>2
<1>2. ~lacks2 => IF Chosen(k, s) = k.current THEN k.heard <= k.current ELSE q.purpose # "resync"
  <2>1. CASE Chosen(k, s) = k.current
    BY <1>1, <2>1
  <2>2. CASE Chosen(k, s) # k.current
    BY <2>2
  <2> QED
    BY <2>1, <2>2
<1> HIDE DEF Snapshots
<1> QED
  BY <1>2, ClientServed

\* Every client that is served, or not, and whether it is marked.
LEMMA ServedKeeps ==
  ASSUME CatchupInv, NEW k \in Caches, NEW cs \in SUBSET Clients, NEW s \in Snapshots, NEW lates,
         NEW r, Flow(worker, pipe, k, r, lates), k.cache = None => Behind(s, k) \subseteq lates,
         \A n \in Int : Knows(cached, n) => Knows(k, n), Served(cs, s, k, lates)
  PROVE  /\ conn' \in [Clients -> Conns] /\ missed' \subseteq Clients
         /\ \A c \in Clients :
              /\ conn'[c].stage = "loading" <=> conn[c].stage = "loading" /\ c \notin cs
              /\ Client(k, Due(worker, pipe), ui[c], conn'[c], c \in missed')
<1> DEFINE due == Due(worker, pipe)
<1>1. Current(k, lates) /\ \A n \in due : n \in Int /\ Knows(k, n)
  <2>1. worker \in Workers
    BY CatchupFacts
  <2>2. \A n \in due : n \in Int
    BY <2>1, DueNumbers
  <2>3. Current(k, lates) /\ Covered(worker, pipe, k, r)
    BY DEF Flow
  <2> QED
    BY <2>2, <2>3 DEF Covered
<1>2. /\ conn' = [c \in Clients |-> IF c \in cs THEN Serve(conn[c], s, k) ELSE conn[c]]
      /\ missed' = missed \cup {c \in cs : \/ Chosen(k, s) \in lates
                                           \/ Chosen(k, s) # k.current /\ conn[c].purpose = "resync"}
  BY DEF Served
<1>3. missed \subseteq Clients /\ cached \in Caches
  BY DEF CatchupInv, Typed
<1>4. missed' \subseteq Clients
  BY <1>2, <1>3
<1>5. ASSUME NEW c \in Clients
      PROVE  /\ conn'[c] \in Conns
             /\ conn'[c].stage = "loading" <=> conn[c].stage = "loading" /\ c \notin cs
             /\ Client(k, due, ui[c], conn'[c], c \in missed')
  <2> DEFINE q == conn[c]
             u == ui[c]
             lacks == c \in missed
             lacks2 == c \in missed'
  <2>1. /\ q \in Conns /\ u \in Views /\ lacks \in BOOLEAN /\ lacks2 \in BOOLEAN /\ (lacks => lacks2)
        /\ Client(cached, due, u, q, lacks)
    BY <1>2, <1>5, ClientFacts
  <2>2. conn'[c] = IF c \in cs THEN Serve(q, s, k) ELSE q
    BY <1>2
  <2>3. c \in cs /\ (Chosen(k, s) \in lates \/ (Chosen(k, s) # k.current /\ q.purpose = "resync")) => lacks2
    BY <1>2
  <2> HIDE DEF q, u, lacks, lacks2, due
  <2>4. Client(k, due, u, q, lacks)
    BY <1>3, <2>1, ClientKept
  <2>5. CASE c \in cs
    <3>1. Client(k, due, u, Serve(q, s, k), lacks2) /\ Serve(q, s, k) \in Conns
      BY <1>1, <2>1, <2>3, <2>4, <2>5, ServedClient
    <3>2. Serve(q, s, k).stage # "loading"
      BY <2>1, ServeStage
    <3> QED
      BY <2>2, <2>5, <3>1, <3>2 DEF u, lacks2
  <2>6. CASE c \notin cs
    <3>1. Client(k, due, u, q, lacks2)
      BY <1>3, <2>1, ClientKept
    <3> QED
      BY <2>1, <2>2, <2>6, <3>1 DEF q, u, lacks2
  <2> QED
    BY <2>5, <2>6
<1>6. conn' \in [Clients -> Conns]
  BY <1>2, <1>5
<1> QED
  BY <1>4, <1>5, <1>6

\* A load that ends: its response is the next, and it is the oldest load.
LEMMA LoadFacts ==
  ASSUME CatchupInv, resolved # <<>>
  PROVE  /\ loads # <<>> /\ Head(loads) \in Loads /\ Tail(loads) \in Seq(Loads) /\ Separate(Tail(loads))
         /\ Head(resolved) \in Snapshots /\ Tail(resolved) \in Seq(Snapshots)
         /\ Len(Tail(loads)) = Len(loads) - 1 /\ Len(Tail(resolved)) = Len(resolved) - 1
         /\ \A c : Waits(Tail(loads), c) <=> Waits(loads, c) /\ c \notin Head(loads).waiters
         /\ \A c \in Head(loads).waiters : Waits(loads, c)
<1>1. /\ worker.asked \in Nat /\ worker.marking \in Nat /\ Count(pipe, "response") \in Nat
      /\ loads \in Seq(Loads) /\ resolved \in Seq(Snapshots) /\ Separate(loads)
      /\ Balanced(worker, pipe, resolved, loads)
  BY CatchupFacts
<1>2. /\ Head(resolved) \in Snapshots /\ Tail(resolved) \in Seq(Snapshots)
      /\ Len(resolved) \in Nat \ {0} /\ Len(Tail(resolved)) = Len(resolved) - 1
  BY <1>1, TailEntries
<1>3. loads # <<>>
  <2>1. Len(loads) # 0
    BY <1>1, <1>2, SMTT(30) DEF Balanced
  <2> QED
    BY <2>1
<1>4. /\ Head(loads) \in Loads /\ Tail(loads) \in Seq(Loads) /\ Separate(Tail(loads))
      /\ Len(Tail(loads)) = Len(loads) - 1
      /\ \A c : Waits(Tail(loads), c) <=> Waits(loads, c) /\ c \notin Head(loads).waiters
  BY <1>1, <1>3, TailLoads
<1>5. \A c \in Head(loads).waiters : Waits(loads, c)
  <2>1. 1 \in DOMAIN loads /\ Head(loads) = loads[1]
    BY <1>1, <1>3, TailEntries
  <2> QED
    BY <2>1 DEF Waits
<1> QED
  BY <1>2, <1>3, <1>4, <1>5

LEMMA LoadedValidKeeps ==
  ASSUME CatchupInv, resolved # <<>>, resolved' = Tail(resolved), LoadedValid,
         UNCHANGED <<pipe, ui, disconnects>>
  PROVE  CatchupInv'
<1> DEFINE load == Head(loads)
           h == Head(resolved)
           k == CacheLoaded(cached, h, load.observed)
           s == IF Outrun(cached, h, load.observed) THEN cached.current ELSE h
           cs == load.waiters
<1>t. /\ worker \in Workers /\ pipe \in Seq(Frames) /\ cached \in Caches
      /\ loads \in Seq(Loads) /\ resolved \in Seq(Snapshots)
      /\ Flow(worker, pipe, cached, resolved, late)
      /\ Balanced(worker, pipe, resolved, loads)
      /\ worker.asked \in Nat /\ worker.marking \in Nat /\ Count(pipe, "response") \in Nat
      /\ Len(resolved) \in Nat /\ Len(loads) \in Nat
  BY CatchupFacts
<1>l. /\ load \in Loads /\ Tail(loads) \in Seq(Loads) /\ Separate(Tail(loads))
      /\ h \in Snapshots /\ Tail(resolved) \in Seq(Snapshots)
      /\ Len(Tail(loads)) = Len(loads) - 1 /\ Len(Tail(resolved)) = Len(resolved) - 1
      /\ \A c : Waits(Tail(loads), c) <=> Waits(loads, c) /\ c \notin cs
  BY LoadFacts
<1>v. /\ cached' = k /\ loads' = Tail(loads) /\ late' = late \cup Behind(s, k) /\ worker' = worker
      /\ IF Validating(k)
         THEN /\ conn' = [c \in Clients |-> IF c \in cs THEN [conn[c] EXCEPT !.stage = "loaded", !.snap = s]
                                            ELSE conn[c]]
              /\ UNCHANGED missed
         ELSE Served(cs, s, k, late')
  BY DEF LoadedValid
<1>1. load.observed \in Snapshots \cup {None} /\ cs \in SUBSET Clients
  BY <1>l DEF Loads
<1>2. /\ k \in Caches /\ k.heard = cached.heard
      /\ IF Outrun(cached, h, load.observed) THEN k = cached /\ cached.current # None
         ELSE k.current = h /\ k.cache = h
  <2> DEFINE o == load.observed
  <2>1. cached \in Caches /\ h \in Snapshots /\ o \in Snapshots \cup {None}
    BY <1>t, <1>l, <1>1
  <2> HIDE DEF h, o
  <2>2. /\ CacheLoaded(cached, h, o) \in Caches
        /\ CacheLoaded(cached, h, o).heard = cached.heard
        /\ IF Outrun(cached, h, o)
           THEN CacheLoaded(cached, h, o) = cached /\ cached.current # None
           ELSE CacheLoaded(cached, h, o).current = h /\ CacheLoaded(cached, h, o).cache = h
    BY <2>1, CacheLoadedFacts
  <2> QED
    BY <2>2 DEF o
<1>3. s \in Snapshots
  BY <1>t, <1>l, <1>2 DEF Caches
<1>4. ~Outrun(cached, h, load.observed) => s = h
  OBVIOUS
<1>o. Outrun(cached, h, load.observed) \in BOOLEAN
  BY DEF Outrun
<1> HIDE DEF s, k, load, h, cs
<1>5. late' \subseteq Snapshots
  <2>1. Chosen(k, s) \in Snapshots
    BY <1>2, <1>3, ClosedFacts, ServeStage
  <2>2. late \subseteq Snapshots
    BY DEF CatchupInv, Typed
  <2> QED
    BY <1>v, <2>1, <2>2 DEF Behind
<1>6. k.cache # None => k.cache \in late' \/ k.heard <= k.cache
  <2>1. CASE Outrun(cached, h, load.observed)
    <3>1. k = cached /\ Current(cached, late)
      BY <1>t, <1>2, <2>1 DEF Flow
    <3> QED
      BY <1>v, <3>1 DEF Current
  <2>2. CASE ~Outrun(cached, h, load.observed)
    <3>1. k.cache = s /\ s \in Int /\ k.heard \in Int /\ s # None
      BY <1>2, <1>3, <1>4, <2>2 DEF Caches
    <3>2. Chosen(k, s) = s
      BY <3>1 DEF Chosen
    <3>3. s < k.heard => s \in late'
      BY <1>v, <3>2 DEF Behind
    <3> QED
      BY <3>1, <3>3
  <2> QED
    BY <2>1, <2>2
<1>7. /\ Flow(worker, pipe, k, Tail(resolved), late')
      /\ \A n \in Int : Knows(cached, n) => Knows(k, n)
  <2>1. late \subseteq late'
    BY <1>v
  <2> QED
    BY <1>t, <1>1, <1>6, <2>1, LoadedFlow DEF k, h
<1>8. Behind(s, k) \subseteq late'
  BY <1>v
<1>9. /\ conn' \in [Clients -> Conns] /\ missed' \subseteq Clients
      /\ \A c \in Clients :
           /\ conn'[c].stage = "loading" <=> conn[c].stage = "loading" /\ c \notin cs
           /\ Client(k, Due(worker, pipe), ui[c], conn'[c], c \in missed')
  <2>1. CASE ~Validating(k)
    <3>1. Served(cs, s, k, late')
      BY <1>v, <2>1
    <3> QED
      BY <1>1, <1>2, <1>3, <1>7, <1>8, <3>1, ServedKeeps
  <2>2. CASE Validating(k)
    <3>1. /\ missed' = missed
          /\ conn' = [c \in Clients |-> IF c \in cs THEN [conn[c] EXCEPT !.stage = "loaded", !.snap = s]
                                        ELSE conn[c]]
      BY <1>v, <2>2
    <3>2. ASSUME NEW c \in Clients
          PROVE  /\ conn'[c] \in Conns
                 /\ conn'[c].stage = "loading" <=> conn[c].stage = "loading" /\ c \notin cs
                 /\ Client(k, Due(worker, pipe), ui[c], conn'[c], c \in missed)
      <4> DEFINE q == conn[c]
                 u == ui[c]
                 p == conn'[c]
                 lacks == c \in missed
                 due == Due(worker, pipe)
      <4>1. /\ q \in Conns /\ u \in Views /\ lacks \in BOOLEAN /\ Client(cached, due, u, q, lacks)
        BY <3>2, ClientFacts
      <4>2. p = IF c \in cs THEN [q EXCEPT !.stage = "loaded", !.snap = s] ELSE q
        BY <3>1
      <4> HIDE DEF q, u, p, lacks, due
      <4>3. Client(k, due, u, q, lacks)
        BY <1>t, <1>2, <1>7, <4>1, ClientKept
      <4>4. CASE c \in cs
        <5>1. p = [q EXCEPT !.stage = "loaded", !.snap = s]
          BY <4>2, <4>4
        <5>2. /\ p \in Conns /\ p.out = q.out /\ p.blocked = q.blocked /\ p.stage = "loaded" /\ p.snap = s
          BY <1>3, <4>1, <5>1 DEF Conns, Stages
        <5>3. p.snap # None
          BY <1>3, <5>2
        <5>4. Client(k, due, u, p, lacks)
          BY <1>2, <4>1, <4>3, <5>2, <5>3, ClientWaits
        <5> QED
          BY <4>4, <5>2, <5>4 DEF p, u, lacks, due
      <4>5. CASE c \notin cs
        BY <4>1, <4>2, <4>3, <4>5 DEF p, q, u, lacks, due
      <4> QED
        BY <4>4, <4>5
    <3>3. conn' \in [Clients -> Conns]
      BY <3>1, <3>2
    <3>4. missed' \subseteq Clients
      BY <3>1 DEF CatchupInv, Typed
    <3> QED
      BY <3>1, <3>2, <3>3, <3>4
  <2> QED
    BY <2>1, <2>2
<1>10. Typed'
  <2>1. Typed
    BY DEF CatchupInv
  <2> QED
    BY <1>l, <1>v, <1>2, <1>5, <1>9, <2>1 DEF Typed
<1>11. LoadInv'
  <2>1. Balanced(worker', pipe', resolved', loads')
    <3>1. Balanced(worker, pipe, Tail(resolved), Tail(loads))
      BY <1>t, <1>l, SMTT(30) DEF Balanced
    <3> QED
      BY <1>v, <3>1
  <2>2. \A c \in Clients : conn[c].stage = "loading" <=> Waits(loads, c)
    BY DEF CatchupInv, LoadInv
  <2> QED
    BY <1>l, <1>v, <1>9, <2>1, <2>2 DEF LoadInv
<1>12. FlowInv'
  BY <1>v, <1>7 DEF FlowInv
<1>13. ClientInv'
  BY <1>v, <1>9 DEF ClientInv
<1> QED
  BY <1>10, <1>11, <1>12, <1>13 DEF CatchupInv

LEMMA LoadedInvalidKeeps ==
  ASSUME CatchupInv, resolved # <<>>, resolved' = Tail(resolved), LoadedInvalid,
         UNCHANGED <<pipe, ui, disconnects>>
  PROVE  CatchupInv'
<1> DEFINE cs == Head(loads).waiters
           again == {c \in cs : ~conn[c].retried}
           failed == cs \ again
           rest == Tail(loads)
           joined == Join(rest, again)
           asked == worker.asked + Len(joined) + 1 - Len(loads)
<1>t. /\ worker \in Workers /\ pipe \in Seq(Frames) /\ cached \in Caches
      /\ loads \in Seq(Loads) /\ resolved \in Seq(Snapshots)
      /\ Flow(worker, pipe, cached, resolved, late)
      /\ Balanced(worker, pipe, resolved, loads)
      /\ worker.asked \in Nat /\ worker.marking \in Nat /\ Count(pipe, "response") \in Nat
      /\ Len(resolved) \in Nat /\ Len(loads) \in Nat
  BY CatchupFacts
<1>l. /\ Head(loads) \in Loads /\ rest \in Seq(Loads) /\ Separate(rest)
      /\ Tail(resolved) \in Seq(Snapshots)
      /\ Len(rest) = Len(loads) - 1 /\ Len(Tail(resolved)) = Len(resolved) - 1
      /\ \A c : Waits(rest, c) <=> Waits(loads, c) /\ c \notin cs
      /\ \A c \in cs : Waits(loads, c)
  BY LoadFacts
<1>v. /\ loads' = joined /\ worker' = [worker EXCEPT !.asked = asked]
      /\ conn' = [c \in Clients |-> CASE c \in again -> [conn[c] EXCEPT !.retried = TRUE]
                                      [] c \in failed -> Fail(conn[c])
                                      [] OTHER -> conn[c]]
      /\ missed' = missed \cup {c \in failed : conn[c].purpose = "resync"}
      /\ UNCHANGED <<cached, late>>
  BY DEF LoadedInvalid
<1>1. cs \in SUBSET Clients
  BY <1>l DEF Loads
<1>2. again \in SUBSET Clients /\ \A c \in again : ~Waits(rest, c)
  BY <1>l, <1>1
<1> HIDE DEF again, rest
<1>3. /\ joined \in Seq(Loads) /\ Separate(joined) /\ Len(rest) \in Nat
      /\ Len(joined) \in {Len(rest), Len(rest) + 1}
      /\ \A c : Waits(joined, c) <=> Waits(rest, c) \/ c \in again
  BY <1>t, <1>l, <1>2, JoinFacts
<1> HIDE DEF joined
<1>4. asked \in Nat
  <2> DEFINE a == worker.asked
             l == Len(loads)
             m == Len(rest)
             j == Len(joined)
  <2>1. a \in Nat /\ l \in Nat /\ m = l - 1 /\ j \in {m, m + 1} /\ asked = a + j + 1 - l
    BY <1>t, <1>l, <1>3
  <2> HIDE DEF asked, a, l, m, j
  <2> QED
    BY <2>1
<1>5. asked + worker.marking + Count(pipe, "response") + Len(Tail(resolved)) = Len(joined)
  <2> DEFINE a == worker.asked
             m == worker.marking
             n == Count(pipe, "response")
             d == Len(resolved)
             e == Len(Tail(resolved))
             l == Len(loads)
             j == Len(joined)
  <2>1. /\ a \in Nat /\ m \in Nat /\ n \in Nat /\ d \in Nat /\ l \in Nat /\ j \in Nat
        /\ a + m + n + d = l /\ e = d - 1
    BY <1>t, <1>l, <1>3 DEF Balanced
  <2>2. asked = a + j + 1 - l
    OBVIOUS
  <2> HIDE DEF asked, a, m, n, d, e, l, j
  <2>3. asked + m + n + e = j
    BY <2>1, <2>2
  <2> QED
    BY <2>3 DEF m, n, e, j
<1> HIDE DEF asked
<1>6. /\ worker' \in Workers /\ worker'.asked = asked /\ worker'.marking = worker.marking
      /\ worker'.seq = worker.seq /\ worker'.transfers = worker.transfers
      /\ worker'.begun = worker.begun /\ worker'.catching = worker.catching
      /\ worker'.catchup = worker.catchup
  BY <1>t, <1>v, <1>4 DEF Workers
<1>7. Flow(worker, pipe, cached, Tail(resolved), late)
  <2> DEFINE j == CacheLoaded(cached, Head(resolved), None)
             m == late \cup {j.cache}
  <2>1. late \subseteq m /\ (j.cache # None => j.cache \in m \/ j.heard <= j.cache)
    OBVIOUS
  <2> HIDE DEF m
  <2> QED
    BY <1>t, <2>1, LoadedFlow
<1>8. Flow(worker', pipe, cached, Tail(resolved), late) /\ Due(worker', pipe) = Due(worker, pipe)
  BY <1>t, <1>6, <1>7, SameFlow
<1>9. ASSUME NEW c \in Clients
      PROVE  /\ conn'[c] \in Conns
             /\ conn'[c].stage = "loading" <=> Waits(joined, c)
             /\ Client(cached, Due(worker, pipe), ui[c], conn'[c], c \in missed')
  <2> DEFINE q == conn[c]
             u == ui[c]
             p == conn'[c]
             lacks == c \in missed
             lacks2 == c \in missed'
             due == Due(worker, pipe)
  <2>1. /\ q \in Conns /\ u \in Views /\ lacks \in BOOLEAN /\ lacks2 \in BOOLEAN
        /\ Client(cached, due, u, q, lacks)
        /\ q.stage = "loading" <=> Waits(loads, c)
    BY <1>9, ClientFacts
  <2>2. p = CASE c \in again -> [q EXCEPT !.retried = TRUE]
              [] c \in failed -> Fail(q)
              [] OTHER -> q
    BY <1>v
  <2>3. (c \notin failed => lacks2 = lacks) /\ (c \in failed /\ q.purpose = "resync" => lacks2)
    BY <1>v
  <2>4. \/ c \in again /\ c \notin failed /\ c \in cs
        \/ c \in failed /\ c \notin again /\ c \in cs
        \/ c \notin again /\ c \notin failed /\ c \notin cs
    BY DEF again
  <2> HIDE DEF q, u, p, lacks, lacks2, due, failed
  <2>5. CASE c \in again /\ c \notin failed /\ c \in cs
    <3>1. p = [q EXCEPT !.retried = TRUE]
      BY <2>2, <2>5
    <3>2. p \in Conns /\ p.out = q.out /\ p.blocked = q.blocked /\ p.stage = q.stage
          /\ p.snap = q.snap /\ p.pending = q.pending
      BY <2>1, <3>1 DEF Conns
    <3>3. Client(cached, due, u, p, lacks)
      BY <1>t, <2>1, <3>2, ClientSame
    <3>4. p.stage = "loading" /\ Waits(joined, c)
      BY <1>l, <1>3, <2>1, <2>5, <3>2
    <3> QED
      BY <2>3, <2>5, <3>2, <3>3, <3>4 DEF p, u, lacks2, due
  <2>6. CASE c \in failed /\ c \notin again /\ c \in cs
    <3>1. p = Fail(q)
      BY <2>2, <2>6
    <3>2. p \in Conns /\ p.stage # "loading"
      BY <2>1, <3>1, FailFacts, ClosedFacts
    <3>3. Client(cached, due, u, p, lacks2)
      BY <1>t, <2>1, <2>3, <2>6, <3>1, ClientFailed
    <3>4. ~Waits(joined, c)
      BY <1>l, <1>3, <2>6
    <3> QED
      BY <3>2, <3>3, <3>4 DEF p, u, lacks2, due
  <2>7. CASE c \notin again /\ c \notin failed /\ c \notin cs
    <3>1. p = q
      BY <2>2, <2>7
    <3>2. Waits(joined, c) <=> Waits(loads, c)
      BY <1>l, <1>3, <2>7
    <3> QED
      BY <2>1, <2>3, <2>7, <3>1, <3>2 DEF p, u, lacks2, due
  <2> QED
    BY <2>4, <2>5, <2>6, <2>7
<1>10. conn' \in [Clients -> Conns]
  <2>1. conn' = [c \in Clients |-> conn'[c]]
    BY <1>v
  <2> QED
    BY <1>9, <2>1
<1>11. Typed'
  <2>1. Typed
    BY DEF CatchupInv
  <2>2. missed' \subseteq Clients
    BY <1>1, <1>v, <2>1 DEF Typed
  <2> QED
    BY <1>l, <1>v, <1>3, <1>6, <1>10, <2>1, <2>2 DEF Typed
<1>12. LoadInv'
  <2>1. Balanced(worker', pipe', resolved', loads')
    BY <1>v, <1>5, <1>6 DEF Balanced
  <2> QED
    BY <1>v, <1>3, <1>9, <2>1 DEF LoadInv
<1>13. FlowInv'
  BY <1>v, <1>8 DEF FlowInv
<1>14. ClientInv'
  BY <1>v, <1>8, <1>9 DEF ClientInv
<1> QED
  BY <1>11, <1>12, <1>13, <1>14 DEF CatchupInv

-------------------------------------------------------------------------------
(* The steps of one client *)

LEMMA OneKeeps ==
  ASSUME CatchupInv, NEW c \in Clients, NEW p \in Conns, NEW v \in Views,
         conn' = [conn EXCEPT ![c] = p], ui' = [ui EXCEPT ![c] = v],
         p.stage = "loading" <=> conn[c].stage = "loading",
         Client(cached, Due(worker, pipe), v, p, c \in missed),
         UNCHANGED <<worker, pipe, cached, loads, resolved, late, missed, disconnects>>
  PROVE  CatchupInv'
<1>1. Typed /\ LoadInv /\ FlowInv /\ ClientInv
  BY DEF CatchupInv
<1>2. conn \in [Clients -> Conns] /\ ui \in [Clients -> Views]
  BY <1>1 DEF Typed
<1>3. \A d \in Clients : /\ conn'[d] = IF d = c THEN p ELSE conn[d]
                         /\ ui'[d] = IF d = c THEN v ELSE ui[d]
  BY <1>2
<1>4. conn' \in [Clients -> Conns] /\ ui' \in [Clients -> Views]
  BY <1>2
<1>5. Typed'
  BY <1>1, <1>4 DEF Typed
<1>6. LoadInv'
  <2>1. \A d \in Clients : conn'[d].stage = "loading" <=> Waits(loads, d)
    BY <1>1, <1>3 DEF LoadInv
  <2> QED
    BY <1>1, <2>1 DEF LoadInv
<1>7. FlowInv'
  BY <1>1 DEF FlowInv
<1>8. ClientInv'
  <2>1. ASSUME NEW d \in Clients
        PROVE  Client(cached, Due(worker, pipe), ui'[d], conn'[d], d \in missed)
    <3>1. CASE d = c
      BY <1>3, <3>1
    <3>2. CASE d # c
      BY <1>1, <1>3, <3>2 DEF ClientInv
    <3> QED
      BY <3>1, <3>2
  <2> QED
    BY <2>1 DEF ClientInv
<1> QED
  BY <1>5, <1>6, <1>7, <1>8 DEF CatchupInv

\* The same, with an unchanged view.
LEMMA ConnectionKeeps ==
  ASSUME CatchupInv, NEW c \in Clients, NEW p \in Conns, conn' = [conn EXCEPT ![c] = p],
         p.stage = "loading" <=> conn[c].stage = "loading",
         Client(cached, Due(worker, pipe), ui[c], p, c \in missed),
         UNCHANGED <<worker, pipe, cached, loads, resolved, ui, late, missed, disconnects>>
  PROVE  CatchupInv'
<1>1. ui[c] \in Views /\ ui \in [Clients -> Views]
  BY DEF CatchupInv, Typed
<1>2. ui' = [ui EXCEPT ![c] = ui[c]]
  BY <1>1
<1> QED
  BY <1>1, <1>2, OneKeeps

LEMMA AttachKeeps ==
  ASSUME CatchupInv, NEW c \in Clients, Attach(c)
  PROVE  CatchupInv'
<1> DEFINE q == conn[c]
           p == [q EXCEPT !.stage = "seeking"]
           lacks == c \in missed
<1>1. /\ q \in Conns /\ ui[c] \in Views /\ lacks \in BOOLEAN /\ cached \in Caches
      /\ Client(cached, Due(worker, pipe), ui[c], q, lacks)
  BY ClientFacts, CatchupFacts
<1>2. /\ q.stage = "none" /\ conn' = [conn EXCEPT ![c] = p]
      /\ UNCHANGED <<worker, pipe, cached, loads, resolved, ui, late, missed, disconnects>>
  BY DEF Attach
<1>3. p \in Conns /\ p.out = q.out /\ p.blocked = q.blocked /\ p.stage = "seeking"
  BY <1>1 DEF Conns, Stages
<1> HIDE DEF q, p, lacks
<1>4. Client(cached, Due(worker, pipe), ui[c], p, lacks)
  BY <1>1, <1>3, ClientWaits
<1>5. p.stage = "loading" <=> conn[c].stage = "loading"
  BY <1>2, <1>3 DEF q
<1> QED
  BY <1>2, <1>3, <1>4, <1>5, ConnectionKeeps DEF lacks

LEMMA FinishKeeps ==
  ASSUME CatchupInv, NEW c \in Clients, Finish(c)
  PROVE  CatchupInv'
<1> DEFINE q == conn[c]
           ended == Write(q, "end", q.snap)
           held == [ended EXCEPT !.stage = "endWait"]
           r == IF Accepts(q) THEN Release(ended) ELSE held
           lacks == c \in missed
           due == Due(worker, pipe)
<1>1. /\ q \in Conns /\ ui[c] \in Views /\ lacks \in BOOLEAN /\ cached \in Caches
      /\ worker \in Workers /\ Client(cached, due, ui[c], q, lacks)
  BY ClientFacts, CatchupFacts
<1>2. /\ q.stage = "body" /\ conn' = [conn EXCEPT ![c] = r]
      /\ UNCHANGED <<worker, pipe, cached, loads, resolved, ui, late, missed, disconnects>>
  BY DEF Finish
<1>3. due \subseteq Nat \ {0}
  BY <1>1, DueNumbers
<1> HIDE DEF q, lacks, due
<1>4. r \in Conns /\ Client(cached, due, ui[c], r, lacks)
  BY <1>1, <1>2, <1>3, ClientFinished
<1>5. r.stage # "loading"
  <2>1. q.snap \in Snapshots
    <3>1. Streaming(q)
      BY <1>2 DEF Streaming
    <3> QED
      BY <1>1, <3>1 DEF Client, Socket, Conns
  <2>2. ended \in Conns
    BY <1>1, <2>1, WriteFacts
  <2> HIDE DEF ended
  <2>3. Release(ended).stage # "loading"
    BY <2>2, ReleaseFacts
  <2>4. held.stage = "endWait"
    BY <2>2 DEF Conns
  <2> HIDE DEF held
  <2> QED
    BY <2>3, <2>4
<1> HIDE DEF r
<1>6. r.stage = "loading" <=> conn[c].stage = "loading"
  BY <1>2, <1>5 DEF q
<1> QED
  BY <1>2, <1>4, <1>6, ConnectionKeeps DEF lacks, due

LEMMA DrainKeeps ==
  ASSUME CatchupInv, NEW c \in Clients, Drain(c)
  PROVE  CatchupInv'
<1> DEFINE q == conn[c]
           r == Drained(q)
           lacks == c \in missed
           due == Due(worker, pipe)
<1>1. /\ q \in Conns /\ ui[c] \in Views /\ lacks \in BOOLEAN /\ cached \in Caches
      /\ worker \in Workers /\ Client(cached, due, ui[c], q, lacks)
  BY ClientFacts, CatchupFacts
<1>2. /\ q.out = <<>> /\ conn' = [conn EXCEPT ![c] = r]
      /\ UNCHANGED <<worker, pipe, cached, loads, resolved, ui, late, missed, disconnects>>
  BY DEF Drain, Drained
<1>3. due \subseteq Nat \ {0}
  BY <1>1, DueNumbers
<1> HIDE DEF q, lacks, due
<1>4. /\ r \in Conns /\ Client(cached, due, ui[c], r, lacks)
      /\ r.stage = "loading" <=> q.stage = "loading"
  BY <1>1, <1>2, <1>3, ClientDrained
<1> HIDE DEF r
<1> QED
  BY <1>2, <1>4, ConnectionKeeps DEF q, lacks, due

LEMMA ReadKeeps ==
  ASSUME CatchupInv, NEW c \in Clients, Read(c)
  PROVE  CatchupInv'
<1> DEFINE q == conn[c]
           u == ui[c]
           r == [q EXCEPT !.out = Tail(q.out)]
           v == Applied(u, Head(q.out))
           lacks == c \in missed
           due == Due(worker, pipe)
<1>1. /\ q \in Conns /\ u \in Views /\ lacks \in BOOLEAN /\ cached \in Caches
      /\ worker \in Workers /\ Client(cached, due, u, q, lacks)
  BY ClientFacts, CatchupFacts
<1>2. /\ q.out # <<>> /\ conn' = [conn EXCEPT ![c] = r] /\ ui' = [ui EXCEPT ![c] = v]
      /\ UNCHANGED <<worker, pipe, cached, loads, resolved, late, missed, disconnects>>
  BY DEF Read
<1>3. due \subseteq Nat \ {0}
  BY <1>1, DueNumbers
<1> HIDE DEF q, u, lacks, due
<1>4. r \in Conns /\ v \in Views /\ Client(cached, due, v, r, lacks)
  BY <1>1, <1>2, <1>3, ClientReads
<1>5. r.stage = q.stage
  BY <1>1 DEF Conns
<1> HIDE DEF r, v
<1> QED
  BY <1>2, <1>4, <1>5, OneKeeps DEF q, lacks, due

\* A client that ends its attachClient with a snapshot at hand.
LEMMA ServedOne ==
  ASSUME CatchupInv, NEW c \in Clients, NEW s \in Snapshots, conn[c].stage # "loading",
         cached.cache = None => Behind(s, cached) \subseteq late',
         late \subseteq late', late' \subseteq Snapshots, Served({c}, s, cached, late'),
         UNCHANGED <<worker, pipe, cached, loads, resolved, ui, disconnects>>
  PROVE  CatchupInv'
<1>1. /\ worker \in Workers /\ pipe \in Seq(Frames) /\ cached \in Caches
      /\ loads \in Seq(Loads) /\ resolved \in Seq(Snapshots)
      /\ Flow(worker, pipe, cached, resolved, late) /\ Typed /\ LoadInv
  BY CatchupFacts DEF CatchupInv
<1>2. Flow(worker, pipe, cached, resolved, late')
  BY <1>1 DEF Flow, Current
<1>3. /\ conn' \in [Clients -> Conns] /\ missed' \subseteq Clients
      /\ \A d \in Clients :
           /\ conn'[d].stage = "loading" <=> conn[d].stage = "loading" /\ d \notin {c}
           /\ Client(cached, Due(worker, pipe), ui[d], conn'[d], d \in missed')
  <2>1. {c} \in SUBSET Clients
    OBVIOUS
  <2> QED
    BY <1>1, <1>2, <2>1, ServedKeeps
<1>4. Typed'
  BY <1>1, <1>3 DEF Typed
<1>5. LoadInv'
  <2>1. \A d \in Clients : conn'[d].stage = "loading" <=> Waits(loads, d)
    BY <1>1, <1>3 DEF LoadInv
  <2> QED
    BY <1>1, <2>1 DEF LoadInv
<1>6. FlowInv'
  BY <1>2 DEF FlowInv
<1>7. ClientInv'
  BY <1>3 DEF ClientInv
<1> QED
  BY <1>4, <1>5, <1>6, <1>7 DEF CatchupInv

LEMMA SeekKeeps ==
  ASSUME CatchupInv, NEW c \in Clients, Seek(c)
  PROVE  CatchupInv'
<1>t. /\ worker \in Workers /\ pipe \in Seq(Frames) /\ cached \in Caches
      /\ loads \in Seq(Loads) /\ resolved \in Seq(Snapshots)
      /\ Flow(worker, pipe, cached, resolved, late) /\ Separate(loads)
      /\ Balanced(worker, pipe, resolved, loads)
      /\ worker.asked \in Nat /\ worker.marking \in Nat /\ Count(pipe, "response") \in Nat
      /\ Len(resolved) \in Nat /\ Len(loads) \in Nat
  BY CatchupFacts
<1>0. /\ conn[c].stage = "seeking"
      /\ UNCHANGED <<pipe, cached, resolved, ui, late, disconnects>>
  BY DEF Seek
<1>1. CASE cached.cache # None
  <2>1. cached.cache \in Snapshots
    BY <1>t, <1>1 DEF Caches
  <2>2. Served({c}, cached.cache, cached, late') /\ UNCHANGED <<worker, loads>>
    BY <1>0, <1>1 DEF Seek
  <2>3. late \subseteq late' /\ late' \subseteq Snapshots
    BY <1>0 DEF CatchupInv, Typed
  <2> QED
    BY <1>0, <1>1, <2>1, <2>2, <2>3, ServedOne
<1>2. CASE cached.cache = None
  <2> DEFINE joined == Join(loads, {c})
             asked == worker.asked + Len(joined) - Len(loads)
             q == conn[c]
             p == [q EXCEPT !.stage = "loading"]
             lacks == c \in missed
             due == Due(worker, pipe)
  <2>1. /\ loads' = joined /\ worker' = [worker EXCEPT !.asked = asked]
        /\ conn' = [conn EXCEPT ![c] = p] /\ UNCHANGED missed
    BY <1>2 DEF Seek
  <2>2. /\ q \in Conns /\ ui[c] \in Views /\ lacks \in BOOLEAN /\ Client(cached, due, ui[c], q, lacks)
        /\ conn \in [Clients -> Conns] /\ ~Waits(loads, c)
    BY <1>0, ClientFacts
  <2>3. /\ joined \in Seq(Loads) /\ Separate(joined) /\ Len(joined) \in {Len(loads), Len(loads) + 1}
        /\ \A d : Waits(joined, d) <=> Waits(loads, d) \/ d \in {c}
    <3>1. {c} \in SUBSET Clients /\ \A d \in {c} : ~Waits(loads, d)
      BY <2>2
    <3> QED
      BY <1>t, <3>1, JoinFacts
  <2> HIDE DEF joined
  <2>4. asked \in Nat /\ asked + worker.marking + Count(pipe, "response") + Len(resolved) = Len(joined)
    <3> DEFINE a == worker.asked
               m == worker.marking
               n == Count(pipe, "response")
               d == Len(resolved)
               l == Len(loads)
               j == Len(joined)
    <3>1. /\ a \in Nat /\ m \in Nat /\ n \in Nat /\ d \in Nat /\ l \in Nat /\ j \in {l, l + 1}
          /\ a + m + n + d = l /\ asked = a + j - l
      BY <1>t, <2>3 DEF Balanced
    <3> HIDE DEF asked, a, m, n, d, l, j
    <3>2. asked \in Nat
      BY <3>1
    <3>3. asked + m + n + d = j
      BY <3>1
    <3> QED
      BY <3>2, <3>3 DEF m, n, d, j
  <2> HIDE DEF asked
  <2>5. /\ worker' \in Workers /\ worker'.asked = asked /\ worker'.marking = worker.marking
        /\ worker'.seq = worker.seq /\ worker'.transfers = worker.transfers
        /\ worker'.begun = worker.begun /\ worker'.catching = worker.catching
        /\ worker'.catchup = worker.catchup
    BY <1>t, <2>1, <2>4 DEF Workers
  <2>6. Flow(worker', pipe, cached, resolved, late) /\ Due(worker', pipe) = due
    BY <1>t, <2>5, SameFlow
  <2>7. /\ p \in Conns /\ p.out = q.out /\ p.blocked = q.blocked /\ p.stage = "loading"
    BY <2>2 DEF Conns, Stages
  <2> HIDE DEF p, q, lacks, due
  <2>8. Client(cached, due, ui[c], p, lacks)
    BY <1>t, <2>2, <2>7, ClientWaits
  <2>9. \A d \in Clients : conn'[d] = IF d = c THEN p ELSE conn[d]
    BY <2>1, <2>2
  <2>10. Typed'
    <3>1. Typed
      BY DEF CatchupInv
    <3>2. conn' \in [Clients -> Conns]
      BY <2>1, <2>2, <2>7
    <3> QED
      BY <1>0, <2>1, <2>3, <2>5, <3>1, <3>2 DEF Typed
  <2>11. LoadInv'
    <3>1. Balanced(worker', pipe', resolved', loads')
      BY <1>0, <2>1, <2>4, <2>5 DEF Balanced
    <3>2. ASSUME NEW d \in Clients PROVE conn'[d].stage = "loading" <=> Waits(joined, d)
      <4>1. CASE d = c
        BY <2>3, <2>7, <2>9, <4>1
      <4>2. CASE d # c
        <5>1. conn[d].stage = "loading" <=> Waits(loads, d)
          BY <3>2, ClientFacts
        <5> QED
          BY <2>3, <2>9, <4>2, <5>1
      <4> QED
        BY <4>1, <4>2
    <3> QED
      BY <2>1, <2>3, <3>1, <3>2 DEF LoadInv
  <2>12. FlowInv'
    BY <1>0, <2>6 DEF FlowInv
  <2>13. ClientInv'
    <3>1. ASSUME NEW d \in Clients
          PROVE  Client(cached, due, ui[d], conn'[d], d \in missed)
      <4>1. CASE d = c
        BY <2>8, <2>9, <4>1 DEF lacks
      <4>2. CASE d # c
        <5>1. Client(cached, Due(worker, pipe), ui[d], conn[d], d \in missed)
          BY <3>1, ClientFacts
        <5> QED
          BY <2>9, <4>2, <5>1 DEF due
      <4> QED
        BY <4>1, <4>2
    <3> QED
      BY <1>0, <2>1, <2>6, <3>1 DEF ClientInv
  <2> QED
    BY <2>10, <2>11, <2>12, <2>13 DEF CatchupInv
<1> QED
  BY <1>1, <1>2

LEMMA ValidatedKeeps ==
  ASSUME CatchupInv, NEW c \in Clients, Validated(c)
  PROVE  CatchupInv'
<1> DEFINE s == conn[c].snap
<1>1. /\ conn[c].stage = "loaded" /\ late' = late \cup Behind(s, cached)
      /\ Served({c}, s, cached, late')
      /\ UNCHANGED <<worker, pipe, cached, loads, resolved, ui, disconnects>>
  BY DEF Validated
<1>2. s \in Snapshots
  <2>1. conn[c] \in Conns /\ s # None
    BY <1>1, ClientFacts DEF Client, Socket
  <2> QED
    BY <2>1 DEF Conns
<1> HIDE DEF s
<1>3. Chosen(cached, s) \in Snapshots
  BY <1>2, CatchupFacts, ClosedFacts, ServeStage
<1>4. late \subseteq Snapshots
  BY DEF CatchupInv, Typed
<1>5. late' \subseteq Snapshots /\ late \subseteq late' /\ Behind(s, cached) \subseteq late'
  BY <1>1, <1>3, <1>4 DEF Behind
<1> QED
  BY <1>1, <1>2, <1>5, ServedOne

LEMMA DisconnectKeeps ==
  ASSUME CatchupInv, NEW c \in Clients, Disconnect(c)
  PROVE  CatchupInv'
<1> DEFINE f == [i \in DOMAIN loads |-> [loads[i] EXCEPT !.waiters = @ \ {c}]]
           v == [ui[c] EXCEPT !.following = FALSE]
<1>t. /\ cached \in Caches /\ loads \in Seq(Loads) /\ Separate(loads)
      /\ Balanced(worker, pipe, resolved, loads)
  BY CatchupFacts
<1>v. /\ conn' = [conn EXCEPT ![c] = Closed] /\ loads' = f /\ ui' = [ui EXCEPT ![c] = v]
      /\ missed' = missed \ {c} /\ disconnects < MaxDisconnects /\ disconnects' = disconnects + 1
      /\ UNCHANGED <<worker, pipe, cached, resolved, late>>
  BY DEF Disconnect
<1>1. /\ f \in Seq(Loads) /\ Separate(f) /\ Len(f) = Len(loads)
      /\ \A d : Waits(f, d) <=> Waits(loads, d) /\ d # c
  <2>1. f = [i \in DOMAIN loads |-> f[i]]
    OBVIOUS
  <2>2. \A i \in DOMAIN loads : f[i] = [loads[i] EXCEPT !.waiters = loads[i].waiters \ {c}]
    OBVIOUS
  <2> HIDE DEF f
  <2>3. ASSUME NEW i \in DOMAIN loads
        PROVE  /\ f[i] \in Loads /\ f[i].valid = loads[i].valid
               /\ f[i].waiters = loads[i].waiters \ {c}
    <3> DEFINE waiters == loads[i].waiters \ {c}
    <3>1. loads[i] \in Loads
      BY <1>t
    <3>2. waiters \in SUBSET Clients
      BY <3>1 DEF Loads
    <3>3. f[i] = [loads[i] EXCEPT !.waiters = waiters]
      BY <2>2
    <3> HIDE DEF waiters
    <3>4. f[i] \in Loads /\ f[i].valid = loads[i].valid /\ f[i].waiters = waiters
      BY <3>1, <3>2, <3>3 DEF Loads
    <3> QED
      BY <3>4 DEF waiters
  <2>4. f \in Seq(Loads) /\ Len(f) = Len(loads) /\ DOMAIN f = DOMAIN loads /\ Separate(f)
    <3>1. \A i \in DOMAIN loads : /\ f[i] \in Loads /\ (f[i].valid => loads[i].valid)
                                  /\ f[i].waiters \subseteq loads[i].waiters
      BY <2>3
    <3> QED
      BY <1>t, <2>1, <3>1, MappedLoads
  <2>5. \A d : Waits(f, d) <=> Waits(loads, d) /\ d # c
    BY <2>3, <2>4 DEF Waits
  <2> QED
    BY <2>4, <2>5
<1> HIDE DEF f
<1>2. /\ conn[c] \in Conns /\ ui[c] \in Views /\ conn \in [Clients -> Conns]
      /\ Client(cached, Due(worker, pipe), ui[c], conn[c], c \in missed)
      /\ ui \in [Clients -> Views]
  BY ClientFacts DEF CatchupInv, Typed
<1>3. v \in Views /\ v.view = ui[c].view /\ v.cursor = ui[c].cursor
  BY <1>2 DEF Views
<1> HIDE DEF v
<1>4. Client(cached, Due(worker, pipe), v, Closed, c \in missed')
  <2> DEFINE lacks == c \in missed
             lacks2 == c \in missed'
  <2>1. lacks \in BOOLEAN /\ lacks2 \in BOOLEAN
    OBVIOUS
  <2> HIDE DEF lacks, lacks2
  <2>2. Client(cached, Due(worker, pipe), v, conn[c], lacks)
    BY <1>2, <1>3 DEF Client, Shown, Complete, Reflected, Follows, lacks
  <2>3. Client(cached, Due(worker, pipe), v, Closed, lacks2)
    BY <1>t, <1>2, <1>3, <2>1, <2>2, ClientClosed
  <2> QED
    BY <2>3 DEF lacks2
<1>5. \A d \in Clients : /\ conn'[d] = IF d = c THEN Closed ELSE conn[d]
                         /\ ui'[d] = IF d = c THEN v ELSE ui[d]
                         /\ d # c => (d \in missed' <=> d \in missed)
  BY <1>v, <1>2
<1>6. Typed'
  <2>1. Typed
    BY DEF CatchupInv
  <2>2. conn' \in [Clients -> Conns] /\ ui' \in [Clients -> Views]
    BY <1>v, <1>2, <1>3, ClosedFacts
  <2>3. missed' \subseteq Clients
    BY <1>v, <2>1 DEF Typed
  <2>4. disconnects' \in 0..MaxDisconnects
    BY <1>v, <2>1 DEF Typed
  <2> QED
    BY <1>v, <1>1, <2>1, <2>2, <2>3, <2>4 DEF Typed
<1>7. LoadInv'
  <2>1. Balanced(worker', pipe', resolved', loads')
    BY <1>t, <1>v, <1>1 DEF Balanced
  <2>2. ASSUME NEW d \in Clients PROVE conn'[d].stage = "loading" <=> Waits(f, d)
    <3>1. CASE d = c
      BY <1>1, <1>5, <3>1, ClosedFacts
    <3>2. CASE d # c
      <4>1. conn[d].stage = "loading" <=> Waits(loads, d)
        BY <2>2, ClientFacts
      <4> QED
        BY <1>1, <1>5, <3>2, <4>1
    <3> QED
      BY <3>1, <3>2
  <2> QED
    BY <1>v, <1>1, <2>1, <2>2 DEF LoadInv
<1>8. FlowInv'
  BY <1>v DEF CatchupInv, FlowInv
<1>9. ClientInv'
  <2>1. ASSUME NEW d \in Clients
        PROVE  Client(cached, Due(worker, pipe), ui'[d], conn'[d], d \in missed')
    <3>1. CASE d = c
      BY <1>4, <1>5, <3>1
    <3>2. CASE d # c
      <4>1. Client(cached, Due(worker, pipe), ui[d], conn[d], d \in missed)
        BY <2>1, ClientFacts
      <4>2. ui'[d] = ui[d] /\ conn'[d] = conn[d] /\ (d \in missed') = (d \in missed)
        BY <1>5, <3>2
      <4> QED
        BY <4>1, <4>2
    <3> QED
      BY <3>1, <3>2
  <2> QED
    BY <1>v, <2>1 DEF ClientInv
<1> QED
  BY <1>6, <1>7, <1>8, <1>9 DEF CatchupInv

-------------------------------------------------------------------------------
(* The theorems *)

LEMMA NextKeeps == CatchupInv /\ [Next]_vars => CatchupInv'
<1> SUFFICES ASSUME CatchupInv, [Next]_vars PROVE CatchupInv'
  OBVIOUS
<1>1. ASSUME NEW final \in BOOLEAN, Emit(final) PROVE CatchupInv'
  BY <1>1, EmitKeeps
<1>2. CASE WorkerStep
  BY <1>2, MarkKeeps, AnswerKeeps, BeginKeeps, EndKeeps, WorkerCatchupKeeps DEF WorkerStep
<1>3. CASE Receive
  BY <1>3, ReceivedKeeps
<1>4. CASE Loaded
  BY <1>4, LoadedValidKeeps, LoadedInvalidKeeps DEF Loaded
<1>5. ASSUME NEW c \in Clients, Attach(c) \/ ClientStep(c) \/ Disconnect(c) PROVE CatchupInv'
  BY <1>5, AttachKeeps, SeekKeeps, ValidatedKeeps, FinishKeeps, DrainKeeps, ReadKeeps,
     DisconnectKeeps DEF ClientStep
<1>6. CASE UNCHANGED vars
  BY <1>6 DEF vars, CatchupInv, Typed, LoadInv, FlowInv, ClientInv
<1> QED
  BY <1>1, <1>2, <1>3, <1>4, <1>5, <1>6 DEF Next

\* The flow of events and snapshots, the loads and the clients fit together as above.
THEOREM CatchupInvariant == Spec => []CatchupInv
<1>1. Init => CatchupInv
  BY CatchupInit
<1>2. CatchupInv /\ [Next]_vars => CatchupInv'
  BY NextKeeps
<1> QED
  BY <1>1, <1>2, PTL DEF Spec

\* Every variable keeps its type, a client waits for a load exactly when one names it,
\* and a client's socket never holds more events than its high-water mark.
THEOREM TypeCorrect == Spec => []TypeOK
<1>1. CatchupInv => TypeOK
  BY TypedIsTypeOK
<1> QED
  BY <1>1, CatchupInvariant, PTL

LEMMA NoGap == CatchupInv => NoSilentGap
<1> SUFFICES ASSUME CatchupInv, NEW c \in Clients, c \notin missed,
                    conn[c].stage = "idle", ~conn[c].pending, ~WorkerCatchupDue,
                    NEW n \in 1..worker.seq, n \notin OnTheWay
             PROVE  n \in Reaches(c)
  BY DEF NoSilentGap, Gap
<1> DEFINE out == conn[c].out
<1>1. n \in Due(worker, pipe)
  <2>1. n \notin Sent(pipe)
    BY DEF OnTheWay, Sent, Event
  <2>2. ~Owed(worker, pipe, 0, n)
    <3>1. ~worker.catchup /\ ~worker.catching
      BY DEF WorkerCatchupDue
    <3>2. \A i \in DOMAIN worker.transfers : ~OwnCatchup(worker.transfers[i])
      BY DEF WorkerCatchupDue, OwnCatchup
    <3>3. \A i \in DOMAIN pipe : ~Catchup(pipe[i])
      BY DEF WorkerCatchupDue, Catchup, Closing
    <3> QED
      BY <3>1, <3>2, <3>3 DEF Owed
  <2> QED
    BY <2>1, <2>2 DEF Due
<1>2. Reflected(ui[c], conn[c], n)
  BY <1>1, ClientFacts DEF Client, Follows
<1>3. CASE n \in ui[c].view
  BY <1>3 DEF Reaches
<1>4. ASSUME NEW i \in DOMAIN out, Event(out[i]), out[i].n = n PROVE n \in Reaches(c)
  <2>1. n \in InSocket(c, {"event"})
    BY <1>4 DEF InSocket, Event
  <2> QED
    BY <2>1 DEF Reaches
<1>5. ASSUME NEW i \in DOMAIN out, Closing(out[i]), n <= out[i].n PROVE n \in Reaches(c)
  <2>1. out[i].n \in InSocket(c, {"end"})
    BY <1>5 DEF InSocket, Closing
  <2>2. out[i].n \in Int /\ n \in Int /\ 1 <= n
    <3>1. conn[c] \in Conns /\ ui[c] \in Views /\ cached \in Caches /\ worker.seq \in Int
      BY ClientFacts, CatchupFacts
    <3>2. out[i].n \in Int
      BY <1>5, <3>1, ClientNumbers
    <3> QED
      BY <3>1, <3>2
  <2>3. n \in 1..out[i].n
    BY <1>5, <2>2
  <2> QED
    BY <2>1, <2>3 DEF Reaches
<1> QED
  BY <1>2, <1>3, <1>4, <1>5 DEF Reflected

\* An attached client that is not marked as missing an event, and for which no catch-up
\* is queued or due at either hop, has every event or will read it from its socket or
\* the worker's frames: holding events back behind snapshots loses none silently.
THEOREM NoGapIsSilent == Spec => []NoSilentGap
<1>1. CatchupInv => NoSilentGap
  BY NoGap
<1> QED
  BY <1>1, CatchupInvariant, PTL

-------------------------------------------------------------------------------
(* What the clients are promised: EventFeed *)

\* A client's cursor is at the newest event it was shown, or beyond.
CursorInv == \A c \in Clients : \A m \in ui[c].view : m <= ui[c].cursor

\* In a client's socket is nothing that the session has not emitted.
LEMMA SocketEmitted ==
  ASSUME CatchupInv, NEW c \in Clients, NEW i \in DOMAIN conn[c].out
  PROVE  conn[c].out[i].n \in 0..worker.seq
<1>1. /\ conn[c] \in Conns /\ ui[c] \in Views /\ cached \in Caches
      /\ Knows(cached, conn[c].out[i].n)
  BY ClientFacts, CatchupFacts DEF Client, Shown
<1>2. cached.current <= worker.seq /\ cached.heard <= worker.seq /\ worker.seq \in Int
  BY CatchupFacts DEF Flow, Bounded
<1>3. /\ cached.current \in Int /\ cached.heard \in Int
      /\ conn[c].out[i].n \in Int /\ 0 <= conn[c].out[i].n
  BY <1>1, ClientNumbers
<1> QED
  BY <1>1, <1>2, <1>3 DEF Knows

\* One record at the adapter: the view stays behind the cursor.
LEMMA AppliedCursor ==
  ASSUME NEW u \in Views, NEW e \in Records, \A m \in u.view : m <= u.cursor
  PROVE  \A m \in Applied(u, e).view : m <= Applied(u, e).cursor
<1> DEFINE v == Applied(u, e)
           a == AtLeast(u.cursor, e.n)
<1>0. /\ e.t \in {"response", "begin", "end", "event"} /\ e.n \in Int
      /\ u.view \subseteq Int /\ u.cursor \in Int
  BY DEF Records, Views
<1>1. a \in Int /\ u.cursor <= a /\ e.n <= a
  BY <1>0 DEF AtLeast
<1> HIDE DEF a, v
<1>2. CASE e.t = "response"
  <2>1. v = [u EXCEPT !.cursor = a]
    BY <1>2 DEF Applied, v, a
  <2>2. v.view = u.view /\ v.cursor = a
    BY <2>1 DEF Views
  <2> QED
    BY <1>0, <1>1, <2>2 DEF v
<1>3. CASE e.t = "begin"
  <2>1. v = u
    BY <1>3 DEF Applied, v
  <2> QED
    BY <2>1 DEF v
<1>4. CASE e.t = "end"
  <2>1. v = [view |-> 1..e.n, cursor |-> a, following |-> TRUE]
    BY <1>4 DEF Applied, v, a
  <2>2. v.view = 1..e.n /\ v.cursor = a
    BY <2>1
  <2> QED
    BY <1>0, <1>1, <2>2 DEF v
<1>5. CASE e.t = "event"
  <2>1. v = IF e.n <= u.cursor THEN u ELSE [u EXCEPT !.view = @ \cup {e.n}, !.cursor = e.n]
    BY <1>5 DEF Applied, v
  <2>2. CASE e.n <= u.cursor
    BY <2>1, <2>2 DEF v
  <2>3. CASE ~(e.n <= u.cursor)
    <3>1. v.view = u.view \cup {e.n} /\ v.cursor = e.n
      BY <2>1, <2>3 DEF Views
    <3> QED
      BY <1>0, <2>3, <3>1 DEF v
  <2> QED
    BY <2>2, <2>3
<1> QED
  BY <1>0, <1>2, <1>3, <1>4, <1>5

LEMMA CursorStep == CatchupInv /\ CursorInv /\ [Next]_vars => CursorInv'
<1> SUFFICES ASSUME CatchupInv, CursorInv, [Next]_vars PROVE CursorInv'
  OBVIOUS
<1>0. ui \in [Clients -> Views]
  BY DEF CatchupInv, Typed
<1>1. ASSUME ui' = ui PROVE CursorInv'
  BY <1>1 DEF CursorInv
<1>2. ASSUME NEW final \in BOOLEAN, Emit(final) PROVE ui' = ui
  BY <1>2 DEF Emit
<1>3. CASE WorkerStep
  BY <1>1, <1>3 DEF WorkerStep, Mark, Answer, Begin, End, WorkerCatchup
<1>4. CASE Receive \/ Loaded
  BY <1>1, <1>4 DEF Receive, Loaded
<1>5. ASSUME NEW c \in Clients, Attach(c) \/ Seek(c) \/ Validated(c) \/ Finish(c) \/ Drain(c)
      PROVE  ui' = ui
  BY <1>5 DEF Attach, Seek, Validated, Finish, Drain
<1>6. ASSUME NEW c \in Clients, Read(c) PROVE CursorInv'
  <2>1. ui' = [ui EXCEPT ![c] = Applied(ui[c], Head(conn[c].out))] /\ conn[c].out # <<>>
    BY <1>6 DEF Read
  <2>2. conn[c].out \in Seq(Records)
    BY ClientFacts DEF Conns
  <2>3. Head(conn[c].out) \in Records
    BY <2>1, <2>2
  <2>4. \A m \in Applied(ui[c], Head(conn[c].out)).view :
          m <= Applied(ui[c], Head(conn[c].out)).cursor
    BY <1>0, <2>3, AppliedCursor DEF CursorInv
  <2> QED
    BY <1>0, <2>1, <2>4 DEF CursorInv
<1>7. ASSUME NEW c \in Clients, Disconnect(c) PROVE CursorInv'
  <2>1. ui' = [ui EXCEPT ![c].following = FALSE]
    BY <1>7 DEF Disconnect
  <2>2. \A d \in Clients : ui'[d].view = ui[d].view /\ ui'[d].cursor = ui[d].cursor
    BY <1>0, <2>1 DEF Views
  <2> QED
    BY <2>2 DEF CursorInv
<1>8. CASE UNCHANGED vars
  BY <1>1, <1>8 DEF vars
<1> QED
  BY <1>1, <1>2, <1>3, <1>4, <1>5, <1>6, <1>7, <1>8 DEF Next, ClientStep

\* Steps that no client notices.
LEMMA FeedKept ==
  ASSUME UNCHANGED <<worker, ui, missed>> PROVE UNCHANGED Feed!feedVars
BY DEF Feed!feedVars

\* Clients that are served too late, or whose catch-up fails, leave.
LEMMA FeedLeft ==
  ASSUME missed \subseteq missed', worker'.seq = worker.seq, ui' = ui
  PROVE  Feed!Next
<1>1. PICK cs \in SUBSET Clients : cs = Clients \cap missed'
  OBVIOUS
<1>2. [c \in Clients |-> ui'[c].following /\ c \notin missed']
        = [c \in Clients |-> (ui[c].following /\ c \notin missed) /\ c \notin cs]
  BY <1>1
<1>3. [c \in Clients |-> ui'[c].view] = [c \in Clients |-> ui[c].view]
  OBVIOUS
<1>4. Feed!Leave(cs)
  BY <1>2, <1>3 DEF Feed!Leave
<1> QED
  BY <1>4 DEF Feed!Next

LEMMA FeedDisconnects ==
  ASSUME CatchupInv, NEW c \in Clients, Disconnect(c) PROVE Feed!Next
<1>1. /\ ui \in [Clients -> Views] /\ ui' = [ui EXCEPT ![c].following = FALSE]
      /\ worker' = worker /\ missed' = missed \ {c}
  BY DEF CatchupInv, Typed, Disconnect
<1>2. \A d \in Clients : ui'[d].view = ui[d].view
  BY <1>1 DEF Views
<1>3. ui'[c].following = FALSE
  BY <1>1 DEF Views
<1>4. \A d \in Clients : d # c => ui'[d] = ui[d] /\ (d \in missed' <=> d \in missed)
  BY <1>1
<1>5. \A d \in Clients : (ui'[d].following /\ d \notin missed')
                           = ((ui[d].following /\ d \notin missed) /\ d \notin {c})
  <2> TAKE d \in Clients
  <2>1. CASE d = c
    BY <1>3, <2>1
  <2>2. CASE d # c
    BY <1>4, <2>2
  <2> QED
    BY <2>1, <2>2
<1>6. [d \in Clients |-> ui'[d].following /\ d \notin missed']
        = [d \in Clients |-> (ui[d].following /\ d \notin missed) /\ d \notin {c}]
  BY <1>5
<1>7. [d \in Clients |-> ui'[d].view] = [d \in Clients |-> ui[d].view]
  BY <1>2
<1>8. Feed!Leave({c})
  BY <1>1, <1>6, <1>7 DEF Feed!Leave
<1>9. {c} \in SUBSET Clients
  OBVIOUS
<1> QED
  BY <1>8, <1>9 DEF Feed!Next

\* What a record shows: a new event, a snapshot, or nothing.
LEMMA AppliedShows ==
  ASSUME NEW u \in Views, NEW e \in Records
  PROVE  \/ /\ Applied(u, e).view = u.view /\ Applied(u, e).following = u.following
         \/ /\ Event(e) /\ u.cursor < e.n
            /\ Applied(u, e).view = u.view \cup {e.n} /\ Applied(u, e).following = u.following
         \/ /\ Closing(e) /\ Applied(u, e).view = 1..e.n /\ Applied(u, e).following = TRUE
<1> DEFINE v == Applied(u, e)
           a == AtLeast(u.cursor, e.n)
<1>0. e.t \in {"response", "begin", "end", "event"} /\ e.n \in Int /\ u.cursor \in Int
  BY DEF Records, Views
<1> HIDE DEF a, v
<1>1. CASE e.t = "response"
  <2>1. v = [u EXCEPT !.cursor = a]
    BY <1>1 DEF Applied, v, a
  <2>2. v.view = u.view /\ v.following = u.following
    BY <2>1 DEF Views
  <2> QED
    BY <2>2 DEF v
<1>2. CASE e.t = "begin"
  BY <1>2 DEF Applied
<1>3. CASE e.t = "end"
  <2>1. v = [view |-> 1..e.n, cursor |-> a, following |-> TRUE] /\ Closing(e)
    BY <1>3 DEF Applied, v, a, Closing
  <2> QED
    BY <2>1 DEF v
<1>4. CASE e.t = "event"
  <2>1. v = IF e.n <= u.cursor THEN u ELSE [u EXCEPT !.view = @ \cup {e.n}, !.cursor = e.n]
    BY <1>4 DEF Applied, v
  <2>2. CASE e.n <= u.cursor
    BY <2>1, <2>2 DEF v
  <2>3. CASE ~(e.n <= u.cursor)
    <3>1. v.view = u.view \cup {e.n} /\ v.following = u.following
      BY <2>1, <2>3 DEF Views
    <3>2. u.cursor < e.n /\ Event(e)
      BY <1>0, <1>4, <2>3 DEF Event
    <3> QED
      BY <3>1, <3>2 DEF v
  <2> QED
    BY <2>2, <2>3
<1> QED
  BY <1>0, <1>1, <1>2, <1>3, <1>4

\* A record is read: a live event or a catch-up to a client that follows, the snapshot of
\* an attach, or something for a client to which nothing is promised.
LEMMA FeedReads ==
  ASSUME CatchupInv, CursorInv, NEW c \in Clients, Read(c)
  PROVE  Feed!Next \/ UNCHANGED Feed!feedVars
<1> DEFINE u == ui[c]
           e == Head(conn[c].out)
           v == Applied(u, e)
           shown == [d \in Clients |-> ui[d].view]
           following == [d \in Clients |-> ui[d].following /\ d \notin missed]
<1>1. /\ conn[c].out # <<>> /\ ui' = [ui EXCEPT ![c] = v]
      /\ worker' = worker /\ missed' = missed
  BY DEF Read
<1>2. /\ ui \in [Clients -> Views] /\ u \in Views /\ conn[c].out \in Seq(Records)
      /\ worker.seq \in 0..MaxEvents
  BY ClientFacts, CatchupFacts DEF CatchupInv, Typed, Conns
<1>3. e \in Records /\ 1 \in DOMAIN conn[c].out /\ e = conn[c].out[1]
  BY <1>1, <1>2, TailEntries
<1>4. e.n \in 0..worker.seq
  BY <1>3, SocketEmitted
<1>5. /\ Event(e) => e.n # 0
      /\ u.following /\ c \notin missed /\ Closing(e) => \A m \in u.view : m <= e.n
  BY <1>3, ClientFacts DEF Client, Socket, Complete
<1>6. \A m \in u.view : m <= u.cursor
  BY DEF CursorInv
<1>7. u.view \subseteq 1..worker.seq
  <2>1. cached.current <= worker.seq /\ cached.heard <= worker.seq /\ worker.seq \in Int
        /\ cached \in Caches /\ conn[c] \in Conns
    BY ClientFacts, CatchupFacts DEF Flow, Bounded
  <2>2. \A m \in u.view : Knows(cached, m)
    BY ClientFacts DEF Client, Shown
  <2>3. u.view \subseteq 1..MaxEvents /\ cached.current \in Int /\ cached.heard \in Int
    BY <1>2, <2>1, ClientNumbers DEF Views
  <2> QED
    BY <2>1, <2>2, <2>3 DEF Knows
<1>8. u.view \subseteq Int /\ u.cursor \in Int /\ u.following \in BOOLEAN
  BY <1>2 DEF Views
<1>9. /\ [d \in Clients |-> ui'[d].view] = [shown EXCEPT ![c] = v.view]
      /\ [d \in Clients |-> ui'[d].following /\ d \notin missed']
           = [following EXCEPT ![c] = v.following /\ c \notin missed]
  <2> HIDE DEF v
  <2> QED
    BY <1>1, <1>2
<1>10. shown[c] = u.view /\ following[c] = (u.following /\ c \notin missed)
  OBVIOUS
<1>11. \/ v.view = u.view /\ v.following = u.following
       \/ /\ Event(e) /\ u.cursor < e.n
          /\ v.view = u.view \cup {e.n} /\ v.following = u.following
       \/ Closing(e) /\ v.view = 1..e.n /\ v.following = TRUE
  BY <1>2, <1>3, AppliedShows
<1> HIDE DEF v, e, u
<1>12. [following EXCEPT ![c] = following[c]] = following
       /\ [shown EXCEPT ![c] = shown[c]] = shown
  OBVIOUS
<1>13. CASE v.view = u.view /\ v.following = u.following
  <2>1. /\ [d \in Clients |-> ui'[d].view] = shown
        /\ [d \in Clients |-> ui'[d].following /\ d \notin missed'] = following
    BY <1>9, <1>10, <1>12, <1>13
  <2> QED
    BY <1>1, <2>1 DEF Feed!feedVars
<1>14. CASE /\ Event(e) /\ u.cursor < e.n
            /\ v.view = u.view \cup {e.n} /\ v.following = u.following
  <2>1. e.n \in 1..worker.seq /\ \A m \in u.view : m < e.n
    BY <1>2, <1>4, <1>5, <1>6, <1>8, <1>14
  <2>2. [d \in Clients |-> ui'[d].following /\ d \notin missed'] = following
    BY <1>9, <1>10, <1>12, <1>14
  <2>3. [d \in Clients |-> ui'[d].view] = [shown EXCEPT ![c] = @ \cup {e.n}]
    BY <1>9, <1>10, <1>14
  <2>4. CASE following[c]
    <3>1. Feed!Follow(c)
      BY <1>1, <1>10, <2>1, <2>2, <2>3, <2>4 DEF Feed!Follow
    <3> QED
      BY <3>1 DEF Feed!Next
  <2>5. CASE ~following[c]
    <3>1. u.view \cup {e.n} \in SUBSET (1..worker.seq)
      BY <1>7, <2>1
    <3>2. Feed!Drift(c)
      BY <1>1, <1>9, <1>14, <2>2, <2>5, <3>1 DEF Feed!Drift
    <3> QED
      BY <3>2 DEF Feed!Next
  <2> QED
    BY <2>4, <2>5
<1>15. CASE Closing(e) /\ v.view = 1..e.n /\ v.following = TRUE
  <2>1. [d \in Clients |-> ui'[d].view] = [shown EXCEPT ![c] = 1..e.n]
    BY <1>9, <1>15
  <2>2. CASE following[c]
    <3>1. [d \in Clients |-> ui'[d].following /\ d \notin missed'] = following
      BY <1>9, <1>10, <1>12, <1>15, <2>2
    <3>2. u.view \subseteq 1..e.n
      <4>1. \A m \in u.view : m <= e.n
        BY <1>5, <1>10, <1>15, <2>2
      <4>2. \A m \in u.view : m \in Int /\ 1 <= m
        BY <1>2, <1>7
      <4>3. e.n \in Int
        BY <1>2, <1>4
      <4> QED
        BY <4>1, <4>2, <4>3
    <3>3. Feed!Resync(c)
      BY <1>1, <1>4, <1>10, <2>1, <2>2, <3>1, <3>2 DEF Feed!Resync
    <3> QED
      BY <3>3 DEF Feed!Next
  <2>3. CASE ~following[c] /\ c \notin missed
    <3>1. [d \in Clients |-> ui'[d].following /\ d \notin missed']
            = [following EXCEPT ![c] = TRUE]
      BY <1>9, <1>15, <2>3
    <3>2. Feed!Join(c)
      BY <1>1, <1>4, <2>1, <2>3, <3>1 DEF Feed!Join
    <3> QED
      BY <3>2 DEF Feed!Next
  <2>4. CASE c \in missed
    <3>1. [d \in Clients |-> ui'[d].following /\ d \notin missed'] = following /\ ~following[c]
      BY <1>9, <1>10, <1>12, <2>4
    <3>2. 1..e.n \in SUBSET (1..worker.seq)
      BY <1>2, <1>4
    <3>3. Feed!Drift(c)
      BY <1>1, <2>1, <3>1, <3>2 DEF Feed!Drift
    <3> QED
      BY <3>3 DEF Feed!Next
  <2> QED
    BY <1>10, <2>2, <2>3, <2>4
<1> QED
  BY <1>11, <1>13, <1>14, <1>15

\* The worker's steps towards the supervisor, and those of Receive, keep the number of
\* events; only Emit counts one more.
LEMMA FeedStep ==
  ASSUME CatchupInv, CursorInv, Next PROVE Feed!Next \/ UNCHANGED Feed!feedVars
<1>0. worker \in Workers
  BY CatchupFacts
<1>1. ASSUME NEW final \in BOOLEAN, Emit(final) PROVE Feed!Next
  <2>1. worker.seq + 1 <= MaxEvents /\ worker.seq \in Int /\ UNCHANGED <<ui, missed>>
    BY <1>0, <1>1 DEF Emit, Workers
  <2>2. worker'.seq = worker.seq + 1
    BY <1>0, <1>1 DEF Emit, Workers
  <2>3. Feed!Emit
    BY <2>1, <2>2 DEF Feed!Emit
  <2> QED
    BY <2>3 DEF Feed!Next
<1>2. CASE WorkerStep
  <2>1. UNCHANGED <<ui, missed>>
    BY <1>2 DEF WorkerStep, Mark, Answer, Begin, End, WorkerCatchup
  <2>2. worker'.seq = worker.seq
    <3>1. CASE Mark \/ Answer \/ Begin \/ WorkerCatchup
      BY <1>0, <3>1 DEF Mark, Answer, Begin, WorkerCatchup, Workers
    <3>2. CASE End
      BY <1>0, <3>2 DEF End, AfterTransfer, Workers
    <3> QED
      BY <1>2, <3>1, <3>2 DEF WorkerStep
  <2> QED
    BY <2>1, <2>2 DEF Feed!feedVars
<1>3. CASE Receive
  BY <1>3, FeedKept DEF Receive
<1>4. CASE Loaded
  <2>1. ui' = ui /\ missed \subseteq missed' /\ worker'.seq = worker.seq
    <3>1. CASE LoadedValid
      <4>1. worker' = worker
        BY <3>1, Zenon DEF LoadedValid
      <4>2. missed \subseteq missed'
        BY <3>1, Zenon DEF LoadedValid, Served
      <4>3. ui' = ui
        BY <1>4 DEF Loaded
      <4> QED
        BY <4>1, <4>2, <4>3
    <3>2. CASE LoadedInvalid
      <4>1. worker' = [worker EXCEPT !.asked = worker'.asked]
        BY <1>0, <3>2 DEF LoadedInvalid, Workers
      <4>2. worker'.seq = worker.seq
        BY <1>0, <4>1 DEF Workers
      <4>3. ui' = ui
        BY <1>4 DEF Loaded
      <4>4. missed \subseteq missed'
        BY <3>2 DEF LoadedInvalid
      <4> QED
        BY <4>2, <4>3, <4>4
    <3> QED
      BY <1>4, <3>1, <3>2 DEF Loaded
  <2> QED
    BY <2>1, FeedLeft
<1>5. ASSUME NEW c \in Clients, Attach(c) \/ Finish(c) \/ Drain(c)
      PROVE  UNCHANGED Feed!feedVars
  BY <1>5, FeedKept DEF Attach, Finish, Drain
<1>6. ASSUME NEW c \in Clients, Seek(c) \/ Validated(c) PROVE Feed!Next
  <2>1. ui' = ui /\ missed \subseteq missed' /\ worker'.seq = worker.seq
    BY <1>0, <1>6 DEF Seek, Validated, Served, Workers
  <2> QED
    BY <2>1, FeedLeft
<1>7. ASSUME NEW c \in Clients, Read(c) \/ Disconnect(c)
      PROVE  Feed!Next \/ UNCHANGED Feed!feedVars
  BY <1>7, FeedReads, FeedDisconnects
<1> QED
  BY <1>1, <1>2, <1>3, <1>4, <1>5, <1>6, <1>7 DEF Next, ClientStep

\* docs/daemon.md, "Reconnect, Replay, and Snapshots" and "Backpressure": a client that
\* follows the session is shown its events in order, and a snapshot that brings it up to
\* date takes nothing back.
THEOREM ImplementsEventFeed == Spec => ImplementsFeed
<1>1. Init => CatchupInv /\ CursorInv /\ Feed!Init
  <2>1. Init => CursorInv
    BY DEF Init, CursorInv
  <2>2. Init => Feed!Init
    <3> SUFFICES ASSUME Init PROVE Feed!Init
      OBVIOUS
    <3>1. \A c \in Clients : ui[c].view = {} /\ ui[c].following = FALSE
      BY DEF Init
    <3>2. [c \in Clients |-> ui[c].view] = [c \in Clients |-> {}]
      BY <3>1
    <3>3. [c \in Clients |-> ui[c].following /\ c \notin missed] = [c \in Clients |-> FALSE]
      BY <3>1
    <3>4. worker.seq = 0
      BY DEF Init
    <3> QED
      BY <3>2, <3>3, <3>4 DEF Feed!Init
  <2> QED
    BY <2>1, <2>2, CatchupInit
<1>2. CatchupInv /\ CursorInv /\ [Next]_vars => CatchupInv' /\ CursorInv'
  BY NextKeeps, CursorStep
<1>3. CatchupInv /\ CursorInv /\ [Next]_vars => [Feed!Next]_(Feed!feedVars)
  <2>1. UNCHANGED vars => UNCHANGED Feed!feedVars
    BY FeedKept DEF vars
  <2> QED
    BY <2>1, FeedStep
<1> QED
  BY <1>1, <1>2, <1>3, PTL DEF Spec, ImplementsFeed, Feed!Spec
==============================================================================
