---------------------------- MODULE EventCatchup ----------------------------
(***************************************************************************)
(* How the events of one session reach the clients attached to it: the     *)
(* session worker (daemon-mode.ts), the supervisor that forwards its       *)
(* frames, caches its snapshots and shares its snapshot loads              *)
(* (daemon-supervisor.ts), and the client adapter that applies what it     *)
(* reads (daemon-agent-connection.ts).  An event that cannot be sent, for  *)
(* a snapshot is being streamed or the socket is blocked, is not queued:   *)
(* its client is marked for a catch-up by a fresh snapshot, at both hops.  *)
(*                                                                         *)
(* An event is its sequence number, and a snapshot is the number of the    *)
(* last event in it, from which the code derives the snapshot's id.  The   *)
(* transcript's chunks are left out: a transfer is its begin and its end.  *)
(***************************************************************************)
EXTENDS Integers, Sequences, FiniteSets

CONSTANTS
  Clients,
  MaxEvents,       \* events the session emits
  MaxDisconnects,  \* sockets that break
  HighWater        \* records in a client's socket at which write() returns false

ASSUME CatchupAssumption ==
  /\ MaxEvents \in Nat
  /\ MaxDisconnects \in Nat
  /\ HighWater \in Nat \ {0}

None == -1
Snapshots == 0..MaxEvents

VARIABLES
  worker,    \* the session in its worker and the worker's supervisor connection
  pipe,      \* frames from the worker to the supervisor
  cached,    \* the session's snapshot caches in the supervisor
  loads,     \* the supervisor's attach requests to the worker, oldest first
  resolved,  \* snapshots of responses whose continuation is still queued
  conn,      \* the supervisor's side of each client connection
  ui,        \* what each client has
  late,      \* history: snapshots that a load ended with too late (Behind)
  missed,    \* history: clients served one of these, or left by a failed catch-up
  disconnects

vars == <<worker, pipe, cached, loads, resolved, conn, ui, late, missed, disconnects>>

Purposes == {"attach", "resync"}
RecordTypes == {"response", "begin", "end", "event"}
Stages ==
  {"none", "seeking", "loading", "loaded", "beginWait", "body", "endWait", "idle"}

Closed ==
  [stage |-> "none", purpose |-> "attach", snap |-> None, retried |-> FALSE,
   pending |-> FALSE, blocked |-> FALSE, needDrain |-> FALSE, out |-> <<>>]

\* Types, the loads that clients wait for, and the backlog of events in a client's
\* socket, which a blocked client must not add to.
TypeOK ==
  /\ worker \in [seq : Snapshots, asked : Nat, marking : Nat,
                 transfers : Seq([id : Snapshots, purpose : {"attach", "catchup"}]),
                 begun : BOOLEAN, catching : BOOLEAN, catchup : BOOLEAN]
  /\ cached \in [current : Snapshots \cup {None}, cache : Snapshots \cup {None},
                 heard : Snapshots, retired : SUBSET Snapshots,
                 gen : [Snapshots -> {"none", "open", "incoming", "complete", "checking"}]]
  /\ loads \in Seq([valid : BOOLEAN, observed : Snapshots \cup {None}, waiters : SUBSET Clients])
  /\ resolved \in Seq(Snapshots)
  /\ \A c \in Clients :
       /\ conn[c] \in [stage : Stages, purpose : Purposes, snap : Snapshots \cup {None},
                       retried : BOOLEAN, pending : BOOLEAN, blocked : BOOLEAN,
                       needDrain : BOOLEAN, out : Seq([t : RecordTypes, n : Snapshots])]
       /\ ui[c] \in [view : SUBSET (1..MaxEvents), cursor : Snapshots \cup {None},
                     following : BOOLEAN]
       /\ Cardinality({i \in DOMAIN conn[c].out : conn[c].out[i].t = "event"}) <= HighWater
       /\ conn[c].stage = "loading" <=> \E i \in DOMAIN loads : c \in loads[i].waiters
  /\ late \subseteq Snapshots
  /\ missed \subseteq Clients
  /\ disconnects \in 0..MaxDisconnects

Init ==
  /\ worker = [seq |-> 0, asked |-> 0, marking |-> 0, transfers |-> <<>>,
               begun |-> FALSE, catching |-> FALSE, catchup |-> FALSE]
  /\ pipe = <<>>
  /\ cached = [current |-> None, cache |-> None, heard |-> 0, retired |-> {},
               gen |-> [s \in Snapshots |-> "none"]]
  /\ loads = <<>>
  /\ resolved = <<>>
  /\ conn = [c \in Clients |-> Closed]
  /\ ui = [c \in Clients |-> [view |-> {}, cursor |-> None, following |-> FALSE]]
  /\ late = {}
  /\ missed = {}
  /\ disconnects = 0

-------------------------------------------------------------------------------
(* The worker *)

WorkerStreaming(w) == w.transfers # <<>> \/ w.marking > 0

\* An event: sent, or replaced by a catch-up while a snapshot is on its way.
Emit(final) ==
  LET n == worker.seq + 1 IN
  /\ n <= MaxEvents
  /\ IF WorkerStreaming(worker)
     THEN /\ worker' = [worker EXCEPT !.seq = n, !.catchup = TRUE]
          /\ UNCHANGED pipe
     ELSE /\ worker' = [worker EXCEPT !.seq = n]
          /\ pipe' = Append(pipe, [t |-> "event", n |-> n, final |-> final])
  /\ UNCHANGED <<cached, loads, resolved, conn, ui, late, missed, disconnects>>

\* An attach request arrives; from here on its snapshot holds events back.
Mark ==
  /\ worker.asked > 0
  /\ worker' = [worker EXCEPT !.asked = @ - 1, !.marking = @ + 1]
  /\ UNCHANGED <<pipe, cached, loads, resolved, conn, ui, late, missed, disconnects>>

Answer ==
  /\ worker.marking > 0
  /\ worker' = [worker EXCEPT !.marking = @ - 1,
                              !.transfers = Append(@, [id |-> worker.seq, purpose |-> "attach"])]
  /\ pipe' = Append(pipe, [t |-> "response", n |-> worker.seq])
  /\ UNCHANGED <<cached, loads, resolved, conn, ui, late, missed, disconnects>>

Begin ==
  /\ worker.transfers # <<>>
  /\ ~worker.begun
  /\ worker' = [worker EXCEPT !.begun = TRUE]
  /\ pipe' = Append(pipe, [t |-> "begin", n |-> Head(worker.transfers).id])
  /\ UNCHANGED <<cached, loads, resolved, conn, ui, late, missed, disconnects>>

\* Mutant of AfterTransfer: the held-back events are left for the next one.
AfterTransferIdle(w) == w

\* The transfer's finally: the last one to end starts the catch-up it held back.
AfterTransfer(w) ==
  IF w.catchup /\ ~WorkerStreaming(w) /\ ~w.catching
  THEN [w EXCEPT !.catchup = FALSE, !.catching = TRUE]
  ELSE w

End ==
  /\ worker.begun
  /\ pipe' = Append(pipe, [t |-> "end", n |-> Head(worker.transfers).id,
                           purpose |-> Head(worker.transfers).purpose])
  /\ worker' = AfterTransfer([worker EXCEPT !.begun = FALSE, !.transfers = Tail(@)])
  /\ UNCHANGED <<cached, loads, resolved, conn, ui, late, missed, disconnects>>

\* The worker's own catch-up has built its snapshot.
WorkerCatchup ==
  /\ worker.catching
  /\ worker' = [worker EXCEPT !.catching = FALSE,
                              !.transfers = Append(@, [id |-> worker.seq, purpose |-> "catchup"])]
  /\ UNCHANGED <<pipe, cached, loads, resolved, conn, ui, late, missed, disconnects>>

-------------------------------------------------------------------------------
(* A client's connection in the supervisor *)

Streaming(k) == k.stage \in {"beginWait", "body", "endWait"}

\* attachedActiveSessionIds: an attach counts once its snapshot is at hand.
Attached(k) ==
  k.stage # "none" /\ (k.purpose = "resync" \/ Streaming(k) \/ k.stage = "idle")

Accepts(k) == Len(k.out) + 1 < HighWater

Write(k, type, n) ==
  [k EXCEPT !.out = Append(@, [t |-> type, n |-> n]),
            !.blocked = @ \/ ~Accepts(k),
            !.needDrain = @ \/ ~Accepts(k)]

\* catchUpClient, and the loop that runs it again while something is pending.
Rest(k) ==
  IF k.pending /\ ~k.blocked
  THEN [k EXCEPT !.stage = "seeking", !.purpose = "resync", !.pending = FALSE, !.retried = FALSE]
  ELSE [k EXCEPT !.stage = "idle"]

\* queueCatchup; the caller says whether it calls catchUpClient as well.
Queue(k, start) ==
  LET queued == [k EXCEPT !.pending = TRUE] IN
  IF start /\ k.stage = "idle" THEN Rest(queued) ELSE queued

\* Mutant of Forward: a blocked client is skipped, and nothing is queued for it.
ForwardSkipping(k, n) ==
  IF ~Attached(k) \/ k.blocked THEN k
  ELSE IF Streaming(k) THEN Queue(k, FALSE)
  ELSE Write(k, "event", n)

\* One event frame for one client.
Forward(k, n) ==
  IF ~Attached(k) THEN k
  ELSE IF Streaming(k) \/ k.blocked THEN Queue(k, FALSE)
  ELSE Write(k, "event", n)

\* reserveSnapshotStream, the response to an attach, and the snapshot's begin.
Stream(k, s) ==
  LET answered == IF k.purpose = "attach" THEN Write(k, "response", s) ELSE k
  IN [Write(answered, "begin", s) EXCEPT
        !.snap = s,
        !.stage = IF Accepts(answered) THEN "body" ELSE "beginWait"]

\* The release of the reservation.
Release(k) == Rest([k EXCEPT !.blocked = FALSE, !.snap = None])

\* attachClient throws: a catch-up is logged and forgotten.
Fail(k) == IF k.purpose = "attach" THEN Closed ELSE Rest([k EXCEPT !.stage = "idle"])

-------------------------------------------------------------------------------
(* The supervisor's snapshot caches *)

\* retireWorkerSnapshotCache of the current transcript.
Retire(k) ==
  IF k.current = None THEN k
  ELSE [k EXCEPT
          !.current = None,
          !.cache = IF @ = k.current THEN None ELSE @,
          !.gen[k.current] = IF @ \in {"incoming", "checking"} THEN @ ELSE "none",
          !.retired = IF k.gen[k.current] \in {"incoming", "checking"} THEN @ \cup {k.current} ELSE @]

\* Mutant of Invalidated: only a finalized event drops the cached snapshot.
InvalidatedByFinal(k, final) == IF final THEN Retire([k EXCEPT !.cache = None]) ELSE k

\* invalidateWorkerSnapshot: a finalized event changes the transcript as well.
Invalidated(k, final) ==
  LET dropped == [k EXCEPT !.cache = None] IN IF final THEN Retire(dropped) ELSE dropped

\* handleWorkerFrame on session_snapshot_begin.
Begun(k, s) ==
  LET older == k.current # None /\ s < k.current
      superseded == IF k.current \notin {None, s} THEN Retire(k) ELSE k
  IN IF older /\ k.gen[s] = "none" THEN k
     ELSE IF k.gen[s] = "complete"
     THEN [k EXCEPT !.gen[s] = "checking", !.cache = IF k.current = s THEN None ELSE @]
     ELSE IF older THEN [k EXCEPT !.gen[s] = "incoming"]
     ELSE [superseded EXCEPT !.gen[s] = "incoming", !.retired = @ \ {s},
                             !.current = s, !.cache = s]

Published(k, s) == k.gen[s] \in {"incoming", "checking"} /\ k.current = s

\* handleWorkerFrame on session_snapshot_end.
Ended(k, s) ==
  IF k.gen[s] \notin {"incoming", "checking"} THEN k
  ELSE [k EXCEPT
          !.gen[s] = IF s \in k.retired THEN "none" ELSE "complete",
          !.retired = @ \ {s},
          !.cache = IF k.gen[s] = "checking" /\ k.current = s THEN s ELSE @]

\* cacheLoadedSnapshot: another generation that appeared meanwhile wins.
Outrun(k, s, observed) ==
  k.current \notin {None, s} /\ (k.current # observed \/ k.current > s)

CacheLoaded(k, s, observed) ==
  IF Outrun(k, s, observed) THEN k
  ELSE LET base == IF k.current # s THEN Retire(k) ELSE k IN
       [base EXCEPT !.gen[s] = IF @ = "none" THEN "open" ELSE @, !.retired = @ \ {s},
                    !.current = s, !.cache = s]

Validating(k) == k.current # None /\ k.gen[k.current] = "checking"

-------------------------------------------------------------------------------
(* Frames from the worker *)

Deliver(frame) ==
  CASE frame.t = "event" ->
         /\ cached' = [Invalidated(cached, frame.final) EXCEPT !.heard = frame.n]
         /\ loads' = [i \in DOMAIN loads |->
                        [loads[i] EXCEPT !.valid = @ /\ ~frame.final]]
         /\ conn' = [c \in Clients |-> Forward(conn[c], frame.n)]
         /\ UNCHANGED resolved
    [] frame.t = "response" ->
         /\ resolved' = Append(resolved, frame.n)
         /\ UNCHANGED <<cached, loads, conn>>
    [] frame.t = "begin" ->
         /\ cached' = Begun(cached, frame.n)
         /\ UNCHANGED <<loads, resolved, conn>>
    [] frame.t = "end" ->
         /\ cached' = Ended(cached, frame.n)
         /\ conn' = IF Published(cached, frame.n) /\ frame.purpose = "catchup"
                    THEN [c \in Clients |-> IF Attached(conn[c]) THEN Queue(conn[c], TRUE)
                                            ELSE conn[c]]
                    ELSE conn
         /\ UNCHANGED <<loads, resolved>>

\* The next frame: a socket read may hold several, and then the continuations
\* of the responses among them run behind the last.
Receive ==
  /\ pipe # <<>>
  /\ pipe' = Tail(pipe)
  /\ Deliver(Head(pipe))
  /\ UNCHANGED <<worker, ui, late, missed, disconnects>>

Settled == resolved = <<>>

ValidLoads(ls) == {i \in DOMAIN ls : ls[i].valid}

\* attachClient's loop for these clients: share the load under way or start one.
Join(ls, cs) ==
  IF cs = {} THEN ls
  ELSE IF ValidLoads(ls) # {}
  THEN [i \in DOMAIN ls |-> IF ls[i].valid THEN [ls[i] EXCEPT !.waiters = @ \cup cs] ELSE ls[i]]
  ELSE Append(ls, [valid |-> TRUE, observed |-> cached.current, waiters |-> cs])

\* The part of attachClient behind its last await, with loaded snapshot s: the
\* cached snapshot is taken before it, and its transcript must be the current one.
Chosen(k, s) == IF k.cache # None THEN k.cache ELSE s

Serve(k, s, caches) ==
  IF Chosen(caches, s) = caches.current THEN Stream(k, caches.current) ELSE Fail(k)

\* What a load ends with, if a newer event has been forwarded already.
Behind(s, caches) == {r \in {Chosen(caches, s)} : r < caches.heard}

\* The clients among cs end their attachClient with loaded snapshot s.  One that is
\* served a late snapshot, or whose catch-up fails, may lack an event from here on.
Served(cs, s, caches, lates) ==
  /\ conn' = [c \in Clients |-> IF c \in cs THEN Serve(conn[c], s, caches) ELSE conn[c]]
  /\ missed' = missed \cup
       {c \in cs : \/ Chosen(caches, s) \in lates
                   \/ Chosen(caches, s) # caches.current /\ conn[c].purpose = "resync"}

\* A response whose load is still the current one.
LoadedValid ==
  LET load == Head(loads)
      caches == CacheLoaded(cached, Head(resolved), load.observed)
      s == IF Outrun(cached, Head(resolved), load.observed) THEN cached.current ELSE Head(resolved)
  IN /\ load.valid
     /\ cached' = caches
     /\ loads' = Tail(loads)
     /\ late' = late \cup Behind(s, caches)
     /\ IF Validating(caches)
        THEN /\ conn' = [c \in Clients |-> IF c \in load.waiters
                                           THEN [conn[c] EXCEPT !.stage = "loaded", !.snap = s]
                                           ELSE conn[c]]
             /\ UNCHANGED missed
        ELSE Served(load.waiters, s, caches, late')
     /\ UNCHANGED worker

\* One that a finalized event invalidated: each waiter tries once more.
LoadedInvalid ==
  LET waiters == Head(loads).waiters
      again == {c \in waiters : ~conn[c].retried}
      failed == waiters \ again
      rejoined == Join(Tail(loads), again)
  IN /\ ~Head(loads).valid
     /\ loads' = rejoined
     /\ worker' = [worker EXCEPT !.asked = @ + Len(rejoined) + 1 - Len(loads)]
     /\ conn' = [c \in Clients |-> CASE c \in again -> [conn[c] EXCEPT !.retried = TRUE]
                                     [] c \in failed -> Fail(conn[c])
                                     [] OTHER -> conn[c]]
     /\ missed' = missed \cup {c \in failed : conn[c].purpose = "resync"}
     /\ UNCHANGED <<cached, late>>

Loaded ==
  /\ resolved # <<>>
  /\ resolved' = Tail(resolved)
  /\ LoadedValid \/ LoadedInvalid
  /\ UNCHANGED <<pipe, ui, disconnects>>

-------------------------------------------------------------------------------
(* Clients *)

Attach(c) ==
  /\ Settled
  /\ conn[c].stage = "none"
  /\ conn' = [conn EXCEPT ![c].stage = "seeking"]
  /\ UNCHANGED <<worker, pipe, cached, loads, resolved, ui, late, missed, disconnects>>

\* attachClient up to its load: the cached snapshot, or a load to wait for.
Seek(c) ==
  /\ Settled
  /\ conn[c].stage = "seeking"
  /\ ~Validating(cached)
  /\ IF cached.cache # None
     THEN /\ Served({c}, cached.cache, cached, late)
          /\ UNCHANGED <<worker, loads>>
     ELSE /\ loads' = Join(loads, {c})
          /\ worker' = [worker EXCEPT !.asked = @ + Len(loads') - Len(loads)]
          /\ conn' = [conn EXCEPT ![c].stage = "loading"]
          /\ UNCHANGED missed
  /\ UNCHANGED <<pipe, cached, resolved, ui, late, disconnects>>

\* The duplicate transfer that attachClient waited for has been validated.
Validated(c) ==
  /\ Settled
  /\ conn[c].stage = "loaded"
  /\ ~Validating(cached)
  /\ late' = late \cup Behind(conn[c].snap, cached)
  /\ Served({c}, conn[c].snap, cached, late')
  /\ UNCHANGED <<worker, pipe, cached, loads, resolved, ui, disconnects>>

\* streamSnapshot has sent the complete transcript and writes the end.
Finish(c) ==
  LET k == conn[c]
      ended == Write(k, "end", k.snap)
  IN /\ Settled
     /\ k.stage = "body"
     /\ cached.gen[k.snap] \notin {"open", "incoming"}
     /\ conn' = [conn EXCEPT ![c] = IF Accepts(k) THEN Release(ended)
                                    ELSE [ended EXCEPT !.stage = "endWait"]]
     /\ UNCHANGED <<worker, pipe, cached, loads, resolved, ui, late, missed, disconnects>>

\* The socket's drain event, for a stream that waits for it or for the connection.
Drain(c) ==
  LET k == [conn[c] EXCEPT !.needDrain = FALSE, !.blocked = FALSE] IN
  /\ Settled
  /\ conn[c].needDrain
  /\ conn[c].out = <<>>
  /\ conn' = [conn EXCEPT ![c] = CASE k.stage = "beginWait" -> [k EXCEPT !.stage = "body"]
                                   [] k.stage = "endWait" -> Release(k)
                                   [] k.stage = "idle" -> Rest(k)
                                   [] OTHER -> k]
  /\ UNCHANGED <<worker, pipe, cached, loads, resolved, ui, late, missed, disconnects>>

AtLeast(m, n) == IF m >= n THEN m ELSE n

\* DaemonAgentConnection.handleDaemonMessage, and attach on its response.
Applied(u, record) ==
  CASE record.t = "response" -> [u EXCEPT !.cursor = AtLeast(@, record.n)]
    [] record.t = "begin" -> u
    [] record.t = "end" -> [view |-> 1..record.n, cursor |-> AtLeast(u.cursor, record.n),
                            following |-> TRUE]
    [] record.t = "event" ->
         IF record.n <= u.cursor THEN u
         ELSE [u EXCEPT !.view = @ \cup {record.n}, !.cursor = record.n]

Read(c) ==
  /\ conn[c].out # <<>>
  /\ conn' = [conn EXCEPT ![c].out = Tail(@)]
  /\ ui' = [ui EXCEPT ![c] = Applied(@, Head(conn[c].out))]
  /\ UNCHANGED <<worker, pipe, cached, loads, resolved, late, missed, disconnects>>

\* Mutant of Disconnect: the load a closed connection waited for serves the next one.
DisconnectWaiting(c) ==
  /\ Settled
  /\ conn[c].stage # "none"
  /\ disconnects < MaxDisconnects
  /\ disconnects' = disconnects + 1
  /\ conn' = [conn EXCEPT ![c] = Closed]
  /\ ui' = [ui EXCEPT ![c].following = FALSE]
  /\ missed' = missed \ {c}
  /\ UNCHANGED <<worker, pipe, cached, loads, resolved, late>>

\* A socket breaks, with all it holds; the client may attach again.
Disconnect(c) ==
  /\ Settled
  /\ conn[c].stage # "none"
  /\ disconnects < MaxDisconnects
  /\ disconnects' = disconnects + 1
  /\ conn' = [conn EXCEPT ![c] = Closed]
  /\ loads' = [i \in DOMAIN loads |-> [loads[i] EXCEPT !.waiters = @ \ {c}]]
  /\ ui' = [ui EXCEPT ![c].following = FALSE]
  /\ missed' = missed \ {c}
  /\ UNCHANGED <<worker, pipe, cached, resolved, late>>

-------------------------------------------------------------------------------
WorkerStep == Mark \/ Answer \/ Begin \/ End \/ WorkerCatchup

ClientStep(c) == Seek(c) \/ Validated(c) \/ Finish(c) \/ Drain(c) \/ Read(c)

Next ==
  \/ \E final \in BOOLEAN : Emit(final)
  \/ WorkerStep
  \/ Receive
  \/ Loaded
  \/ \E c \in Clients : Attach(c) \/ ClientStep(c) \/ Disconnect(c)

Spec == Init /\ [][Next]_vars

\* The worker and the supervisor run their queued work, and clients read.
Fairness ==
  /\ WF_vars(Mark) /\ WF_vars(Answer) /\ WF_vars(Begin) /\ WF_vars(End)
  /\ WF_vars(WorkerCatchup)
  /\ WF_vars(Receive) /\ WF_vars(Loaded)
  /\ \A c \in Clients : /\ WF_vars(Seek(c)) /\ WF_vars(Validated(c)) /\ WF_vars(Finish(c))
                        /\ WF_vars(Drain(c)) /\ WF_vars(Read(c))

FairSpec == Spec /\ Fairness

-------------------------------------------------------------------------------
(* Properties *)

InSocket(c, types) == {conn[c].out[i].n : i \in {j \in DOMAIN conn[c].out : conn[c].out[j].t \in types}}

\* What c's view will reflect once it has read its socket.
Reaches(c) == ui[c].view \cup InSocket(c, {"event"}) \cup UNION {1..n : n \in InSocket(c, {"end"})}

\* A snapshot of the worker's own is due, for the events it held back.
WorkerCatchupDue ==
  \/ worker.catchup \/ worker.catching
  \/ \E i \in DOMAIN worker.transfers : worker.transfers[i].purpose = "catchup"
  \/ \E i \in DOMAIN pipe : pipe[i].t = "end" /\ pipe[i].purpose = "catchup"

OnTheWay == {pipe[i].n : i \in {j \in DOMAIN pipe : pipe[j].t = "event"}}

\* What an attached client with no catch-up queued or under way is going to lack.
Gap(c) ==
  IF conn[c].stage = "idle" /\ ~conn[c].pending /\ ~WorkerCatchupDue
  THEN 1..worker.seq \ (OnTheWay \cup Reaches(c))
  ELSE {}

\* Every event reaches every attached client, by itself or by a catch-up at one of the
\* two hops, unless the client is marked as missing one.
NoSilentGap == \A c \in Clients \ missed : Gap(c) = {}

\* A catch-up's snapshot holds everything the client was shown and is being sent.
CatchupIsFresh ==
  \A c \in Clients :
    Streaming(conn[c]) /\ conn[c].purpose = "resync"
      => \A n \in ui[c].view \cup InSocket(c, {"event"}) : n <= conn[c].snap

\* A client that follows the session is current again and again, or lost an event.
CatchesUp ==
  \A c \in Clients :
    []<>(ui[c].view = 1..worker.seq \/ ~ui[c].following \/ c \in missed)

Feed == INSTANCE EventFeed WITH
  emitted <- worker.seq,
  shown <- [c \in Clients |-> ui[c].view],
  following <- [c \in Clients |-> ui[c].following /\ c \notin missed]

ImplementsFeed == Feed!Spec
=============================================================================
