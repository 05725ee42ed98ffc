---------------------------- MODULE CommandJournal ----------------------------
(***************************************************************************)
(* Idempotent mutating commands between a DaemonClient and the daemon      *)
(* supervisor: the client's pending-request table with its timeouts,       *)
(* reconnects and acknowledgements; DaemonSupervisor.handleLine; and the   *)
(* append-only CommandRecoveryJournal behind it, with its file, its load   *)
(* after a crash and its compaction.                                       *)
(*                                                                         *)
(* A command stands for one idempotency key (clientId, commandId).  The    *)
(* client is one process; a supervisor that exits is replaced by a new one *)
(* that loads the same file.  A handler keeps running when its connection  *)
(* closes; its reply is then written to nobody.                            *)
(***************************************************************************)
EXTENDS Naturals, Sequences, FiniteSets

CONSTANTS
  Commands,        \* idempotency keys of the mutating commands of one client
  CompactAfter,    \* COMPACT_AFTER_RECORDS
  MaxConnections,  \* bound: connections the client opens
  MaxCrashes,      \* bound: supervisor exits and crashes
  MaxTornWrites    \* bound: appends a crash leaves incomplete in the file

ASSUME JournalAssumption ==
  /\ IsFiniteSet(Commands)
  /\ CompactAfter \in Nat \ {0}
  /\ MaxConnections \in Nat \ {0}
  /\ MaxCrashes \in Nat
  /\ MaxTornWrites \in Nat

VARIABLES
  (* the journal file *)
  snapshot,      \* the entries its compacted head spells out
  log,           \* the records appended after that head
  tail,          \* how the last append left the end of the file
  (* the supervisor process *)
  supervisor,    \* which commands it admits, "down" between two processes
  entries,       \* CommandRecoveryJournal.entries
  recordCount,   \* CommandRecoveryJournal.recordCount
  handlers,      \* handleLine activations past journal.begin
  (* the sockets *)
  connection,    \* number of the client's latest connection
  link,          \* that connection as the client sees it
  toSupervisor,  \* lines written by the client and not yet handled
  toClient,      \* lines written on the current connection and not yet read
  (* the client process *)
  request,       \* DaemonClient.pendingRequests
  outcome,       \* what request() settled with
  (* history *)
  dispatches,    \* how often handleCommand was run for each command
  result,        \* the response of its last run
  crashes,
  tornWrites

fileVars       == <<snapshot, log, tail>>
supervisorVars == <<supervisor, entries, recordCount, handlers>>
socketVars     == <<connection, link, toSupervisor, toClient>>
clientVars     == <<request, outcome>>
historyVars    == <<dispatches, result, crashes, tornWrites>>
vars == <<fileVars, supervisorVars, socketVars, clientVars, historyVars>>

Connections == 1..MaxConnections
Results     == {"ok", "error"}
Excuses     == {"uncertain", "refused", "stale", "failed"}
Entries     == {"absent", "received"} \cup Results
Records     == [type : {"received", "acknowledged"}, cmd : Commands]
                 \cup [type : {"result"}, cmd : Commands, response : Results]
Handlers    == [cmd : Commands, conn : Connections, stage : {"admitted"} \cup Results]
Messages    == [kind : {"request", "ack"}, cmd : Commands, conn : Connections]
Replies     == [cmd : Commands, reply : Results \cup (Excuses \ {"failed"})]

NoEntries == [c \in Commands |-> "absent"]

TypeOK ==
  /\ snapshot \in [Commands -> Entries]
  /\ log \in Seq(Records)
  /\ tail \in {"newline", "unterminated", "partial"}
  /\ supervisor \in {"serving", "draining", "stopping", "retired", "down"}
  /\ entries \in [Commands -> Entries]
  /\ recordCount \in Nat
  /\ handlers \in SUBSET Handlers
  /\ connection \in Connections
  /\ link \in {"down", "open", "dead"}
  /\ toSupervisor \in SUBSET Messages
  /\ toClient \in SUBSET Replies
  /\ request \in [Commands -> {"idle", "sent", "parked", "settled"}]
  /\ outcome \in [Commands -> {"none"} \cup Results \cup Excuses]
  /\ dispatches \in [Commands -> Nat]
  /\ result \in [Commands -> {"none"} \cup Results]
  /\ crashes \in 0..MaxCrashes
  /\ tornWrites \in 0..MaxTornWrites

Init ==
  /\ snapshot = NoEntries
  /\ log = <<>>
  /\ tail = "newline"
  /\ supervisor = "serving"
  /\ entries = NoEntries
  /\ recordCount = 0
  /\ handlers = {}
  /\ connection = 1
  /\ link = "open"
  /\ toSupervisor = {}
  /\ toClient = {}
  /\ request = [c \in Commands |-> "idle"]
  /\ outcome = [c \in Commands |-> "none"]
  /\ dispatches = [c \in Commands |-> 0]
  /\ result = [c \in Commands |-> "none"]
  /\ crashes = 0
  /\ tornWrites = 0

-------------------------------------------------------------------------------
(* The journal file *)

Received(c)     == [type |-> "received", cmd |-> c]
Acknowledged(c) == [type |-> "acknowledged", cmd |-> c]
Result(c, r)    == [type |-> "result", cmd |-> c, response |-> r]

\* Positions of s whose record overwrites or deletes the entry of c for good:
\* only results of c follow.
LastReset(s, c) ==
  {i \in DOMAIN s : /\ s[i].cmd = c
                    /\ s[i].type # "result"
                    /\ \A j \in DOMAIN s : j > i /\ s[j].cmd = c => s[j].type = "result"}

\* The response of the last result of c in s, given that it stands.
LastResults(s, c) ==
  {s[i].response : i \in {k \in DOMAIN s :
      /\ s[k].cmd = c
      /\ s[k].type = "result"
      /\ \A j \in DOMAIN s : j > k => s[j].cmd # c}}

\* The response in a set that holds one.
Only(S) == CHOOSE r \in Results : r \in S

\* The entry of c, results aside, after load() has read a head that spells e and
\* the records s.
Opened(e, s, c) ==
  IF LastReset(s, c) = {} THEN e[c]
  ELSE IF \E i \in LastReset(s, c) : s[i].type = "received" THEN "received" ELSE "absent"

LoadedEntry(e, s, c) ==
  IF Opened(e, s, c) = "absent" \/ LastResults(s, c) = {}
  THEN Opened(e, s, c)
  ELSE Only(LastResults(s, c))

\* What a new process finds: an incomplete last line does not parse and is
\* skipped; one that lacks only its newline does.
Load == [c \in Commands |-> LoadedEntry(snapshot, log, c)]

\* Lines of the file that compact() writes for e: a receipt for every entry
\* and the result of those that have one.
Lines(e) == Cardinality({c \in Commands : e[c] # "absent"})
              + Cardinality({c \in Commands : e[c] \in Results})

\* append() opens the file in "a" mode and never repairs its end: the new line
\* is glued to whatever an interrupted append left, and neither parses again.
Appended(r) ==
  CASE tail = "newline"      -> Append(log, r)
    [] tail = "unterminated" -> SubSeq(log, 1, Len(log) - 1)
    [] tail = "partial"      -> log

\* Mutant of Journal: compaction keeps completed commands only.
JournalCompletedOnly(r, e, compacting) ==
  /\ entries' = e
  /\ tail' = "newline"
  /\ IF compacting
     THEN /\ snapshot' = [c \in Commands |-> IF e[c] \in Results THEN e[c] ELSE "absent"]
          /\ log' = <<>>
          /\ recordCount' = Lines(e)
     ELSE /\ snapshot' = snapshot
          /\ log' = Appended(r)
          /\ recordCount' = recordCount + 1

\* Append r, make e the entries, and rewrite the file from them if due.
Journal(r, e, compacting) ==
  /\ entries' = e
  /\ tail' = "newline"
  /\ IF compacting
     THEN /\ snapshot' = e
          /\ log' = <<>>
          /\ recordCount' = Lines(e)
     ELSE /\ snapshot' = snapshot
          /\ log' = Appended(r)
          /\ recordCount' = recordCount + 1

-------------------------------------------------------------------------------
(* The client *)

\* A line written while the supervisor of this connection is gone is lost.
Transmit(M) == toSupervisor' = IF link = "open" THEN toSupervisor \cup M ELSE toSupervisor

Request(c, n) == [kind |-> "request", cmd |-> c, conn |-> n]
Ack(c, n)     == [kind |-> "ack", cmd |-> c, conn |-> n]

Pending == {c \in Commands : request[c] = "sent"}
Parked  == {c \in Commands : request[c] = "parked"}

\* requestWire
Send(c) ==
  /\ request[c] = "idle"
  /\ link # "down"
  /\ request' = [request EXCEPT ![c] = "sent"]
  /\ Transmit({Request(c, connection)})
  /\ UNCHANGED <<fileVars, supervisorVars, connection, link, toClient, outcome, historyVars>>

\* handleLine: the response resolves the pending request and is acknowledged at
\* once; a response to a request no longer pending is not.
ReceiveReply(m) ==
  /\ m \in toClient
  /\ toClient' = toClient \ {m}
  /\ IF request[m.cmd] = "sent"
     THEN /\ request' = [request EXCEPT ![m.cmd] = "settled"]
          /\ outcome' = [outcome EXCEPT ![m.cmd] = m.reply]
          /\ Transmit({Ack(m.cmd, connection)})
     ELSE UNCHANGED <<request, outcome, toSupervisor>>
  /\ UNCHANGED <<fileVars, supervisorVars, connection, link, historyVars>>

\* armPendingRequestTimeout; the timer of a parked request is cleared.
Timeout(c) ==
  /\ request[c] = "sent"
  /\ request' = [request EXCEPT ![c] = "settled"]
  /\ outcome' = [outcome EXCEPT ![c] = "failed"]
  /\ UNCHANGED <<fileVars, supervisorVars, socketVars, historyVars>>

\* notifyClosed: pending requests are parked for the reconnect.  The socket may
\* close at any time: network error, backpressure, or an exited supervisor.
Disconnect ==
  /\ link # "down"
  /\ link' = "down"
  /\ toClient' = {}
  /\ request' = [c \in Commands |-> IF c \in Pending THEN "parked" ELSE request[c]]
  /\ UNCHANGED <<fileVars, supervisorVars, connection, toSupervisor, outcome, historyVars>>

\* Mutant of Reconnect: the parked requests are armed again and not resent.
ReconnectSilently ==
  /\ link = "down"
  /\ supervisor # "down"
  /\ connection < MaxConnections
  /\ connection' = connection + 1
  /\ link' = "open"
  /\ request' = [c \in Commands |-> IF c \in Parked THEN "sent" ELSE request[c]]
  /\ UNCHANGED <<fileVars, supervisorVars, toSupervisor, toClient, outcome, historyVars>>

\* autoReconnect up to the hello, which resends every parked request.
Reconnect ==
  /\ link = "down"
  /\ supervisor # "down"
  /\ connection < MaxConnections
  /\ connection' = connection + 1
  /\ link' = "open"
  /\ toSupervisor' = toSupervisor \cup {Request(c, connection + 1) : c \in Parked}
  /\ request' = [c \in Commands |-> IF c \in Parked THEN "sent" ELSE request[c]]
  /\ UNCHANGED <<fileVars, supervisorVars, toClient, outcome, historyVars>>

\* autoReconnect reaches its deadline: rejectAll.
GiveUp ==
  /\ link = "down"
  /\ Parked # {}
  /\ request' = [c \in Commands |-> IF c \in Parked THEN "settled" ELSE request[c]]
  /\ outcome' = [c \in Commands |-> IF c \in Parked THEN "failed" ELSE outcome[c]]
  /\ UNCHANGED <<fileVars, supervisorVars, socketVars, historyVars>>

-------------------------------------------------------------------------------
(* The supervisor: DaemonSupervisor.handleLine *)

\* assertServingCurrentOwnership and assertCurrentOwnership: a supervisor that
\* shuts down takes no commands and still records the results of those it runs.
Working == supervisor \in {"serving", "draining"}
Owning  == supervisor \in {"serving", "draining", "stopping"}

\* write(): a response goes to the socket its command came in on.
Reply(c, n, r) ==
  toClient' = IF link = "open" /\ n = connection
              THEN toClient \cup {[cmd |-> c, reply |-> r]} ELSE toClient

\* The request was handled: m leaves the wire.
Consume(m) ==
  /\ m \in toSupervisor
  /\ toSupervisor' = toSupervisor \ {m}

\* lookup() finds the command complete: the stored response is sent again.
AnswerFromJournal(c, n) ==
  /\ Working
  /\ entries[c] \in Results
  /\ Consume(Request(c, n))
  /\ Reply(c, n, entries[c])
  /\ UNCHANGED <<fileVars, supervisorVars, connection, link, clientVars, historyVars>>

\* Mutant of AnswerUncertain: a received command is reported as done.
AnswerDone(c, n) ==
  /\ Working
  /\ entries[c] = "received"
  /\ Consume(Request(c, n))
  /\ Reply(c, n, "ok")
  /\ UNCHANGED <<fileVars, supervisorVars, connection, link, clientVars, historyVars>>

\* lookup() finds it received and without a result: it may still be running, or
\* a crash interrupted it.
AnswerUncertain(c, n) ==
  /\ Working
  /\ entries[c] = "received"
  /\ Consume(Request(c, n))
  /\ Reply(c, n, "uncertain")
  /\ UNCHANGED <<fileVars, supervisorVars, connection, link, clientVars, historyVars>>

\* The early returns that leave the journal alone: a supervisor that is
\* shutting down or lost its ownership refuses before it looks the command up,
\* one that drains for an update restart refuses the commands it does not know.
Refuse(c, n) ==
  /\ \/ supervisor \in {"stopping", "retired"}
     \/ supervisor = "draining" /\ entries[c] = "absent"
  /\ Consume(Request(c, n))
  /\ Reply(c, n, "refused")
  /\ UNCHANGED <<fileVars, supervisorVars, connection, link, clientVars, historyVars>>

CanBegin(c, n) ==
  /\ supervisor = "serving"
  /\ entries[c] = "absent"
  /\ Request(c, n) \in toSupervisor

\* Mutant of Begin: the receipt stays in memory.
BeginInMemory(c, n) ==
  /\ CanBegin(c, n)
  /\ Consume(Request(c, n))
  /\ entries' = [entries EXCEPT ![c] = "received"]
  /\ handlers' = handlers \cup {[cmd |-> c, conn |-> n, stage |-> "admitted"]}
  /\ UNCHANGED <<fileVars, recordCount, supervisor, connection, link, toClient, clientVars,
                 historyVars>>

\* begin(): the receipt is in the file before the handler starts.
Begin(c, n) ==
  /\ CanBegin(c, n)
  /\ Consume(Request(c, n))
  /\ Journal(Received(c), [entries EXCEPT ![c] = "received"], FALSE)
  /\ handlers' = handlers \cup {[cmd |-> c, conn |-> n, stage |-> "admitted"]}
  /\ UNCHANGED <<supervisor, connection, link, toClient, clientVars, historyVars>>

\* handleCommand does its work; it goes on when the supervisor stops serving.
Execute(h) ==
  /\ h \in handlers
  /\ h.stage = "admitted"
  /\ dispatches' = [dispatches EXCEPT ![h.cmd] = @ + 1]
  /\ \E r \in Results :
        /\ result' = [result EXCEPT ![h.cmd] = r]
        /\ handlers' = (handlers \ {h}) \cup {[h EXCEPT !.stage = r]}
  /\ UNCHANGED <<fileVars, supervisor, entries, recordCount, socketVars, clientVars,
                 crashes, tornWrites>>

\* Mutant of CanRecord: the handler is not awaited.
CanRecordEarly(h) ==
  /\ Owning
  /\ h \in handlers
  /\ entries[h.cmd] # "absent"

CanRecord(h) ==
  /\ Owning
  /\ h \in handlers
  /\ h.stage \in Results
  /\ entries[h.cmd] # "absent"

\* recordResult(), then the response is written.
Record(h) ==
  /\ CanRecord(h)
  /\ handlers' = handlers \ {h}
  /\ Journal(Result(h.cmd, h.stage), [entries EXCEPT ![h.cmd] = h.stage],
             recordCount + 1 >= CompactAfter)
  /\ Reply(h.cmd, h.conn, h.stage)
  /\ UNCHANGED <<supervisor, connection, link, toSupervisor, clientVars, historyVars>>

\* recordResult() throws because an acknowledgement removed the entry, or the
\* ownership check before it fails: the client is sent that error instead.
FailRecord(h) ==
  /\ h \in handlers
  /\ h.stage \in Results
  /\ supervisor = "retired" \/ entries[h.cmd] = "absent"
  /\ handlers' = handlers \ {h}
  /\ Reply(h.cmd, h.conn, "stale")
  /\ UNCHANGED <<fileVars, supervisor, entries, recordCount, connection, link, toSupervisor,
                 clientVars, historyVars>>

\* Mutant of CanAcknowledge: acknowledgements overtake copies of their request.
CanAcknowledgeOutOfOrder(c, n) == Working /\ Ack(c, n) \in toSupervisor

\* Node reads an older socket's buffered bytes no later than the loop turn in
\* which it reads a line the client wrote after a full round trip on a newer one,
\* and what handleLine awaits before the journal resumes in order.
CanAcknowledge(c, n) ==
  /\ Working
  /\ Ack(c, n) \in toSupervisor
  /\ \A m \in toSupervisor : m.kind = "request" /\ m.cmd = c => m.conn >= n

\* Mutant of Acknowledge: the deletion is not appended.
AcknowledgeInMemory(c, n) ==
  /\ CanAcknowledge(c, n)
  /\ Consume(Ack(c, n))
  /\ entries' = [entries EXCEPT ![c] = "absent"]
  /\ UNCHANGED <<fileVars, recordCount, supervisor, handlers, connection, link, toClient,
                 clientVars, historyVars>>

\* acknowledge(): nothing for an unknown entry; compaction once none is left.
Acknowledge(c, n) ==
  /\ CanAcknowledge(c, n)
  /\ Consume(Ack(c, n))
  /\ IF entries[c] = "absent"
     THEN UNCHANGED <<fileVars, entries, recordCount>>
     ELSE LET rest == [entries EXCEPT ![c] = "absent"]
          IN  Journal(Acknowledged(c), rest,
                      rest = NoEntries \/ recordCount + 1 >= CompactAfter)
  /\ UNCHANGED <<supervisor, handlers, connection, link, toClient, clientVars, historyVars>>

\* A closed socket takes unread lines with it; a supervisor that no longer
\* serves fails the acknowledgement without reaching the journal.
Lose(m) ==
  /\ \/ m.conn # connection
     \/ link # "open"
     \/ m.kind = "ack" /\ supervisor \in {"stopping", "retired"}
  /\ Consume(m)
  /\ UNCHANGED <<fileVars, supervisorVars, connection, link, toClient, clientVars, historyVars>>

-------------------------------------------------------------------------------
(* The life of the supervisor process *)

\* prepareUpdateRestart starts, or fails and serves again.
ChangePhase ==
  /\ \/ supervisor = "serving" /\ supervisor' = "draining"
     \/ supervisor = "draining" /\ supervisor' = "serving"
  /\ UNCHANGED <<fileVars, entries, recordCount, handlers, socketVars, clientVars, historyVars>>

\* Shutdown begins; ownership is released at its end, or another supervisor has
\* taken the record.
Retire ==
  /\ \/ Working /\ supervisor' = "stopping"
     \/ Owning /\ supervisor' = "retired"
  /\ UNCHANGED <<fileVars, entries, recordCount, handlers, socketVars, clientVars, historyVars>>

\* The process is gone: memory, handlers and unread lines with it.
ProcessEnds ==
  /\ supervisor # "down"
  /\ crashes < MaxCrashes
  /\ crashes' = crashes + 1
  /\ supervisor' = "down"
  /\ entries' = NoEntries
  /\ recordCount' = 0
  /\ handlers' = {}
  /\ toSupervisor' = {}
  /\ link' = IF link = "open" THEN "dead" ELSE link
  /\ UNCHANGED <<connection, toClient, clientVars, dispatches, result>>

Crash ==
  /\ ProcessEnds
  /\ UNCHANGED <<fileVars, tornWrites>>

\* Records the process may be appending when it dies.
InFlight ==
  {Received(c) : c \in {d \in Commands : \E n \in Connections : CanBegin(d, n)}}
    \cup {Result(h.cmd, h.stage) : h \in {g \in handlers : CanRecord(g)}}
    \cup {Acknowledged(c) : c \in {d \in Commands :
              entries[d] # "absent" /\ \E n \in Connections : CanAcknowledge(d, n)}}

\* It dies inside append(), or between append() and compact(): the record is
\* complete, lacks its newline, or is cut short.
CrashInAppend ==
  /\ ProcessEnds
  /\ UNCHANGED snapshot
  /\ \/ /\ \E r \in InFlight : log' = Appended(r)
        /\ tail' = "newline"
        /\ UNCHANGED tornWrites
     \/ /\ tornWrites < MaxTornWrites
        /\ tail = "newline"
        /\ tornWrites' = tornWrites + 1
        /\ \E r \in InFlight :
              \/ log' = Append(log, r) /\ tail' = "unterminated"
              \/ log' = log /\ tail' = "partial"

\* A new supervisor constructs the journal from the file.
Restart ==
  /\ supervisor = "down"
  /\ supervisor' = "serving"
  /\ entries' = Load
  /\ recordCount' = Lines(snapshot) + Len(log)
  /\ UNCHANGED <<fileVars, handlers, socketVars, clientVars, historyVars>>

-------------------------------------------------------------------------------
Client == Disconnect \/ Reconnect \/ GiveUp
            \/ (\E c \in Commands : Send(c) \/ Timeout(c))
            \/ (\E m \in toClient : ReceiveReply(m))

HandleRequest(c, n) == AnswerFromJournal(c, n) \/ AnswerUncertain(c, n)
                         \/ Refuse(c, n) \/ Begin(c, n)

HandleLine == \E c \in Commands, n \in Connections : HandleRequest(c, n) \/ Acknowledge(c, n)
Handler    == \E h \in handlers : Execute(h) \/ Record(h) \/ FailRecord(h)
Lifecycle  == ChangePhase \/ Retire \/ Crash \/ CrashInAppend \/ Restart

Next == Client \/ HandleLine \/ Handler \/ Lifecycle \/ (\E m \in toSupervisor : Lose(m))

Spec == Init /\ [][Next]_vars

\* Handlers run to completion and readable sockets are read; whoever needs the
\* daemon starts one (recoverDaemon); a client notices that its socket closed and
\* leaves autoReconnect through the hello or through the deadline.  Request timers are
\* left out: with them every request settles whatever the supervisor does.
Fairness ==
  /\ \A c \in Commands, n \in Connections : WF_vars(HandleRequest(c, n))
  /\ WF_vars(Handler)
  /\ WF_vars(Restart)
  /\ WF_vars(Reconnect \/ GiveUp)
  /\ WF_vars(link = "dead" /\ Disconnect)
  /\ WF_vars(\E m \in toClient : ReceiveReply(m))

FairSpec == Spec /\ Fairness

-------------------------------------------------------------------------------
(* Properties *)

\* docs/daemon.md: a command is never replayed.  handleCommand runs at most once
\* for a key, whatever crashes, reconnects and acknowledgements do.
AtMostOnce == \A c \in Commands : dispatches[c] <= 1

\* The file always reads back as the memory of the running journal: neither an
\* append, nor a compaction, nor a crash between them loses or revives an entry.
FileMatchesMemory == supervisor # "down" => entries = Load

\* As long as the client may still send the command (again), a supervisor that
\* ran it, or one that replaces it, knows that it was received.
DispatchedIsRemembered ==
  \A c \in Commands :
    dispatches[c] > 0 /\ request[c] \in {"sent", "parked"} => Load[c] # "absent"

\* The client-visible behaviour is the one the documentation promises.
Contract == INSTANCE CommandContract
              WITH Commands <- Commands, dispatches <- dispatches, result <- result,
                   outcome <- outcome
KeepsContract == Contract!ContractSpec

\* A request that was written is answered or rejected even if no request timer
\* fires: it never waits on a connection, a handler or a supervisor that is gone.
EveryRequestSettles ==
  \A c \in Commands : request[c] \in {"sent", "parked"} ~> request[c] = "settled"
-------------------------------------------------------------------------------
(* Why it holds: the inductive invariant behind the safety properties when no   *)
(* append is torn (MaxTornWrites = 0).                                          *)

RequestsFor(c) == {m \in toSupervisor : m.kind = "request" /\ m.cmd = c}
MayArrive(c)   == request[c] # "settled" \/ RequestsFor(c) # {}

\* A reply, a handler or an acknowledgement for a request means that the copy of
\* the request on the same connection is no longer on the wire.
SocketInv ==
  /\ supervisor = "down" => toSupervisor = {} /\ handlers = {} /\ entries = NoEntries
  /\ link = "open" => supervisor # "down"
  /\ link = "down" => toClient = {}
  /\ \A m \in toSupervisor : m.conn <= connection
  /\ \A h \in handlers : h.conn <= connection /\ Request(h.cmd, h.conn) \notin toSupervisor
  /\ \A r \in toClient : link = "open" => Request(r.cmd, connection) \notin toSupervisor
  /\ \A m \in toSupervisor : m.kind = "ack" =>
        /\ request[m.cmd] = "settled"
        /\ \A q \in RequestsFor(m.cmd) : q.conn < m.conn

\* A request not yet sent has left no trace.
IdleInv ==
  \A c \in Commands : request[c] = "idle" =>
    /\ \A m \in toSupervisor : m.cmd # c
    /\ \A h \in handlers : h.cmd # c
    /\ \A r \in toClient : r.cmd # c

\* The file knows a command that was handed to the handler for as long as its
\* request may still arrive, and one handler at most works on it.
KnowledgeInv ==
  /\ tail = "newline"
  /\ FileMatchesMemory
  /\ AtMostOnce
  /\ \A c \in Commands : MayArrive(c) /\ dispatches[c] > 0 => Load[c] # "absent"
  /\ \A h \in handlers : MayArrive(h.cmd) => Load[h.cmd] # "absent"
  /\ \A h \in handlers : h.stage = "admitted" => dispatches[h.cmd] = 0
  /\ \A g, h \in handlers : g.cmd = h.cmd => g = h

\* A result that is stored, on its way or reported is the one the handler produced.
TruthInv ==
  /\ \A c \in Commands : outcome[c] = "none" <=> request[c] # "settled"
  /\ \A c \in Commands : Load[c] \in Results => result[c] = Load[c] /\ dispatches[c] > 0
  /\ \A h \in handlers : h.stage \in Results => result[h.cmd] = h.stage /\ dispatches[h.cmd] > 0
  /\ \A r \in toClient : r.reply \in Results => result[r.cmd] = r.reply /\ dispatches[r.cmd] > 0
  /\ \A c \in Commands : outcome[c] \in Results => result[c] = outcome[c] /\ dispatches[c] > 0

JournalInv == TypeOK /\ SocketInv /\ IdleInv /\ KnowledgeInv /\ TruthInv
===============================================================================
