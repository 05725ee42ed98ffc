------------------------- MODULE CommandJournalProofs -------------------------
(***************************************************************************)
(* Proofs about CommandJournal for every set of commands, every bound and  *)
(* every compaction threshold, provided that no crash tears an append      *)
(* (MaxTornWrites = 0; with torn appends AtMostOnce fails, as the run      *)
(* journal_torn shows).                                                    *)
(***************************************************************************)
EXTENDS CommandJournal, FiniteSetTheorems, TLAPS

USE JournalAssumption

NoTornWrites == MaxTornWrites = 0

-------------------------------------------------------------------------------
(* What load() reads back after one more record *)

\* Appending leaves the earlier records where they are.
LEMMA AppendedPositions ==
  ASSUME NEW s \in Seq(Records), NEW x \in Records
  PROVE  LET t == Append(s, x) IN
         /\ DOMAIN t = 1..(Len(s) + 1)
         /\ DOMAIN s = 1..Len(s)
         /\ Len(s) \in Nat
         /\ t[Len(s) + 1] = x
         /\ \A i \in DOMAIN s : t[i] = s[i] /\ t[i] \in Records
  OBVIOUS

\* A file holds one of the four kinds of entry for every command.
LEMMA LoadedEntryType ==
  ASSUME NEW e \in [Commands -> Entries], NEW s \in Seq(Records), NEW c \in Commands
  PROVE  LoadedEntry(e, s, c) \in Entries
<1>1. LastResults(s, c) \subseteq Results
  BY DEF LastResults, Records, Results
<1>2. LastResults(s, c) # {} => Only(LastResults(s, c)) \in Results
  BY <1>1 DEF Only
<1>3. QED
  BY <1>2 DEF LoadedEntry, Opened, Entries

\* A head without further records spells its entries.
LEMMA LoadedHead ==
  ASSUME NEW e \in [Commands -> Entries], NEW c \in Commands
  PROVE  LoadedEntry(e, <<>>, c) = e[c]
<1>1. LastReset(<<>>, c) = {} /\ LastResults(<<>>, c) = {}
  BY DEF LastReset, LastResults
<1>2. QED
  BY <1>1 DEF LoadedEntry, Opened

\* Records of other commands do not touch an entry.
LEMMA LoadedOther ==
  ASSUME NEW e \in [Commands -> Entries], NEW s \in Seq(Records), NEW x \in Records,
         NEW c \in Commands, x.cmd # c
  PROVE  LoadedEntry(e, Append(s, x), c) = LoadedEntry(e, s, c)
<1> DEFINE t == Append(s, x)
<1>1. /\ DOMAIN t = 1..(Len(s) + 1)
      /\ DOMAIN s = 1..Len(s)
      /\ Len(s) \in Nat
      /\ t[Len(s) + 1] = x
      /\ \A i \in DOMAIN s : t[i] = s[i]
  BY AppendedPositions
<1> HIDE DEF t
<1>2. LastReset(t, c) = LastReset(s, c)
  BY <1>1 DEF LastReset
<1>3. LastResults(t, c) = LastResults(s, c)
  <2>1. ASSUME NEW k \in DOMAIN s
        PROVE  (\A j \in DOMAIN t : j > k => t[j].cmd # c)
                 <=> (\A j \in DOMAIN s : j > k => s[j].cmd # c)
    BY <1>1
  <2>2. {k \in DOMAIN t : t[k].cmd = c /\ t[k].type = "result"
                            /\ \A j \in DOMAIN t : j > k => t[j].cmd # c}
          = {k \in DOMAIN s : s[k].cmd = c /\ s[k].type = "result"
                            /\ \A j \in DOMAIN s : j > k => s[j].cmd # c}
    BY <1>1, <2>1
  <2>3. QED
    BY <1>1, <2>2 DEF LastResults
<1>4. \A i \in LastReset(s, c) : t[i] = s[i]
  BY <1>1 DEF LastReset
<1>5. Opened(e, t, c) = Opened(e, s, c)
  BY <1>2, <1>4 DEF Opened
<1>6. LoadedEntry(e, t, c) = LoadedEntry(e, s, c)
  BY <1>3, <1>5 DEF LoadedEntry
<1>7. QED
  BY <1>6 DEF t

\* A receipt opens the entry anew, an acknowledgement removes it.
LEMMA LoadedReset ==
  ASSUME NEW e \in [Commands -> Entries], NEW s \in Seq(Records), NEW c \in Commands
  PROVE  /\ LoadedEntry(e, Append(s, Received(c)), c) = "received"
         /\ LoadedEntry(e, Append(s, Acknowledged(c)), c) = "absent"
<1>1. ASSUME NEW x \in Records, x.cmd = c, x.type # "result"
      PROVE  LoadedEntry(e, Append(s, x), c) = IF x.type = "received" THEN "received" ELSE "absent"
  <2> DEFINE t == Append(s, x)
  <2>1. /\ DOMAIN t = 1..(Len(s) + 1)
        /\ Len(s) \in Nat
        /\ t[Len(s) + 1] = x
    BY AppendedPositions
  <2> HIDE DEF t
  <2>2. LastReset(t, c) = {Len(s) + 1}
    <3>1. Len(s) + 1 \in LastReset(t, c)
      BY <1>1, <2>1 DEF LastReset
    <3>2. ASSUME NEW i \in LastReset(t, c)
          PROVE  i = Len(s) + 1
      BY <1>1, <2>1 DEF LastReset
    <3>3. QED
      BY <3>1, <3>2
  <2>3. LastResults(t, c) = {}
    BY <1>1, <2>1 DEF LastResults
  <2>4. Opened(e, t, c) = IF x.type = "received" THEN "received" ELSE "absent"
    BY <2>1, <2>2 DEF Opened
  <2>5. QED
    BY <2>3, <2>4 DEF LoadedEntry, t
<1>2. Received(c) \in Records /\ Acknowledged(c) \in Records
  BY DEF Received, Acknowledged, Records
<1>3. QED
  BY <1>1, <1>2 DEF Received, Acknowledged

\* A result completes the entry it finds, and nothing if it finds none.
LEMMA LoadedResult ==
  ASSUME NEW e \in [Commands -> Entries], NEW s \in Seq(Records), NEW c \in Commands,
         NEW r \in Results
  PROVE  LoadedEntry(e, Append(s, Result(c, r)), c)
           = IF LoadedEntry(e, s, c) = "absent" THEN "absent" ELSE r
<1> DEFINE x == Result(c, r)
           t == Append(s, x)
<1>0. x \in Records /\ x.cmd = c /\ x.type = "result" /\ x.response = r
  BY DEF Result, Records
<1>1. /\ DOMAIN t = 1..(Len(s) + 1)
      /\ DOMAIN s = 1..Len(s)
      /\ Len(s) \in Nat
      /\ t[Len(s) + 1] = x
      /\ \A i \in DOMAIN s : t[i] = s[i]
  BY <1>0, AppendedPositions
<1> HIDE DEF t, x
<1>2. LastReset(t, c) = LastReset(s, c)
  BY <1>0, <1>1 DEF LastReset
<1>3. \A i \in LastReset(s, c) : t[i] = s[i]
  BY <1>1 DEF LastReset
<1>4. LastResults(t, c) = {r}
  <2>1. ASSUME NEW k \in DOMAIN t, \A j \in DOMAIN t : j > k => t[j].cmd # c
        PROVE  k = Len(s) + 1
    BY <1>0, <1>1, <2>1
  <2>2. {k \in DOMAIN t : t[k].cmd = c /\ t[k].type = "result"
                            /\ \A j \in DOMAIN t : j > k => t[j].cmd # c} = {Len(s) + 1}
    BY <1>0, <1>1, <2>1
  <2>3. QED
    BY <1>0, <1>1, <2>2 DEF LastResults
<1>5. LastResults(s, c) \subseteq Results
  BY DEF LastResults, Records, Results
<1>6. Only({r}) = r
  BY DEF Only
<1>7. Opened(e, t, c) = Opened(e, s, c)
  BY <1>2, <1>3 DEF Opened
<1>8. LoadedEntry(e, s, c) = "absent" <=> Opened(e, s, c) = "absent"
  <2>1. LastResults(s, c) # {} => Only(LastResults(s, c)) \in Results
    BY <1>5 DEF Only
  <2>2. QED
    BY <2>1 DEF LoadedEntry, Results
<1>9. LoadedEntry(e, t, c) = IF Opened(e, s, c) = "absent" THEN "absent" ELSE r
  BY <1>4, <1>6, <1>7 DEF LoadedEntry
<1>10. QED
  BY <1>8, <1>9 DEF t, x

-------------------------------------------------------------------------------
(* The operations of the journal on a file without torn lines *)

\* What load() finds is an entry for every command.
LEMMA LoadType ==
  ASSUME snapshot \in [Commands -> Entries], log \in Seq(Records)
  PROVE  Load \in [Commands -> Entries]
  BY LoadedEntryType DEF Load

\* Appending a record changes what load() finds as the journal changes its map.
LEMMA LoadAppended ==
  ASSUME TypeOK, tail = "newline", NEW d \in Commands
  PROVE  /\ [c \in Commands |-> LoadedEntry(snapshot, Appended(Received(d)), c)]
              = [Load EXCEPT ![d] = "received"]
         /\ [c \in Commands |-> LoadedEntry(snapshot, Appended(Acknowledged(d)), c)]
              = [Load EXCEPT ![d] = "absent"]
         /\ \A r \in Results : Load[d] # "absent" =>
              [c \in Commands |-> LoadedEntry(snapshot, Appended(Result(d, r)), c)]
                = [Load EXCEPT ![d] = r]
<1>1. \A x : Appended(x) = Append(log, x)
  BY DEF Appended
<1>2. snapshot \in [Commands -> Entries] /\ log \in Seq(Records)
  BY DEF TypeOK
<1>3. /\ Received(d) \in Records /\ Received(d).cmd = d
      /\ Acknowledged(d) \in Records /\ Acknowledged(d).cmd = d
      /\ \A r \in Results : Result(d, r) \in Records /\ Result(d, r).cmd = d
  BY DEF Received, Acknowledged, Result, Records
<1>4. ASSUME NEW x \in Records, x.cmd = d, NEW c \in Commands, c # d
      PROVE  LoadedEntry(snapshot, Append(log, x), c) = Load[c]
  BY <1>2, <1>4, LoadedOther DEF Load
<1>5. /\ LoadedEntry(snapshot, Append(log, Received(d)), d) = "received"
      /\ LoadedEntry(snapshot, Append(log, Acknowledged(d)), d) = "absent"
  BY <1>2, LoadedReset
<1>6. \A r \in Results : Load[d] # "absent" =>
         LoadedEntry(snapshot, Append(log, Result(d, r)), d) = r
  BY <1>2, LoadedResult DEF Load
<1>7. DOMAIN Load = Commands
  BY DEF Load
<1>8. QED
  BY <1>1, <1>3, <1>4, <1>5, <1>6, <1>7

\* An append or a compaction leaves a well-formed file behind.
LEMMA AppendedType ==
  ASSUME TypeOK, NEW r \in Records
  PROVE  Appended(r) \in Seq(Records)
<1>1. log \in Seq(Records) /\ tail \in {"newline", "unterminated", "partial"}
  BY DEF TypeOK
<1>2. CASE tail = "newline"
  BY <1>1, <1>2 DEF Appended
<1>3. CASE tail = "partial"
  BY <1>1, <1>3 DEF Appended
<1>4. CASE tail = "unterminated"
  <2>1. CASE log = <<>>
    BY <1>4, <2>1 DEF Appended
  <2>2. CASE log # <<>>
    BY <1>1, <1>4, <2>2 DEF Appended
  <2>3. QED
    BY <2>1, <2>2
<1>5. QED
  BY <1>1, <1>2, <1>3, <1>4

\* The line count recordCount is initialised and reset from is a natural number.
LEMMA LinesType ==
  ASSUME NEW e PROVE Lines(e) \in Nat
<1>1. \A T \in SUBSET Commands : Cardinality(T) \in Nat
  BY FS_Subset, FS_CardinalityType
<1>2. QED
  BY <1>1 DEF Lines

\* Journal (append() followed by compact() if due) keeps the types of file, entries and
\* counter, given a record and entries of the right type.
LEMMA JournalType ==
  ASSUME TypeOK, NEW r \in Records, NEW e \in [Commands -> Entries], NEW b \in BOOLEAN,
         Journal(r, e, b)
  PROVE  /\ snapshot' \in [Commands -> Entries]
         /\ log' \in Seq(Records)
         /\ tail' = "newline"
         /\ entries' = e
         /\ recordCount' \in Nat
<1>1. snapshot \in [Commands -> Entries] /\ recordCount \in Nat
  BY DEF TypeOK
<1>2. CASE b
  <2>1. <<>> \in Seq(Records)
    OBVIOUS
  <2>2. QED
    BY <1>2, <2>1, LinesType DEF Journal
<1>3. CASE ~b
  BY <1>1, <1>3, AppendedType DEF Journal
<1>4. QED
  BY <1>2, <1>3

-------------------------------------------------------------------------------
(* Type correctness *)

\* Type correctness holds initially.
LEMMA TypeInit == Init => TypeOK
<1> SUFFICES ASSUME Init PROVE TypeOK
  OBVIOUS
<1>1. <<>> \in Seq(Records)
  OBVIOUS
<1>2. QED
  BY <1>1 DEF Init, TypeOK, NoEntries, Entries, Connections, JournalAssumption

\* The client (requestWire, handleLine, timers, reconnect) keeps the types.
LEMMA ClientType ==
  ASSUME TypeOK, Client PROVE TypeOK'
<1> USE DEF TypeOK, Connections, Messages, Request, Ack, Transmit, Replies, Results, Excuses,
            fileVars, supervisorVars, socketVars, clientVars, historyVars
<1>1. CASE Disconnect
  BY <1>1 DEF Disconnect, Pending
<1>2. CASE Reconnect
  BY <1>2 DEF Reconnect, Parked
<1>3. CASE GiveUp
  BY <1>3 DEF GiveUp, Parked
<1>4. ASSUME NEW c \in Commands, Send(c) PROVE TypeOK'
  BY <1>4 DEF Send
<1>5. ASSUME NEW c \in Commands, Timeout(c) PROVE TypeOK'
  <2>1. request' \in [Commands -> {"idle", "sent", "parked", "settled"}]
    BY <1>5 DEF Timeout
  <2>2. outcome' \in [Commands -> {"none"} \cup Results \cup Excuses]
    BY <1>5 DEF Timeout
  <2>3. QED
    BY <1>5, <2>1, <2>2 DEF Timeout
<1>6. ASSUME NEW m \in toClient, ReceiveReply(m) PROVE TypeOK'
  <2>1. m \in Replies
    BY <1>6
  <2>2. request' \in [Commands -> {"idle", "sent", "parked", "settled"}]
    <3>1. CASE request[m.cmd] = "sent"
      BY <1>6, <2>1, <3>1 DEF ReceiveReply
    <3>2. CASE request[m.cmd] # "sent"
      BY <1>6, <3>2 DEF ReceiveReply
    <3>3. QED
      BY <3>1, <3>2
  <2>3. outcome' \in [Commands -> {"none"} \cup Results \cup Excuses]
    BY <1>6, <2>1 DEF ReceiveReply
  <2>4. toClient' \in SUBSET Replies
    BY <1>6 DEF ReceiveReply
  <2>6. toSupervisor' \in SUBSET Messages
    BY <1>6, <2>1 DEF ReceiveReply
  <2>7. QED
    BY <1>6, <2>2, <2>3, <2>4, <2>6 DEF ReceiveReply
<1>7. QED
  BY <1>1, <1>2, <1>3, <1>4, <1>5, <1>6 DEF Client

\* The supervisor's handling of a request or an acknowledgement keeps the types.
LEMMA HandleLineType ==
  ASSUME TypeOK, HandleLine PROVE TypeOK'
<1> USE DEF TypeOK, Replies, Results, Excuses, Consume, Reply,
            fileVars, supervisorVars, socketVars, clientVars, historyVars
<1>1. ASSUME NEW c \in Commands, NEW n \in Connections, AnswerFromJournal(c, n) PROVE TypeOK'
  BY <1>1 DEF AnswerFromJournal
<1>2. ASSUME NEW c \in Commands, NEW n \in Connections, AnswerUncertain(c, n) PROVE TypeOK'
  BY <1>2 DEF AnswerUncertain
<1>3. ASSUME NEW c \in Commands, NEW n \in Connections, Refuse(c, n) PROVE TypeOK'
  BY <1>3 DEF Refuse
<1>4. ASSUME NEW c \in Commands, NEW n \in Connections, Begin(c, n) PROVE TypeOK'
  <2>1. Received(c) \in Records
    BY DEF Received, Records
  <2>2. [entries EXCEPT ![c] = "received"] \in [Commands -> Entries]
    BY DEF Entries
  <2>3. handlers' \in SUBSET Handlers
    BY <1>4 DEF Begin, Handlers
  <2>4. QED
    BY <1>4, <2>1, <2>2, <2>3, JournalType DEF Begin
<1>5. ASSUME NEW c \in Commands, NEW n \in Connections, Acknowledge(c, n) PROVE TypeOK'
  <2>1. CASE entries[c] = "absent"
    BY <1>5, <2>1 DEF Acknowledge
  <2>2. CASE entries[c] # "absent"
    <3>1. Acknowledged(c) \in Records
      BY DEF Acknowledged, Records
    <3>2. [entries EXCEPT ![c] = "absent"] \in [Commands -> Entries]
      BY DEF Entries
    <3>3. QED
      BY <1>5, <2>2, <3>1, <3>2, JournalType DEF Acknowledge
  <2>3. QED
    BY <2>1, <2>2
<1>6. QED
  BY <1>1, <1>2, <1>3, <1>4, <1>5 DEF HandleLine, HandleRequest

\* recordResult() leaves a well-formed file.
LEMMA RecordType ==
  ASSUME TypeOK, NEW h \in handlers, Record(h)
  PROVE  /\ snapshot' \in [Commands -> Entries]
         /\ log' \in Seq(Records)
         /\ tail' = "newline"
         /\ entries' \in [Commands -> Entries]
         /\ recordCount' \in Nat
<1>1. h.cmd \in Commands /\ h.stage \in Results
  BY DEF TypeOK, Handlers, Record, CanRecord
<1>2. Result(h.cmd, h.stage) \in Records
  BY <1>1 DEF Result, Records
<1>3. [entries EXCEPT ![h.cmd] = h.stage] \in [Commands -> Entries]
  BY <1>1 DEF TypeOK, Entries
<1>4. PICK b \in BOOLEAN : Journal(Result(h.cmd, h.stage), [entries EXCEPT ![h.cmd] = h.stage], b)
  <2>1. CASE recordCount + 1 >= CompactAfter
    BY <2>1 DEF Record, Journal
  <2>2. CASE ~(recordCount + 1 >= CompactAfter)
    BY <2>2 DEF Record, Journal
  <2>3. QED
    BY <2>1, <2>2
<1>5. QED
  BY <1>2, <1>3, <1>4, JournalType

\* Running a command handler and recording its result keeps the types.
LEMMA HandlerType ==
  ASSUME TypeOK, Handler PROVE TypeOK'
<1> USE DEF TypeOK, Replies, Results, Excuses, Reply,
            fileVars, supervisorVars, socketVars, clientVars, historyVars
<1>1. ASSUME NEW h \in handlers, Execute(h) PROVE TypeOK'
  <2>1. h \in Handlers /\ h.cmd \in Commands
    BY DEF Handlers
  <2>2. \A r \in Results : [h EXCEPT !.stage = r] \in Handlers
    BY <2>1 DEF Handlers
  <2>3. handlers' \in SUBSET Handlers
    BY <1>1, <2>2 DEF Execute
  <2>4. dispatches' \in [Commands -> Nat] /\ result' \in [Commands -> {"none"} \cup Results]
    BY <1>1, <2>1 DEF Execute
  <2>5. QED
    BY <1>1, <2>3, <2>4 DEF Execute
<1>2. ASSUME NEW h \in handlers, Record(h) PROVE TypeOK'
  <2>1. h.cmd \in Commands /\ h.stage \in Results
    BY <1>2 DEF Handlers, Record, CanRecord
  <2>2. /\ snapshot' \in [Commands -> Entries]
        /\ log' \in Seq(Records)
        /\ tail' = "newline"
        /\ entries' \in [Commands -> Entries]
        /\ recordCount' \in Nat
    BY <1>2, RecordType
  <2>3. toClient' \in SUBSET Replies
    BY <1>2, <2>1 DEF Record
  <2>4. QED
    BY <1>2, <2>2, <2>3 DEF Record
<1>3. ASSUME NEW h \in handlers, FailRecord(h) PROVE TypeOK'
  <2>1. h.cmd \in Commands
    BY DEF Handlers
  <2>2. QED
    BY <1>3, <2>1 DEF FailRecord
<1>4. QED
  BY <1>1, <1>2, <1>3 DEF Handler

\* A record a process was appending when it died is a record.
LEMMA InFlightType ==
  ASSUME TypeOK PROVE InFlight \subseteq Records
  BY DEF TypeOK, InFlight, Received, Acknowledged, Result, Records, Handlers, CanRecord

\* Phase changes, crashes inside or outside an append, and restarts keep the types.
LEMMA LifecycleType ==
  ASSUME TypeOK, Lifecycle PROVE TypeOK'
<1> USE DEF TypeOK, fileVars, supervisorVars, socketVars, clientVars, historyVars
<1>1. CASE ChangePhase
  BY <1>1 DEF ChangePhase
<1>2. CASE Retire
  BY <1>2 DEF Retire
<1>3. ASSUME ProcessEnds, snapshot' = snapshot, log' \in Seq(Records),
             tail' \in {"newline", "unterminated", "partial"}, tornWrites' \in 0..MaxTornWrites
      PROVE  TypeOK'
  <2>1. NoEntries \in [Commands -> Entries]
    BY DEF NoEntries, Entries
  <2>2. crashes' \in 0..MaxCrashes
    BY <1>3 DEF ProcessEnds, JournalAssumption
  <2>3. QED
    BY <1>3, <2>1, <2>2 DEF ProcessEnds
<1>4. CASE Crash
  BY <1>3, <1>4 DEF Crash
<1>5. CASE CrashInAppend
  <2>1. PICK r \in InFlight : log' \in {Appended(r), Append(log, r), log}
    BY <1>5 DEF CrashInAppend
  <2>2. r \in Records
    BY <2>1, InFlightType
  <2>3. log' \in Seq(Records)
    <3>1. Append(log, r) \in Seq(Records)
      BY <2>2
    <3>2. QED
      BY <2>1, <2>2, <3>1, AppendedType
  <2>4. tornWrites' \in 0..MaxTornWrites
    BY <1>5 DEF CrashInAppend, JournalAssumption
  <2>5. QED
    BY <1>3, <1>5, <2>3, <2>4 DEF CrashInAppend
<1>6. CASE Restart
  BY <1>6, LoadType, LinesType DEF Restart
<1>7. QED
  BY <1>1, <1>2, <1>4, <1>5, <1>6 DEF Lifecycle

\* Losing a line of a closed socket keeps the types.
LEMMA LoseType ==
  ASSUME TypeOK, NEW m \in toSupervisor, Lose(m) PROVE TypeOK'
  BY DEF Lose, Consume, TypeOK, fileVars, supervisorVars, clientVars, historyVars

\* Type correctness is inductive.
LEMMA TypeStep == TypeOK /\ [Next]_vars => TypeOK'
<1>1. CASE UNCHANGED vars
  BY <1>1 DEF TypeOK, vars, fileVars, supervisorVars, socketVars, clientVars, historyVars
<1>2. QED
  BY <1>1, ClientType, HandleLineType, HandlerType, LifecycleType, LoseType DEF Next

\* Every variable keeps its type, torn appends included.
THEOREM TypeCorrect == Spec => []TypeOK
  BY TypeInit, TypeStep, PTL DEF Spec

-------------------------------------------------------------------------------
(* The sockets *)

\* SocketInv is inductive: a handler, a reply and an acknowledgement exist only where the
\* request they answer has left the wire.
LEMMA SocketStep ==
  ASSUME TypeOK, SocketInv, IdleInv, Next PROVE SocketInv'
<1> USE DEF SocketInv, RequestsFor, Request, Ack,
            fileVars, supervisorVars, socketVars, clientVars, historyVars
<1> toSupervisor \subseteq Messages /\ toClient \subseteq Replies /\ handlers \subseteq Handlers
      /\ connection \in Nat /\ Connections \subseteq Nat
  BY DEF TypeOK, Connections
<1>1. CASE Disconnect
  BY <1>1 DEF Disconnect, Pending, TypeOK, Messages
<1>2. CASE Reconnect
  <2>1. /\ supervisor # "down" /\ link' = "open" /\ toClient' = {}
        /\ connection' = connection + 1
        /\ handlers' = handlers /\ supervisor' = supervisor
    BY <1>2 DEF Reconnect
  <2>2. ASSUME NEW m \in toSupervisor'
        PROVE  \/ m \in toSupervisor
               \/ /\ m.kind = "request" /\ m.cmd \in Parked /\ m.conn = connection + 1
    BY <1>2 DEF Reconnect
  <2>0. \A m \in toSupervisor : m.conn \in Nat /\ m.conn <= connection
    BY DEF Messages
  <2>3. ASSUME NEW m \in toSupervisor' PROVE m.conn <= connection'
    <3>1. CASE m \in toSupervisor
      BY <2>0, <2>1, <3>1
    <3>2. CASE m.conn = connection + 1
      BY <2>1, <3>2
    <3>3. QED
      BY <2>2, <3>1, <3>2
  <2>4. \A h \in handlers' : h.conn <= connection' /\ Request(h.cmd, h.conn) \notin toSupervisor'
    <3> SUFFICES ASSUME NEW h \in handlers
                 PROVE  h.conn <= connection + 1 /\ Request(h.cmd, h.conn) \notin toSupervisor'
      BY <2>1
    <3>1. h.conn <= connection /\ h.conn \in Nat /\ Request(h.cmd, h.conn) \notin toSupervisor
      BY DEF Handlers
    <3>2. ASSUME Request(h.cmd, h.conn) \in toSupervisor' PROVE FALSE
      <4>1. Request(h.cmd, h.conn).conn = connection + 1
        BY <2>2, <3>1, <3>2
      <4>2. Request(h.cmd, h.conn).conn = h.conn
        OBVIOUS
      <4>3. QED
        BY <3>1, <4>1, <4>2
    <3>3. QED
      BY <3>1, <3>2
  <2>5. ASSUME NEW m \in toSupervisor', m.kind = "ack"
        PROVE  request'[m.cmd] = "settled" /\ \A q \in RequestsFor(m.cmd)' : q.conn < m.conn
    <3>1. m \in toSupervisor /\ request[m.cmd] = "settled" /\ m.cmd \in Commands
      BY <2>2, <2>5 DEF Messages
    <3>2. m.cmd \notin Parked
      BY <3>1 DEF Parked
    <3>3. request'[m.cmd] = "settled"
      BY <1>2, <3>1, <3>2 DEF Reconnect
    <3>4. RequestsFor(m.cmd)' \subseteq RequestsFor(m.cmd)
      BY <2>2, <3>2
    <3>5. QED
      BY <2>5, <3>1, <3>3, <3>4
  <2>6. QED
    BY <2>1, <2>3, <2>4, <2>5
<1>3. CASE GiveUp
  BY <1>3 DEF GiveUp, Parked, TypeOK, Messages
<1>4. ASSUME NEW c \in Commands, Send(c) PROVE SocketInv'
  BY <1>4 DEF Send, Transmit, IdleInv, TypeOK, Messages
<1>5. ASSUME NEW c \in Commands, Timeout(c) PROVE SocketInv'
  BY <1>5 DEF Timeout, TypeOK, Messages
<1>6. ASSUME NEW m \in toClient, ReceiveReply(m) PROVE SocketInv'
  <2>1. m \in Replies /\ m.cmd \in Commands /\ request \in [Commands -> {"idle", "sent", "parked", "settled"}]
    BY DEF Replies, TypeOK
  <2>2. /\ supervisor' = supervisor /\ handlers' = handlers /\ entries' = entries
        /\ link' = link /\ connection' = connection /\ toClient' \subseteq toClient
        /\ \A c \in Commands : request[c] = "settled" => request'[c] = "settled"
    BY <1>6, <2>1 DEF ReceiveReply
  <2>3. ASSUME NEW q \in toSupervisor'
        PROVE  \/ q \in toSupervisor
               \/ q = Ack(m.cmd, connection) /\ link = "open" /\ request'[m.cmd] = "settled"
    BY <1>6, <2>1 DEF ReceiveReply, Transmit
  <2>4. \A q \in toSupervisor' : q.kind = "request" => q \in toSupervisor
    BY <2>3
  <2>5. \A c : RequestsFor(c)' \subseteq RequestsFor(c)
    BY <2>4
  <2>6. ASSUME link = "open", NEW q \in RequestsFor(m.cmd) PROVE q.conn < connection
    <3>1. q \in Messages /\ q.conn <= connection /\ q.conn \in Nat
      BY DEF Messages
    <3>2. q = Request(m.cmd, q.conn)
      BY <3>1 DEF Messages
    <3>3. q.conn # connection
      BY <1>6, <2>6, <3>2
    <3>4. QED
      BY <3>1, <3>3
  <2>7. ASSUME NEW q \in toSupervisor', q.kind = "ack"
        PROVE  request'[q.cmd] = "settled" /\ \A r \in RequestsFor(q.cmd)' : r.conn < q.conn
    <3>1. CASE q \in toSupervisor
      BY <2>2, <2>5, <2>7, <3>1 DEF Messages
    <3>2. CASE q = Ack(m.cmd, connection) /\ link = "open" /\ request'[m.cmd] = "settled"
      BY <2>5, <2>6, <3>2
    <3>3. QED
      BY <2>3, <3>1, <3>2
  <2>8. \A q \in toSupervisor' : q.conn <= connection'
    BY <2>2, <2>3
  <2>9. /\ supervisor' = "down" => toSupervisor' = {} /\ handlers' = {} /\ entries' = NoEntries
        /\ link' = "down" => toClient' = {}
    BY <1>6, <2>1, <2>2, <2>3
  <2>10. /\ \A h \in handlers' : Request(h.cmd, h.conn) \notin toSupervisor'
         /\ \A r \in toClient' : link' = "open" => Request(r.cmd, connection') \notin toSupervisor'
    BY <2>2, <2>4
  <2>11. QED
    BY <2>2, <2>7, <2>8, <2>9, <2>10
<1>7. ASSUME NEW c \in Commands, NEW n \in Connections,
             AnswerFromJournal(c, n) \/ AnswerUncertain(c, n) \/ Refuse(c, n)
      PROVE  SocketInv'
  BY <1>7 DEF AnswerFromJournal, AnswerUncertain, Refuse, Consume, Reply, Working
<1>8. ASSUME NEW c \in Commands, NEW n \in Connections, Begin(c, n) PROVE SocketInv'
  BY <1>8 DEF Begin, CanBegin, Consume
<1>9. ASSUME NEW c \in Commands, NEW n \in Connections, Acknowledge(c, n) PROVE SocketInv'
  BY <1>9 DEF Acknowledge, CanAcknowledge, Consume, Working
<1>10. ASSUME NEW h \in handlers, Execute(h) PROVE SocketInv'
  BY <1>10 DEF Execute, Handlers
<1>11. ASSUME NEW h \in handlers, Record(h) \/ FailRecord(h) PROVE SocketInv'
  BY <1>11 DEF Record, FailRecord, CanRecord, Reply, Owning
<1>12. CASE ChangePhase \/ Retire
  BY <1>12 DEF ChangePhase, Retire, Working, Owning
<1>13. CASE Crash \/ CrashInAppend
  BY <1>13 DEF Crash, CrashInAppend, ProcessEnds
<1>14. CASE Restart
  BY <1>14 DEF Restart
<1>15. ASSUME NEW m \in toSupervisor, Lose(m) PROVE SocketInv'
  BY <1>15 DEF Lose, Consume
<1>16. QED
  BY <1>1, <1>2, <1>3, <1>4, <1>5, <1>6, <1>7, <1>8, <1>9, <1>10, <1>11, <1>12, <1>13, <1>14, <1>15
     DEF Next, Client, HandleLine, HandleRequest, Handler, Lifecycle

\* IdleInv is inductive: nothing exists for a request the client has not sent.
LEMMA IdleStep ==
  ASSUME TypeOK, IdleInv, Next PROVE IdleInv'
<1> USE DEF IdleInv, Request, Ack, fileVars, supervisorVars, socketVars, clientVars, historyVars
<1> toSupervisor \subseteq Messages /\ toClient \subseteq Replies /\ handlers \subseteq Handlers
      /\ request \in [Commands -> {"idle", "sent", "parked", "settled"}]
  BY DEF TypeOK
<1>1. CASE Disconnect
  BY <1>1 DEF Disconnect, Pending
<1>2. CASE Reconnect
  <2>1. ASSUME NEW c \in Commands, request'[c] = "idle"
        PROVE  request[c] = "idle" /\ c \notin Parked
    BY <1>2, <2>1 DEF Reconnect, Parked
  <2>2. \A m \in toSupervisor' : m \in toSupervisor \/ m.cmd \in Parked
    BY <1>2 DEF Reconnect
  <2>3. handlers' = handlers /\ toClient' = toClient
    BY <1>2 DEF Reconnect
  <2>4. QED
    BY <2>1, <2>2, <2>3
<1>3. CASE GiveUp
  BY <1>3 DEF GiveUp, Parked
<1>4. ASSUME NEW c \in Commands, Send(c) PROVE IdleInv'
  BY <1>4 DEF Send, Transmit
<1>5. ASSUME NEW c \in Commands, Timeout(c) PROVE IdleInv'
  BY <1>5 DEF Timeout
<1>6. ASSUME NEW m \in toClient, ReceiveReply(m) PROVE IdleInv'
  BY <1>6 DEF ReceiveReply, Transmit, Replies
<1>7. ASSUME NEW c \in Commands, NEW n \in Connections,
             AnswerFromJournal(c, n) \/ AnswerUncertain(c, n) \/ Refuse(c, n)
      PROVE  IdleInv'
  BY <1>7 DEF AnswerFromJournal, AnswerUncertain, Refuse, Consume, Reply
<1>8. ASSUME NEW c \in Commands, NEW n \in Connections, Begin(c, n) PROVE IdleInv'
  BY <1>8 DEF Begin, Consume
<1>9. ASSUME NEW c \in Commands, NEW n \in Connections, Acknowledge(c, n) PROVE IdleInv'
  BY <1>9 DEF Acknowledge, Consume
<1>10. ASSUME NEW h \in handlers, Execute(h) PROVE IdleInv'
  BY <1>10 DEF Execute, Handlers
<1>11. ASSUME NEW h \in handlers, Record(h) \/ FailRecord(h) PROVE IdleInv'
  BY <1>11 DEF Record, FailRecord, CanRecord, Reply
<1>12. CASE ChangePhase \/ Retire
  BY <1>12 DEF ChangePhase, Retire
<1>13. CASE Crash \/ CrashInAppend
  BY <1>13 DEF Crash, CrashInAppend, ProcessEnds
<1>14. CASE Restart
  BY <1>14 DEF Restart
<1>15. ASSUME NEW m \in toSupervisor, Lose(m) PROVE IdleInv'
  BY <1>15 DEF Lose, Consume
<1>16. QED
  BY <1>1, <1>2, <1>3, <1>4, <1>5, <1>6, <1>7, <1>8, <1>9, <1>10, <1>11, <1>12, <1>13, <1>14, <1>15
     DEF Next, Client, HandleLine, HandleRequest, Handler, Lifecycle

-------------------------------------------------------------------------------
(* What each step does to the file *)

\* What load() reads depends on the file alone.
LEMMA LoadUnchanged ==
  ASSUME UNCHANGED fileVars PROVE Load' = Load /\ tail' = tail
  BY DEF fileVars, Load

\* After an append, and after a compaction, the file reads back as the entries of before with
\* the one record applied.
LEMMA JournalLoad ==
  ASSUME TypeOK, NEW r \in Records, NEW e \in [Commands -> Entries], NEW b \in BOOLEAN,
         Journal(r, e, b),
         [c \in Commands |-> LoadedEntry(snapshot, Appended(r), c)] = e
  PROVE  Load' = e /\ entries' = e /\ tail' = "newline"
<1>1. CASE b
  <2>1. snapshot' = e /\ log' = <<>>
    BY <1>1 DEF Journal
  <2>2. Load' = [c \in Commands |-> LoadedEntry(e, <<>>, c)]
    BY <2>1 DEF Load
  <2>3. Load' = [c \in Commands |-> e[c]]
    BY <2>2, LoadedHead
  <2>4. QED
    BY <2>3 DEF Journal
<1>2. CASE ~b
  BY <1>2 DEF Journal, Load
<1>3. QED
  BY <1>1, <1>2

\* begin() makes the file read back as received for its command only.
LEMMA BeginLoad ==
  ASSUME TypeOK, KnowledgeInv, SocketInv, NEW c \in Commands, NEW n \in Connections, Begin(c, n)
  PROVE  Load' = [Load EXCEPT ![c] = "received"] /\ entries' = Load' /\ tail' = "newline"
<1>1. tail = "newline" /\ entries = Load
  BY DEF KnowledgeInv, FileMatchesMemory, Begin, CanBegin
<1>2. Received(c) \in Records /\ [entries EXCEPT ![c] = "received"] \in [Commands -> Entries]
  BY DEF Received, Records, TypeOK, Entries
<1>3. PICK b \in BOOLEAN : Journal(Received(c), [entries EXCEPT ![c] = "received"], b)
  BY DEF Begin, Journal
<1>4. [d \in Commands |-> LoadedEntry(snapshot, Appended(Received(c)), d)]
        = [entries EXCEPT ![c] = "received"]
  BY <1>1, LoadAppended
<1>5. Load' = [entries EXCEPT ![c] = "received"] /\ entries' = Load' /\ tail' = "newline"
  BY <1>2, <1>3, <1>4, JournalLoad
<1>6. QED
  BY <1>1, <1>5

\* recordResult() makes the file read back as the result for its command only.
LEMMA RecordLoad ==
  ASSUME TypeOK, KnowledgeInv, NEW h \in handlers, Record(h)
  PROVE  Load' = [Load EXCEPT ![h.cmd] = h.stage] /\ entries' = Load' /\ tail' = "newline"
<1>0. h.cmd \in Commands /\ h.stage \in Results
  BY DEF TypeOK, Handlers, Record, CanRecord
<1>1. tail = "newline" /\ entries = Load
  BY DEF KnowledgeInv, FileMatchesMemory, Record, CanRecord, Owning
<1>2. /\ Result(h.cmd, h.stage) \in Records
      /\ [entries EXCEPT ![h.cmd] = h.stage] \in [Commands -> Entries]
  BY <1>0 DEF Result, Records, TypeOK, Entries
<1>3. PICK b \in BOOLEAN : Journal(Result(h.cmd, h.stage), [entries EXCEPT ![h.cmd] = h.stage], b)
  <2>1. CASE recordCount + 1 >= CompactAfter
    BY <2>1 DEF Record, Journal
  <2>2. CASE ~(recordCount + 1 >= CompactAfter)
    BY <2>2 DEF Record, Journal
  <2>3. QED
    BY <2>1, <2>2
<1>4. Load[h.cmd] # "absent"
  BY <1>1 DEF Record, CanRecord
<1>5. [d \in Commands |-> LoadedEntry(snapshot, Appended(Result(h.cmd, h.stage)), d)]
        = [entries EXCEPT ![h.cmd] = h.stage]
  BY <1>0, <1>1, <1>4, LoadAppended
<1>6. /\ Load' = [entries EXCEPT ![h.cmd] = h.stage]
      /\ entries' = Load'
      /\ tail' = "newline"
  BY <1>2, <1>3, <1>5, JournalLoad
<1>7. QED
  BY <1>1, <1>6

\* acknowledge() makes the file forget its command only.
LEMMA AcknowledgeLoad ==
  ASSUME TypeOK, KnowledgeInv, NEW c \in Commands, NEW n \in Connections, Acknowledge(c, n)
  PROVE  Load' = [Load EXCEPT ![c] = "absent"] /\ entries' = Load' /\ tail' = "newline"
<1>1. tail = "newline" /\ entries = Load
  BY DEF KnowledgeInv, FileMatchesMemory, Acknowledge, CanAcknowledge, Working
<1>2. CASE entries[c] = "absent"
  <2>1. Load' = Load /\ tail' = tail /\ entries' = entries
    BY <1>2, LoadUnchanged DEF Acknowledge
  <2>2. [Load EXCEPT ![c] = "absent"] = Load
    BY <1>1, <1>2 DEF Load
  <2>3. QED
    BY <1>1, <2>1, <2>2
<1>3. CASE entries[c] # "absent"
  <2> DEFINE rest == [entries EXCEPT ![c] = "absent"]
  <2>1. Acknowledged(c) \in Records /\ rest \in [Commands -> Entries]
    BY DEF Acknowledged, Records, TypeOK, Entries
  <2>2. PICK b \in BOOLEAN : Journal(Acknowledged(c), rest, b)
    <3>1. CASE rest = NoEntries \/ recordCount + 1 >= CompactAfter
      BY <1>3, <3>1 DEF Acknowledge, Journal
    <3>2. CASE ~(rest = NoEntries \/ recordCount + 1 >= CompactAfter)
      BY <1>3, <3>2 DEF Acknowledge, Journal
    <3>3. QED
      BY <3>1, <3>2
  <2>3. [d \in Commands |-> LoadedEntry(snapshot, Appended(Acknowledged(c)), d)] = rest
    BY <1>1, LoadAppended
  <2> HIDE DEF rest
  <2>4. Load' = rest /\ entries' = Load' /\ tail' = "newline"
    BY <2>1, <2>2, <2>3, JournalLoad
  <2>5. QED
    BY <1>1, <2>4 DEF rest
<1>4. QED
  BY <1>2, <1>3

\* Without torn writes the append a crash interrupts is complete or missing.
LEMMA CrashInAppendLoad ==
  ASSUME TypeOK, KnowledgeInv, NoTornWrites, CrashInAppend
  PROVE  /\ tail' = "newline"
         /\ \/ \E c \in Commands, n \in Connections :
                  CanBegin(c, n) /\ Load' = [Load EXCEPT ![c] = "received"]
            \/ \E h \in handlers : CanRecord(h) /\ Load' = [Load EXCEPT ![h.cmd] = h.stage]
            \/ \E c \in Commands, n \in Connections :
                  CanAcknowledge(c, n) /\ Load' = [Load EXCEPT ![c] = "absent"]
<1>1. ~(tornWrites < MaxTornWrites)
  BY DEF TypeOK, NoTornWrites
<1>2. PICK r \in InFlight : log' = Appended(r) /\ tail' = "newline" /\ snapshot' = snapshot
  BY <1>1 DEF CrashInAppend
<1>3. tail = "newline" /\ entries = Load
  BY DEF KnowledgeInv, FileMatchesMemory, CrashInAppend, ProcessEnds
<1>4. Load' = [c \in Commands |-> LoadedEntry(snapshot, Appended(r), c)]
  BY <1>2 DEF Load
<1>5. ASSUME NEW c \in Commands, NEW n \in Connections, CanBegin(c, n), r = Received(c)
      PROVE  Load' = [Load EXCEPT ![c] = "received"]
  BY <1>3, <1>4, <1>5, LoadAppended
<1>6. ASSUME NEW h \in handlers, CanRecord(h), r = Result(h.cmd, h.stage)
      PROVE  Load' = [Load EXCEPT ![h.cmd] = h.stage]
  <2>1. h.cmd \in Commands /\ h.stage \in Results /\ Load[h.cmd] # "absent"
    BY <1>3, <1>6 DEF TypeOK, Handlers, CanRecord
  <2>2. [d \in Commands |-> LoadedEntry(snapshot, Appended(Result(h.cmd, h.stage)), d)]
          = [Load EXCEPT ![h.cmd] = h.stage]
    BY <1>3, <2>1, LoadAppended
  <2>3. QED
    BY <1>4, <1>6, <2>2
<1>7. ASSUME NEW c \in Commands, NEW n \in Connections, CanAcknowledge(c, n), r = Acknowledged(c)
      PROVE  Load' = [Load EXCEPT ![c] = "absent"]
  BY <1>3, <1>4, <1>7, LoadAppended
<1>8. \/ \E c \in Commands, n \in Connections : CanBegin(c, n) /\ r = Received(c)
      \/ \E h \in handlers : CanRecord(h) /\ r = Result(h.cmd, h.stage)
      \/ \E c \in Commands, n \in Connections : CanAcknowledge(c, n) /\ r = Acknowledged(c)
  BY DEF InFlight
<1>9. QED
  BY <1>2, <1>5, <1>6, <1>7, <1>8

-------------------------------------------------------------------------------
(* What the file knows *)

\* Nothing makes a request arrive again once it no longer can.
LEMMA Arrivals ==
  ASSUME TypeOK, Next, NEW c \in Commands, MayArrive(c)' PROVE MayArrive(c)
<1> USE DEF MayArrive, RequestsFor, Request, Ack, Consume, Transmit,
            fileVars, supervisorVars, socketVars, clientVars, historyVars
<1> request \in [Commands -> {"idle", "sent", "parked", "settled"}] /\ toClient \subseteq Replies
  BY DEF TypeOK
<1>1. CASE Client
  <2>1. CASE Disconnect
    BY <2>1 DEF Disconnect, Pending
  <2>2. CASE Reconnect
    BY <2>2 DEF Reconnect, Parked
  <2>3. CASE GiveUp
    BY <2>3 DEF GiveUp, Parked
  <2>4. ASSUME NEW d \in Commands, Send(d) \/ Timeout(d) PROVE MayArrive(c)
    BY <2>4 DEF Send, Timeout
  <2>5. ASSUME NEW m \in toClient, ReceiveReply(m) PROVE MayArrive(c)
    BY <2>5 DEF ReceiveReply, Replies
  <2>6. QED
    BY <1>1, <2>1, <2>2, <2>3, <2>4, <2>5 DEF Client
<1>2. ASSUME request' = request, toSupervisor' \subseteq toSupervisor PROVE MayArrive(c)
  BY <1>2
<1>3. CASE HandleLine
  BY <1>2, <1>3 DEF HandleLine, HandleRequest, AnswerFromJournal, AnswerUncertain, Refuse,
                    Begin, Acknowledge
<1>4. CASE Handler
  BY <1>2, <1>4 DEF Handler, Execute, Record, FailRecord
<1>5. CASE Lifecycle
  BY <1>2, <1>5 DEF Lifecycle, ChangePhase, Retire, Crash, CrashInAppend, ProcessEnds, Restart
<1>6. CASE \E m \in toSupervisor : Lose(m)
  BY <1>2, <1>6 DEF Lose
<1>7. QED
  BY <1>1, <1>3, <1>4, <1>5, <1>6 DEF Next

\* An acknowledged command cannot arrive: the client is done with it and older
\* copies have been read.
LEMMA AcknowledgedIsDone ==
  ASSUME TypeOK, SocketInv, NEW c \in Commands, NEW n \in Connections, CanAcknowledge(c, n)
  PROVE  ~MayArrive(c)
<1>1. Ack(c, n) \in toSupervisor /\ Ack(c, n).kind = "ack" /\ Ack(c, n).cmd = c /\ Ack(c, n).conn = n
  BY DEF CanAcknowledge, Ack
<1>2. request[c] = "settled" /\ \A q \in RequestsFor(c) : q.conn < n
  BY <1>1 DEF SocketInv
<1>3. \A q \in RequestsFor(c) : q.conn >= n /\ q.conn \in Nat /\ n \in Nat
  BY DEF RequestsFor, CanAcknowledge, TypeOK, Messages, Connections
<1>4. QED
  BY <1>2, <1>3 DEF MayArrive

\* Steps that leave the file, the memory and the handlers alone, or lose handlers.
LEMMA KnowledgeKept ==
  ASSUME TypeOK, KnowledgeInv, Next, UNCHANGED fileVars,
         supervisor' # "down" => supervisor # "down" /\ entries' = entries,
         handlers' \subseteq handlers, UNCHANGED dispatches
  PROVE  KnowledgeInv'
<1>1. Load' = Load /\ tail' = tail
  BY LoadUnchanged
<1>2. \A h \in handlers' : h.cmd \in Commands
  BY DEF TypeOK, Handlers
<1>3. QED
  BY <1>1, <1>2, Arrivals DEF KnowledgeInv, FileMatchesMemory, AtMostOnce

\* KnowledgeInv is inductive: a dispatched command stays in the file while a copy of its
\* request may still arrive.
LEMMA KnowledgeStep ==
  ASSUME TypeOK, SocketInv, KnowledgeInv, NoTornWrites, Next PROVE KnowledgeInv'
<1> USE DEF FileMatchesMemory, AtMostOnce
<1>0. /\ handlers \subseteq Handlers /\ dispatches \in [Commands -> Nat]
      /\ \A h \in handlers : h.cmd \in Commands /\ h.stage \in {"admitted"} \cup Results
      /\ Load \in [Commands -> Entries]
  BY LoadType DEF TypeOK, Handlers
<1>1. CASE Client
  <2>1. UNCHANGED <<fileVars, supervisorVars, historyVars>>
    BY <1>1 DEF Client, Disconnect, Reconnect, GiveUp, Send, Timeout, ReceiveReply
  <2>2. QED
    BY <2>1, KnowledgeKept DEF supervisorVars, historyVars
<1>2. ASSUME NEW c \in Commands, NEW n \in Connections,
             AnswerFromJournal(c, n) \/ AnswerUncertain(c, n) \/ Refuse(c, n)
      PROVE  KnowledgeInv'
  <2>1. UNCHANGED <<fileVars, supervisorVars, historyVars>>
    BY <1>2 DEF AnswerFromJournal, AnswerUncertain, Refuse
  <2>2. QED
    BY <2>1, KnowledgeKept DEF supervisorVars, historyVars
<1>3. ASSUME NEW c \in Commands, NEW n \in Connections, Begin(c, n) PROVE KnowledgeInv'
  <2> DEFINE new == [cmd |-> c, conn |-> n, stage |-> "admitted"]
  <2>1. Load' = [Load EXCEPT ![c] = "received"] /\ entries' = Load' /\ tail' = "newline"
    BY <1>3, BeginLoad
  <2>2. MayArrive(c) /\ Load[c] = "absent"
    BY <1>3 DEF Begin, CanBegin, MayArrive, RequestsFor, Request, KnowledgeInv
  <2>3. dispatches[c] = 0 /\ \A h \in handlers : h.cmd # c
    BY <1>0, <2>2 DEF KnowledgeInv
  <2>4. handlers' = handlers \cup {new} /\ new.cmd = c /\ dispatches' = dispatches
    BY <1>3 DEF Begin, historyVars
  <2>5. \A d \in Commands : Load[d] # "absent" => Load'[d] # "absent"
    BY <1>0, <2>1
  <2>6. Load'[c] # "absent"
    BY <1>0, <2>1
  <2> HIDE DEF new
  <2>7. QED
    BY <1>0, <2>1, <2>3, <2>4, <2>5, <2>6, Arrivals DEF KnowledgeInv
<1>4. ASSUME NEW c \in Commands, NEW n \in Connections, Acknowledge(c, n) PROVE KnowledgeInv'
  <2>1. Load' = [Load EXCEPT ![c] = "absent"] /\ entries' = Load' /\ tail' = "newline"
    BY <1>4, AcknowledgeLoad
  <2>2. ~MayArrive(c)
    BY <1>4, AcknowledgedIsDone DEF Acknowledge
  <2>3. handlers' = handlers /\ dispatches' = dispatches
    BY <1>4 DEF Acknowledge, historyVars
  <2>4. \A d \in Commands : d # c => Load'[d] = Load[d]
    BY <1>0, <2>1
  <2>5. QED
    BY <1>0, <2>1, <2>2, <2>3, <2>4, Arrivals DEF KnowledgeInv
<1>5. ASSUME NEW h \in handlers, Execute(h) PROVE KnowledgeInv'
  <2>1. PICK r \in Results : handlers' = (handlers \ {h}) \cup {[h EXCEPT !.stage = r]}
    BY <1>5 DEF Execute
  <2> DEFINE g == [h EXCEPT !.stage = r]
  <2>2. g.cmd = h.cmd /\ g.stage # "admitted"
    BY <1>0, <2>1 DEF Handlers, Results
  <2>3. Load' = Load /\ tail' = tail /\ supervisor' = supervisor /\ entries' = entries
    BY <1>5, LoadUnchanged DEF Execute
  <2>4. dispatches' = [dispatches EXCEPT ![h.cmd] = @ + 1] /\ dispatches[h.cmd] = 0
    BY <1>5 DEF Execute, KnowledgeInv
  <2>5. \A d \in Commands : dispatches'[d] = IF d = h.cmd THEN 1 ELSE dispatches[d]
    BY <1>0, <2>4
  <2>6. \A f \in handlers' : f = g \/ (f \in handlers /\ f.cmd # h.cmd)
    BY <2>1 DEF KnowledgeInv
  <2> HIDE DEF g
  <2>7. QED
    BY <1>0, <2>2, <2>3, <2>5, <2>6, Arrivals DEF KnowledgeInv
<1>6. ASSUME NEW h \in handlers, Record(h) PROVE KnowledgeInv'
  <2>1. Load' = [Load EXCEPT ![h.cmd] = h.stage] /\ entries' = Load' /\ tail' = "newline"
    BY <1>6, RecordLoad
  <2>2. handlers' \subseteq handlers /\ dispatches' = dispatches /\ h.stage \in Results
    BY <1>6 DEF Record, CanRecord, historyVars
  <2>3. \A d \in Commands : Load[d] # "absent" => Load'[d] # "absent"
    BY <1>0, <2>1, <2>2 DEF Results
  <2>4. QED
    BY <1>0, <2>1, <2>2, <2>3, Arrivals DEF KnowledgeInv
<1>7. ASSUME NEW h \in handlers, FailRecord(h) PROVE KnowledgeInv'
  BY <1>7, KnowledgeKept DEF FailRecord, historyVars
<1>8. CASE ChangePhase \/ Retire
  BY <1>8, KnowledgeKept DEF ChangePhase, Retire, Working, Owning, historyVars
<1>9. CASE Crash
  BY <1>9, KnowledgeKept DEF Crash, ProcessEnds
<1>10. CASE CrashInAppend
  <2>1. supervisor' = "down" /\ handlers' = {} /\ dispatches' = dispatches
    BY <1>10 DEF CrashInAppend, ProcessEnds
  <2>2. tail' = "newline"
    BY <1>10, CrashInAppendLoad
  <2>3. ASSUME NEW c \in Commands, MayArrive(c)', Load[c] # "absent" PROVE Load'[c] # "absent"
    <3>1. MayArrive(c)
      BY <2>3, Arrivals
    <3>2. CASE \E d \in Commands, n \in Connections :
                  CanBegin(d, n) /\ Load' = [Load EXCEPT ![d] = "received"]
      BY <1>0, <2>3, <3>2
    <3>3. CASE \E h \in handlers : CanRecord(h) /\ Load' = [Load EXCEPT ![h.cmd] = h.stage]
      BY <1>0, <2>3, <3>3 DEF CanRecord, Results
    <3>4. CASE \E d \in Commands, n \in Connections :
                  CanAcknowledge(d, n) /\ Load' = [Load EXCEPT ![d] = "absent"]
      BY <1>0, <2>3, <3>1, <3>4, AcknowledgedIsDone
    <3>5. QED
      BY <1>10, <3>2, <3>3, <3>4, CrashInAppendLoad
  <2>4. QED
    BY <2>1, <2>2, <2>3, Arrivals DEF KnowledgeInv
<1>11. CASE Restart
  <2>1. UNCHANGED fileVars /\ entries' = Load /\ handlers' = handlers /\ dispatches' = dispatches
    BY <1>11 DEF Restart, historyVars
  <2>2. Load' = Load /\ tail' = tail
    BY <2>1, LoadUnchanged
  <2>3. QED
    BY <1>0, <2>1, <2>2, Arrivals DEF KnowledgeInv
<1>12. ASSUME NEW m \in toSupervisor, Lose(m) PROVE KnowledgeInv'
  BY <1>12, KnowledgeKept DEF Lose, supervisorVars, historyVars
<1>13. QED
  BY <1>1, <1>2, <1>3, <1>4, <1>5, <1>6, <1>7, <1>8, <1>9, <1>10, <1>11, <1>12
     DEF Next, HandleLine, HandleRequest, Handler, Lifecycle

-------------------------------------------------------------------------------
(* What the client is told *)

\* A step that reports nothing new and runs no handler.
LEMMA TruthKept ==
  ASSUME TypeOK, TruthInv, Load' = Load,
         handlers' \subseteq handlers, toClient' \subseteq toClient,
         UNCHANGED <<request, outcome, dispatches, result>>
  PROVE  TruthInv'
  BY DEF TruthInv

\* TruthInv is inductive: every stored, travelling or reported result is the handler's.
LEMMA TruthStep ==
  ASSUME TypeOK, SocketInv, KnowledgeInv, TruthInv, NoTornWrites, Next PROVE TruthInv'
<1>0. /\ handlers \subseteq Handlers /\ toClient \subseteq Replies
      /\ \A h \in handlers : h.cmd \in Commands /\ h.stage \in {"admitted"} \cup Results
      /\ \A r \in toClient : r.cmd \in Commands /\ r.reply \in Results \cup (Excuses \ {"failed"})
      /\ Load \in [Commands -> Entries] /\ dispatches \in [Commands -> Nat]
      /\ result \in [Commands -> {"none"} \cup Results]
      /\ request \in [Commands -> {"idle", "sent", "parked", "settled"}]
      /\ outcome \in [Commands -> {"none"} \cup Results \cup Excuses]
  BY LoadType DEF TypeOK, Handlers, Replies
<1> USE DEF fileVars, supervisorVars, clientVars, socketVars, historyVars
<1>1. CASE Client
  <2>1. Load' = Load /\ UNCHANGED <<handlers, dispatches, result>>
    <3>1. UNCHANGED <<fileVars, supervisorVars, historyVars>>
      BY <1>1 DEF Client, Disconnect, Reconnect, GiveUp, Send, Timeout, ReceiveReply
    <3>2. QED
      BY <3>1, LoadUnchanged
  <2>2. ASSUME toClient' \subseteq toClient,
               \A c \in Commands :
                 \/ outcome'[c] = outcome[c] /\ (request'[c] = "settled" <=> request[c] = "settled")
                 \/ outcome'[c] \in Excuses /\ request'[c] = "settled"
                 \/ /\ request'[c] = "settled"
                    /\ \E m \in toClient : m.cmd = c /\ outcome'[c] = m.reply
        PROVE  TruthInv'
    BY <1>0, <2>1, <2>2 DEF TruthInv, Results, Excuses
  <2>3. CASE Disconnect
    BY <1>0, <2>2, <2>3 DEF Disconnect, Pending
  <2>4. CASE Reconnect
    BY <1>0, <2>2, <2>4 DEF Reconnect, Parked
  <2>5. CASE GiveUp
    BY <1>0, <2>2, <2>5 DEF GiveUp, Parked, Excuses
  <2>6. ASSUME NEW c \in Commands, Send(c) \/ Timeout(c) PROVE TruthInv'
    BY <1>0, <2>2, <2>6 DEF Send, Timeout, Excuses
  <2>7. ASSUME NEW m \in toClient, ReceiveReply(m) PROVE TruthInv'
    BY <1>0, <2>2, <2>7 DEF ReceiveReply
  <2>8. QED
    BY <1>1, <2>3, <2>4, <2>5, <2>6, <2>7 DEF Client
<1>2. ASSUME NEW c \in Commands, NEW n \in Connections, NEW r,
             r \in Results => result[c] = r /\ dispatches[c] > 0, Reply(c, n, r),
             Load' = Load, handlers' \subseteq handlers,
             UNCHANGED <<clientVars, historyVars>>
      PROVE  TruthInv'
  <2>1. \A m \in toClient' : m \in toClient \/ (m.cmd = c /\ m.reply = r)
    BY <1>2 DEF Reply
  <2>2. QED
    BY <1>0, <1>2, <2>1 DEF TruthInv
<1>3. ASSUME NEW c \in Commands, NEW n \in Connections, AnswerFromJournal(c, n) PROVE TruthInv'
  <2>1. entries[c] \in Results => result[c] = entries[c] /\ dispatches[c] > 0
    BY <1>3 DEF AnswerFromJournal, Working, TruthInv, KnowledgeInv, FileMatchesMemory
  <2>2. Reply(c, n, entries[c]) /\ UNCHANGED <<fileVars, handlers, clientVars, historyVars>>
    BY <1>3 DEF AnswerFromJournal
  <2>3. QED
    BY <1>2, <2>1, <2>2, LoadUnchanged
<1>4. ASSUME NEW c \in Commands, NEW n \in Connections, AnswerUncertain(c, n) PROVE TruthInv'
  <2>1. Reply(c, n, "uncertain") /\ UNCHANGED <<fileVars, handlers, clientVars, historyVars>>
    BY <1>4 DEF AnswerUncertain
  <2>2. QED
    BY <1>2, <2>1, LoadUnchanged DEF Results
<1>5. ASSUME NEW c \in Commands, NEW n \in Connections, Refuse(c, n) PROVE TruthInv'
  <2>1. Reply(c, n, "refused") /\ UNCHANGED <<fileVars, handlers, clientVars, historyVars>>
    BY <1>5 DEF Refuse
  <2>2. QED
    BY <1>2, <2>1, LoadUnchanged DEF Results
<1>6. ASSUME NEW c \in Commands, NEW n \in Connections, Begin(c, n) PROVE TruthInv'
  <2>1. Load' = [Load EXCEPT ![c] = "received"]
    BY <1>6, BeginLoad
  <2>2. \A d \in Commands : Load'[d] \in Results => Load'[d] = Load[d]
    BY <1>0, <2>1 DEF Results
  <2>3. \A h \in handlers' : h.stage \in Results => h \in handlers
    BY <1>6 DEF Begin, Results
  <2>4. UNCHANGED <<toClient, request, outcome, dispatches, result>>
    BY <1>6 DEF Begin
  <2>5. QED
    BY <2>2, <2>3, <2>4 DEF TruthInv
<1>7. ASSUME NEW c \in Commands, NEW n \in Connections, Acknowledge(c, n) PROVE TruthInv'
  <2>1. Load' = [Load EXCEPT ![c] = "absent"]
    BY <1>7, AcknowledgeLoad
  <2>2. \A d \in Commands : Load'[d] \in Results => Load'[d] = Load[d]
    BY <1>0, <2>1 DEF Results
  <2>3. UNCHANGED <<handlers, toClient, request, outcome, dispatches, result>>
    BY <1>7 DEF Acknowledge
  <2>4. QED
    BY <2>2, <2>3 DEF TruthInv
<1>8. ASSUME NEW h \in handlers, Execute(h) PROVE TruthInv'
  <2>1. PICK r \in Results : /\ handlers' = (handlers \ {h}) \cup {[h EXCEPT !.stage = r]}
                             /\ result' = [result EXCEPT ![h.cmd] = r]
    BY <1>8 DEF Execute
  <2> DEFINE g == [h EXCEPT !.stage = r]
  <2>2. g.cmd = h.cmd /\ g.stage = r
    BY <1>0 DEF Handlers
  <2>3. dispatches[h.cmd] = 0 /\ dispatches' = [dispatches EXCEPT ![h.cmd] = @ + 1]
    BY <1>8 DEF Execute, KnowledgeInv
  <2>4. \A f \in handlers' : f = g \/ (f \in handlers /\ f.cmd # h.cmd)
    BY <2>1 DEF KnowledgeInv
  <2>5. Load' = Load /\ UNCHANGED <<toClient, request, outcome>>
    BY <1>8, LoadUnchanged DEF Execute
  <2>6. /\ \A d \in Commands : d # h.cmd => dispatches'[d] = dispatches[d] /\ result'[d] = result[d]
        /\ dispatches'[h.cmd] = 1 /\ result'[h.cmd] = r
    BY <1>0, <2>1, <2>3
  <2> HIDE DEF g
  <2>7. QED
    BY <1>0, <2>2, <2>3, <2>4, <2>5, <2>6 DEF TruthInv
<1>9. ASSUME NEW h \in handlers, Record(h) PROVE TruthInv'
  <2>1. h.stage \in Results /\ result[h.cmd] = h.stage /\ dispatches[h.cmd] > 0
    BY <1>9 DEF Record, CanRecord, TruthInv
  <2>2. Load' = [Load EXCEPT ![h.cmd] = h.stage]
    BY <1>9, RecordLoad
  <2>3. \A d \in Commands : Load'[d] = IF d = h.cmd THEN h.stage ELSE Load[d]
    BY <1>0, <2>2
  <2>4. \A m \in toClient' : m \in toClient \/ (m.cmd = h.cmd /\ m.reply = h.stage)
    BY <1>9 DEF Record, Reply
  <2>5. handlers' \subseteq handlers /\ UNCHANGED <<request, outcome, dispatches, result>>
    BY <1>9 DEF Record
  <2>6. QED
    BY <1>0, <2>1, <2>3, <2>4, <2>5 DEF TruthInv
<1>10. ASSUME NEW h \in handlers, FailRecord(h) PROVE TruthInv'
  <2>1. /\ Reply(h.cmd, h.conn, "stale") /\ handlers' \subseteq handlers
        /\ UNCHANGED <<fileVars, clientVars, historyVars>>
    BY <1>10 DEF FailRecord
  <2>2. h.cmd \in Commands /\ h.conn \in Connections
    BY <1>0 DEF Handlers
  <2>3. QED
    BY <1>2, <2>1, <2>2, LoadUnchanged DEF Results
<1>11. CASE ChangePhase \/ Retire
  BY <1>11, TruthKept, LoadUnchanged DEF ChangePhase, Retire
<1>12. CASE Crash
  BY <1>12, TruthKept, LoadUnchanged DEF Crash, ProcessEnds
<1>13. CASE CrashInAppend
  <2>1. UNCHANGED <<toClient, request, outcome, dispatches, result>> /\ handlers' = {}
    BY <1>13 DEF CrashInAppend, ProcessEnds
  <2>2. ASSUME NEW c \in Commands, Load'[c] \in Results
        PROVE  result[c] = Load'[c] /\ dispatches[c] > 0
    <3>1. CASE \E d \in Commands, n \in Connections :
                  CanBegin(d, n) /\ Load' = [Load EXCEPT ![d] = "received"]
      BY <1>0, <2>2, <3>1 DEF TruthInv, Results
    <3>2. CASE \E h \in handlers : CanRecord(h) /\ Load' = [Load EXCEPT ![h.cmd] = h.stage]
      BY <1>0, <2>2, <3>2 DEF TruthInv, CanRecord
    <3>3. CASE \E d \in Commands, n \in Connections :
                  CanAcknowledge(d, n) /\ Load' = [Load EXCEPT ![d] = "absent"]
      BY <1>0, <2>2, <3>3 DEF TruthInv, Results
    <3>4. QED
      BY <1>13, <3>1, <3>2, <3>3, CrashInAppendLoad
  <2>3. QED
    BY <2>1, <2>2 DEF TruthInv
<1>14. CASE Restart
  BY <1>14, TruthKept, LoadUnchanged DEF Restart
<1>15. ASSUME NEW m \in toSupervisor, Lose(m) PROVE TruthInv'
  BY <1>15, TruthKept, LoadUnchanged DEF Lose
<1>16. QED
  BY <1>1, <1>3, <1>4, <1>5, <1>6, <1>7, <1>8, <1>9, <1>10, <1>11, <1>12, <1>13, <1>14, <1>15
     DEF Next, HandleLine, HandleRequest, Handler, Lifecycle

-------------------------------------------------------------------------------
(* The theorems *)

\* The inductive invariant holds initially.
LEMMA InvInit == Init => JournalInv
<1> SUFFICES ASSUME Init PROVE JournalInv
  OBVIOUS
<1>1. TypeOK
  BY TypeInit
<1>2. Load = NoEntries
  BY LoadedHead DEF Init, Load, NoEntries, Entries
<1>3. \A c \in Commands : NoEntries[c] \notin Results
  BY DEF NoEntries, Results
<1>4. TruthInv
  BY <1>2, <1>3 DEF Init, TruthInv, Results
<1>5. KnowledgeInv
  BY <1>2 DEF Init, KnowledgeInv, FileMatchesMemory, AtMostOnce
<1>6. SocketInv /\ IdleInv
  BY DEF Init, SocketInv, IdleInv
<1>7. QED
  BY <1>1, <1>4, <1>5, <1>6 DEF JournalInv

\* The inductive invariant survives stuttering.
LEMMA InvStutter ==
  ASSUME JournalInv, UNCHANGED vars PROVE JournalInv'
<1>1. Load' = Load
  BY LoadUnchanged DEF vars
<1>2. UNCHANGED <<tail, supervisor, entries, handlers, connection, link, toSupervisor, toClient,
                  request, outcome, dispatches, result>>
  BY DEF vars, fileVars, supervisorVars, socketVars, clientVars, historyVars
<1>3. TypeOK'
  BY TypeStep DEF JournalInv
<1>4. SocketInv' /\ IdleInv'
  BY <1>2 DEF JournalInv, SocketInv, IdleInv, RequestsFor
<1>5. \A c : MayArrive(c)' <=> MayArrive(c)
  BY <1>2 DEF MayArrive, RequestsFor
<1>6. KnowledgeInv'
  BY <1>1, <1>2, <1>5 DEF JournalInv, KnowledgeInv, FileMatchesMemory, AtMostOnce
<1>7. TruthInv'
  BY <1>1, <1>2 DEF JournalInv, TruthInv
<1>8. QED
  BY <1>3, <1>4, <1>6, <1>7 DEF JournalInv

\* The inductive invariant is preserved by every step when no append is torn.
LEMMA InvStep == NoTornWrites /\ JournalInv /\ [Next]_vars => JournalInv'
  BY InvStutter, TypeStep, SocketStep, IdleStep, KnowledgeStep, TruthStep DEF JournalInv

\* The inductive invariant of the command journal, its sockets and its client.
THEOREM JournalInvariant ==
  ASSUME NoTornWrites PROVE Spec => []JournalInv
<1>1. Init => JournalInv
  BY InvInit
<1>2. JournalInv /\ [Next]_vars => JournalInv'
  BY InvStep
<1>3. QED
  BY <1>1, <1>2, PTL DEF Spec

\* No command is handed to its handler twice, whatever crashes, reconnects,
\* late copies and acknowledgements do (docs/daemon.md: "is not replayed").
THEOREM NeverDispatchedTwice ==
  ASSUME NoTornWrites PROVE Spec => []AtMostOnce
<1>1. JournalInv => AtMostOnce
  BY DEF JournalInv, KnowledgeInv
<1>2. QED
  BY <1>1, JournalInvariant, PTL

\* The journal file always reads back as the memory of the running journal.
THEOREM FileIsFaithful ==
  ASSUME NoTornWrites PROVE Spec => []FileMatchesMemory
<1>1. JournalInv => FileMatchesMemory
  BY DEF JournalInv, KnowledgeInv
<1>2. QED
  BY <1>1, JournalInvariant, PTL

\* What was dispatched is known to every later supervisor for as long as the
\* client may send it again.
THEOREM DispatchIsRemembered ==
  ASSUME NoTornWrites PROVE Spec => []DispatchedIsRemembered
<1>1. JournalInv => DispatchedIsRemembered
  BY DEF JournalInv, KnowledgeInv, DispatchedIsRemembered, MayArrive
<1>2. QED
  BY <1>1, JournalInvariant, PTL

-------------------------------------------------------------------------------
(* The journal implements the documented contract *)

\* A step that leaves dispatches, result and outcome alone is a stutter of the contract.
LEMMA ContractVarsKept ==
  ASSUME UNCHANGED <<dispatches, result, outcome>>
  PROVE  UNCHANGED Contract!contractVars
  BY DEF Contract!contractVars

\* Every step of the journal protocol is a step or a stutter of the contract.
LEMMA ContractStep ==
  ASSUME JournalInv, Next PROVE [Contract!ContractNext]_(Contract!contractVars)
<1> USE DEF fileVars, supervisorVars, clientVars, socketVars, historyVars
<1>0. /\ \A h \in handlers : h.cmd \in Commands
      /\ \A m \in toClient : m.cmd \in Commands /\ m.reply \in Results \cup Excuses
      /\ dispatches \in [Commands -> Nat]
      /\ outcome \in [Commands -> {"none"} \cup Results \cup Excuses]
      /\ request \in [Commands -> {"idle", "sent", "parked", "settled"}]
      /\ TruthInv /\ KnowledgeInv
  BY DEF JournalInv, TypeOK, Handlers, Replies
<1>1. Contract!Results = Results /\ Contract!Outcomes = Results \cup Excuses
  BY DEF Contract!Results, Contract!Outcomes, Contract!Excuses, Results, Excuses
<1>2. CASE Client
  <2>1. UNCHANGED <<dispatches, result>>
    BY <1>2 DEF Client, Disconnect, Reconnect, GiveUp, Send, Timeout, ReceiveReply
  <2>2. ASSUME NEW c \in Commands, NEW o \in Results \cup Excuses, request[c] # "settled",
               o \in Results => result[c] = o, outcome' = [outcome EXCEPT ![c] = o]
        PROVE  Contract!ContractNext
    <3>1. outcome[c] = "none"
      BY <1>0, <2>2 DEF TruthInv
    <3>2. Contract!Tell(c)
      BY <1>1, <2>1, <2>2, <3>1 DEF Contract!Tell
    <3>3. QED
      BY <3>2 DEF Contract!ContractNext
  <2>3. CASE GiveUp
    <3>1. Parked \in SUBSET {c \in Commands : outcome[c] = "none"}
      BY <1>0 DEF Parked, TruthInv
    <3>2. outcome' = [c \in Commands |-> IF c \in Parked THEN "failed" ELSE outcome[c]]
      BY <2>3 DEF GiveUp
    <3>3. Contract!FailRequests
      BY <2>1, <3>1, <3>2 DEF Contract!FailRequests
    <3>4. QED
      BY <3>3 DEF Contract!ContractNext
  <2>4. CASE Disconnect \/ Reconnect
    BY <2>1, <2>4, ContractVarsKept DEF Disconnect, Reconnect
  <2>5. ASSUME NEW c \in Commands, Send(c)
        PROVE  [Contract!ContractNext]_(Contract!contractVars)
    BY <2>1, <2>5, ContractVarsKept DEF Send
  <2>6. ASSUME NEW c \in Commands, Timeout(c)
        PROVE  [Contract!ContractNext]_(Contract!contractVars)
    BY <2>2, <2>6 DEF Timeout, Excuses, Results
  <2>7. ASSUME NEW m \in toClient, ReceiveReply(m)
        PROVE  [Contract!ContractNext]_(Contract!contractVars)
    <3>1. CASE request[m.cmd] = "sent"
      BY <1>0, <2>2, <2>7, <3>1 DEF ReceiveReply, TruthInv
    <3>2. CASE request[m.cmd] # "sent"
      BY <2>1, <2>7, <3>2, ContractVarsKept DEF ReceiveReply
    <3>3. QED
      BY <3>1, <3>2
  <2>8. QED
    BY <1>2, <2>3, <2>4, <2>5, <2>6, <2>7 DEF Client
<1>3. CASE HandleLine
  <2>1. UNCHANGED <<dispatches, result, outcome>>
    BY <1>3 DEF HandleLine, HandleRequest, AnswerFromJournal, AnswerUncertain, Refuse, Begin, Acknowledge
  <2>2. QED
    BY <2>1, ContractVarsKept
<1>4. ASSUME NEW h \in handlers, Execute(h) PROVE Contract!ContractNext
  <2>1. dispatches[h.cmd] = 0 /\ h.cmd \in Commands
    BY <1>0, <1>4 DEF Execute, KnowledgeInv
  <2>2. outcome[h.cmd] \notin Results
    BY <1>0, <2>1 DEF TruthInv
  <2>3. dispatches' = [dispatches EXCEPT ![h.cmd] = 1]
    BY <1>0, <1>4, <2>1 DEF Execute
  <2>4. Contract!Dispatch(h.cmd)
    BY <1>1, <1>4, <2>1, <2>2, <2>3 DEF Contract!Dispatch, Execute
  <2>5. QED
    BY <2>1, <2>4 DEF Contract!ContractNext
<1>5. ASSUME NEW h \in handlers, Record(h) \/ FailRecord(h)
      PROVE  [Contract!ContractNext]_(Contract!contractVars)
  BY <1>5, ContractVarsKept DEF Record, FailRecord
<1>6. CASE Lifecycle
  <2>1. UNCHANGED <<dispatches, result, outcome>>
    BY <1>6 DEF Lifecycle, ChangePhase, Retire, Crash, CrashInAppend, ProcessEnds, Restart
  <2>2. QED
    BY <2>1, ContractVarsKept
<1>7. ASSUME NEW m \in toSupervisor, Lose(m)
      PROVE  [Contract!ContractNext]_(Contract!contractVars)
  BY <1>7, ContractVarsKept DEF Lose
<1>8. QED
  BY <1>2, <1>3, <1>4, <1>5, <1>6, <1>7 DEF Next, Handler

\* What clients observe is what docs/daemon.md promises: at most one dispatch, one
\* outcome, no invented result, and silence after a result was reported.
THEOREM ImplementsContract ==
  ASSUME NoTornWrites PROVE Spec => KeepsContract
<1>1. Init => Contract!ContractInit
  BY DEF Init, Contract!ContractInit
<1>2. JournalInv /\ [Next]_vars => [Contract!ContractNext]_(Contract!contractVars)
  <2>1. UNCHANGED vars => UNCHANGED Contract!contractVars
    BY DEF vars, clientVars, historyVars, Contract!contractVars
  <2>2. QED
    BY <2>1, ContractStep
<1>3. QED
  BY <1>1, <1>2, JournalInvariant, PTL DEF Spec, KeepsContract, Contract!ContractSpec
===============================================================================
