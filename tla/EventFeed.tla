------------------------------ MODULE EventFeed ------------------------------
(***************************************************************************)
(* What a session's event stream promises the clients that follow it, as   *)
(* docs/daemon.md states it (Reconnect, Replay, and Snapshots;             *)
(* Backpressure): a client that follows a session is shown its events in   *)
(* order, may skip some while it is blocked, and is brought up to date by  *)
(* a snapshot that never takes back what it was shown.                     *)
(***************************************************************************)
EXTENDS Naturals

CONSTANTS Clients, MaxEvents

VARIABLES
  emitted,    \* events the session has emitted, numbered from 1
  shown,      \* the events a client's view reflects
  following   \* whether the client's attach has completed

feedVars == <<emitted, shown, following>>

Init ==
  /\ emitted = 0
  /\ shown = [c \in Clients |-> {}]
  /\ following = [c \in Clients |-> FALSE]

Emit ==
  /\ emitted < MaxEvents
  /\ emitted' = emitted + 1
  /\ UNCHANGED <<shown, following>>

\* The attach snapshot: complete up to some event, the baseline of what follows.
Join(c) ==
  /\ ~following[c]
  /\ following' = [following EXCEPT ![c] = TRUE]
  /\ \E n \in 0..emitted : shown' = [shown EXCEPT ![c] = 1..n]
  /\ UNCHANGED emitted

Leave(cs) ==
  /\ following' = [c \in Clients |-> following[c] /\ c \notin cs]
  /\ UNCHANGED <<emitted, shown>>

\* Nothing is promised to a client that does not follow.
Drift(c) ==
  /\ ~following[c]
  /\ \E s \in SUBSET (1..emitted) : shown' = [shown EXCEPT ![c] = s]
  /\ UNCHANGED <<emitted, following>>

\* A live event, newer than everything the client was shown.
Follow(c) ==
  /\ following[c]
  /\ \E n \in 1..emitted :
       /\ \A m \in shown[c] : m < n
       /\ shown' = [shown EXCEPT ![c] = @ \cup {n}]
  /\ UNCHANGED <<emitted, following>>

\* A catch-up snapshot: it fills every gap and takes nothing back.
Resync(c) ==
  /\ following[c]
  /\ \E n \in 0..emitted :
       /\ shown[c] \subseteq 1..n
       /\ shown' = [shown EXCEPT ![c] = 1..n]
  /\ UNCHANGED <<emitted, following>>

Next ==
  \/ Emit
  \/ \E cs \in SUBSET Clients : Leave(cs)
  \/ \E c \in Clients : Join(c) \/ Drift(c) \/ Follow(c) \/ Resync(c)

Spec == Init /\ [][Next]_feedVars
==============================================================================
