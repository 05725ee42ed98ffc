--------------------------- MODULE CommandContract ---------------------------
(***************************************************************************)
(* What docs/daemon.md ("Idempotency and Crash Recovery") promises a       *)
(* client about its mutating commands: each is dispatched at most once,    *)
(* the client is told one outcome, a result it is told is the one the      *)
(* dispatch produced, and once it has been told a result nothing more      *)
(* happens on behalf of that command.  No journal, socket or process       *)
(* appears here: CommandJournal shows how the code keeps the promise.      *)
(***************************************************************************)
EXTENDS Naturals

CONSTANT Commands

Results  == {"ok", "error"}                 \* responses of the command handler
Excuses  == {"uncertain", "refused", "stale", "failed"}
Outcomes == Results \cup Excuses            \* what request() settles with

VARIABLES
  dispatches,   \* how many times the handler of the command was run
  result,       \* what the last run produced, "none" before the first
  outcome       \* what the client was told, "none" while it waits

contractVars == <<dispatches, result, outcome>>

ContractInit ==
  /\ dispatches = [c \in Commands |-> 0]
  /\ result     = [c \in Commands |-> "none"]
  /\ outcome    = [c \in Commands |-> "none"]

\* The handler may run on behalf of a client that gave up or was told
\* "uncertain", but never twice and never after a result was reported.
Dispatch(c) ==
  /\ dispatches[c] = 0
  /\ outcome[c] \notin Results
  /\ dispatches' = [dispatches EXCEPT ![c] = 1]
  /\ \E r \in Results : result' = [result EXCEPT ![c] = r]
  /\ UNCHANGED outcome

Tell(c) ==
  /\ outcome[c] = "none"
  /\ \E o \in Outcomes :
        /\ o \in Results => result[c] = o
        /\ outcome' = [outcome EXCEPT ![c] = o]
  /\ UNCHANGED <<dispatches, result>>

\* One connection failure settles every request it carried.
FailRequests ==
  /\ \E C \in SUBSET {c \in Commands : outcome[c] = "none"} :
        outcome' = [c \in Commands |-> IF c \in C THEN "failed" ELSE outcome[c]]
  /\ UNCHANGED <<dispatches, result>>

ContractNext ==
  \/ \E c \in Commands : Dispatch(c) \/ Tell(c)
  \/ FailRequests

ContractSpec == ContractInit /\ [][ContractNext]_contractVars
==============================================================================
