--------------------------- MODULE ServerCommands ---------------------------
(***************************************************************************)
(* The vocabulary the panel and the host agent share: the commands of one  *)
(* binding, their results, and the faults a behaviour may contain.         *)
(***************************************************************************)
EXTENDS Integers, Sequences, FiniteSets

CONSTANTS
  NumCommands,    \* bound: commands created in a behaviour
  Faults          \* the fault classes that may happen

\* "disk" a state file write fails, "link" a connection is lost, "crash" the
\* agent process restarts, "refuse" the panel has too many unauthenticated
\* sockets, "send" socket.send throws, "restart" the API process restarts,
\* "age" a queued command grows older than five minutes.
FaultClasses == {"disk", "link", "crash", "refuse", "send", "restart", "age"}

ASSUME NumCommandsAssumption == NumCommands \in Nat
ASSUME FaultsAssumption == Faults \subseteq FaultClasses

\* Numbered in the order of created_at.
Commands == 1..NumCommands

\* "completed", "failed", or the unknownOutcomeError of a restarted agent.
Results == {"completed", "failed", "unknown"}
NoResult == "none"
=============================================================================
