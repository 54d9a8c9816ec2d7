----------------------------- MODULE AgentSocket -----------------------------
(***************************************************************************)
(* The WebSocket sessions between one binding's agent and the panel.  The  *)
(* agent opens them one after the other (bindingAgent.run), the panel may  *)
(* still hold an old one when a new one says hello.  Each direction of a   *)
(* session is a FIFO; when the agent's end is lost any suffix of what it   *)
(* sent is lost with it.  Heartbeats, status and journal messages are left *)
(* to other modules.                                                       *)
(***************************************************************************)
EXTENDS ServerCommands

CONSTANT MaxSessions      \* bound: sessions the agent opens in a behaviour

ASSUME MaxSessionsAssumption == MaxSessions \in Nat

Sessions == 1..MaxSessions
NoSession == 0

VARIABLES
  used,       \* number of sessions dialled so far
  link,       \* the session the agent is connected with, or NoSession
  sock,       \* session -> the panel's view of its socket
  up,         \* session -> messages on their way to the panel
  down        \* session -> commands on their way to the agent

wireVars == <<used, link, sock, up, down>>

\* "new": not accepted yet; "open": not (or no longer) bound to a binding;
\* "bound": in ServerAgentService.bindings; "closed": gone.
SocketStates == {"new", "open", "bound", "closed"}

Messages == [type : {"hello", "ack", "result"},
             cmd : Commands \union {0},
             result : Results \union {NoResult}]
Hello == [type |-> "hello", cmd |-> 0, result |-> "none"]
Ack(c) == [type |-> "ack", cmd |-> c, result |-> "none"]
ResultOf(c, r) == [type |-> "result", cmd |-> c, result |-> r]

WireInit ==
  /\ used = 0
  /\ link = NoSession
  /\ sock = [s \in Sessions |-> "new"]
  /\ up = [s \in Sessions |-> <<>>]
  /\ down = [s \in Sessions |-> <<>>]

\* connectionSession.send: lost unless it is written to the live connection.
Posted(s, m) ==
  IF s = link /\ sock[s] # "closed" THEN [up EXCEPT ![s] = Append(@, m)] ELSE up

Prefixes(q) == {SubSeq(q, 1, n) : n \in 0..Len(q)}

\* The types of the sessions' state.
WireTypeOK ==
  /\ used \in 0..MaxSessions
  /\ link \in Sessions \union {NoSession}
  /\ sock \in [Sessions -> SocketStates]
  /\ up \in [Sessions -> Seq(Messages)]
  /\ down \in [Sessions -> Seq(Commands)]
=============================================================================
