---------------------------- MODULE RemoteCommand ----------------------------
(***************************************************************************)
(* Server commands end to end: the panel (PanelDispatch), one binding of   *)
(* the host agent (HostAgent) and the sessions between them (AgentSocket). *)
(***************************************************************************)
EXTENDS HostAgent, PanelDispatch

vars == <<wireVars, cacheVars, agentVars, panelVars>>

Init == WireInit /\ AgentInit /\ PanelInit

Next ==
  \/ AgentStep /\ UNCHANGED panelVars
  \/ PanelStep /\ UNCHANGED <<cacheVars, agentVars>>

Spec == Init /\ [][Next]_vars

\* Each goroutine of the agent that can go on does, a command's execution ends
\* (RCON and systemctl run under a deadline), and the panel's event loop gets
\* to every message, to the hello timer and to the heartbeat that closes an
\* unbound socket.  No fault is fair.
Fairness ==
  /\ WF_vars((Dial \/ LinkClosed) /\ UNCHANGED panelVars)
  /\ WF_vars((Receive \/ ReplayCached \/ JoinPending \/ TakeOwnership \/ Enqueue
               \/ RejectFull) /\ UNCHANGED panelVars)
  /\ WF_vars((StartExecution \/ FinishExecution) /\ UNCHANGED panelVars)
  /\ WF_vars(ReplayPending /\ UNCHANGED panelVars)
  /\ \A s \in Sessions :
       WF_vars(/\ Open(s) \/ CloseUnbound(s) \/ HelloMessage(s) \/ AckMessage(s)
                  \/ ResultMessage(s)
               /\ UNCHANGED <<cacheVars, agentVars>>)

LiveSpec == Spec /\ Fairness

-----------------------------------------------------------------------------
\* Every variable has its type.
TypeOK == WireTypeOK /\ CacheTypeOK /\ AgentTypeOK /\ PanelTypeOK

\* However sessions, processes and the state file fail, a command is executed
\* at most once (idempotency.go:124, agent/README.md:53).
AtMostOnce == \A c \in Commands : executions[c] <= 1

\* What the worker executes is recorded in the state file, so that a new
\* process can tell it was started (idempotency.go:124).
AcceptedBeforeEffect ==
  \A c \in Commands :
    executions[c] > 0 /\ status[c] \notin Terminal =>
      c \in disk.accepted \union Elements(disk.order)

\* A binding has one command in flight, and none before it is unfinished.
OneInFlightInOrder ==
  \A c \in Commands : status[c] \in InFlight =>
    \A d \in Commands : d < c => status[d] \in Terminal

\* Commands are executed in the order they were created.
ExecutedInOrder ==
  [][\A c \in Commands : executions'[c] > executions[c] =>
       \A d \in Commands : d > c => executions[d] = 0]_vars

\* Every command that is created reaches a terminal status, and so the ones
\* behind it in the queue are delivered.
EveryCommandSettles ==
  \A c \in Commands : status[c] = "queued" ~> status[c] \in Terminal

\* The panel's report, seen by whoever created the command.
Report(c) ==
  CASE status[c] = "absent" -> "none"
    [] status[c] = "succeeded" -> "succeeded"
    [] status[c] \in {"failed", "expired"} -> "failed"
    [] OTHER -> "open"

Promise == INSTANCE CommandPromise WITH
  Ids <- Commands,
  report <- [c \in Commands |-> Report(c)],
  started <- {c \in Commands : executions[c] > 0},
  ended <- outcome

\* The panel, the agent and the sessions keep the promise of a command.
KeepsPromise == Promise!Spec

\* 'Command expired before delivery' (server-agent.service.ts:323) is only
\* reported for a command no agent ever received.
ExpiredWasNeverDelivered ==
  \A c \in Commands : status[c] = "expired" => executions[c] = 0

\* Every answer the agent gives for a command is the same answer: 'Redelivered IDs
\* replay the prior result without executing again, including across process
\* restarts' (agent/README.md:53).  It holds as long as the state file can be
\* written: a refused acceptance and a result that was not written are forgotten.
OneAnswer == \A c \in Commands : Cardinality(sent[c]) <= 1
=============================================================================
