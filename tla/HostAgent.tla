------------------------------ MODULE HostAgent ------------------------------
(***************************************************************************)
(* One binding of the host agent (agent/agent.go): the connection loop,    *)
(* the read loop that admits commands, the serial worker with its bounded  *)
(* queue, and the goroutines that replay the result of a command that was  *)
(* redelivered while in flight.                                            *)
(***************************************************************************)
EXTENDS CommandCache, AgentSocket

CONSTANTS
  QueueCapacity,  \* commandQueueCapacity
  MaxCrashes      \* bound: restarts of the agent process

ASSUME QueueCapacityAssumption == QueueCapacity \in Nat \ {0}
ASSUME MaxCrashesAssumption == MaxCrashes \in Nat

\* maxCachedCommandResults is 4096, commandQueueCapacity is 64: every command
\* that can be in flight at once fits in the retained results.
ASSUME RetentionAssumption == CacheLimit > QueueCapacity + 1

VARIABLES
  reader,         \* what the read loop is doing, and for which command
  queue,          \* bindingAgent.commands: [session, cmd], oldest first
  running,        \* what the worker executes: [session, cmd], or Nothing
  waiters,        \* replayPending goroutines of the live session
  crashes,        \* restarts of the process so far
  executions,     \* history: how often a command was executed
  outcome,        \* history: what its last execution really gave
  sent            \* history: the results the agent ever sent for a command

agentVars == <<reader, queue, running, waiters, crashes,
               executions, outcome, sent>>

Idle == [step |-> "idle", cmd |-> 0]
Nothing == [session |-> NoSession, cmd |-> 0]
Jobs == [session : Sessions \union {NoSession}, cmd : Commands]

AgentInit ==
  /\ CacheInit
  /\ reader = Idle
  /\ queue = <<>>
  /\ running = Nothing
  /\ waiters = {}
  /\ crashes = 0
  /\ executions = [c \in Commands |-> 0]
  /\ outcome = [c \in Commands |-> NoResult]
  /\ sent = [c \in Commands |-> {}]

\* session.send of a command result.
Reply(s, c, r) ==
  /\ up' = Posted(s, ResultOf(c, r))
  /\ sent' = IF s = link THEN [sent EXCEPT ![c] = @ \union {r}] ELSE sent

\* connect: dial a new session and send hello.
Dial ==
  /\ link = NoSession
  /\ used < MaxSessions
  /\ used' = used + 1
  /\ link' = used'
  /\ up' = [up EXCEPT ![used'] = <<Hello>>]
  /\ UNCHANGED <<sock, down, cacheVars, agentVars>>

\* connect returns: what was not read is lost, so may be what was not yet
\* received by the panel, and the session's replayPending goroutines stop.
\* Bound: the last session the model allows is not lost.
LinkLost ==
  /\ "link" \in Faults
  /\ link # NoSession
  /\ used < MaxSessions
  /\ reader = Idle
  /\ \E kept \in Prefixes(up[link]) : up' = [up EXCEPT ![link] = kept]
  /\ down' = [down EXCEPT ![link] = <<>>]
  /\ link' = NoSession
  /\ waiters' = {}
  /\ UNCHANGED <<used, sock, cacheVars, reader, queue, running, crashes,
                 executions, outcome, sent>>

\* The panel closed the session and the agent reads the end of the stream.
LinkClosed ==
  /\ link # NoSession
  /\ sock[link] = "closed"
  /\ reader = Idle
  /\ down' = [down EXCEPT ![link] = <<>>]
  /\ link' = NoSession
  /\ waiters' = {}
  /\ UNCHANGED <<used, sock, up, cacheVars, reader, queue, running, crashes,
                 executions, outcome, sent>>

\* The read loop takes a command and acknowledges it before anything else.
Receive ==
  /\ link # NoSession
  /\ reader = Idle
  /\ down[link] # <<>>
  /\ reader' = [step |-> "acked", cmd |-> Head(down[link])]
  /\ down' = [down EXCEPT ![link] = Tail(@)]
  /\ up' = Posted(link, Ack(Head(down[link])))
  /\ UNCHANGED <<used, link, sock, cacheVars, queue, running, waiters, crashes,
                 executions, outcome, sent>>

\* Mutant: what is known of a redelivered command is not looked up.
ReplayUnknown ==
  /\ reader.step = "acked"
  /\ BeginCached(reader.cmd)
  /\ Reply(link, reader.cmd, "unknown")
  /\ reader' = Idle
  /\ UNCHANGED <<used, link, sock, down, queue, running, waiters, crashes,
                 executions, outcome>>

\* begin returned a retained result: send it again.
ReplayCached ==
  /\ reader.step = "acked"
  /\ BeginCached(reader.cmd)
  /\ Reply(link, reader.cmd, completed[reader.cmd])
  /\ reader' = Idle
  /\ UNCHANGED <<used, link, sock, down, queue, running, waiters, crashes,
                 executions, outcome>>

\* begin found the command in flight: a goroutine waits for its result.
JoinPending ==
  /\ reader.step = "acked"
  /\ BeginJoin(reader.cmd)
  /\ waiters' = waiters \union {[cmd |-> reader.cmd, result |-> NoResult]}
  /\ reader' = Idle
  /\ UNCHANGED <<wireVars, queue, running, crashes, executions, outcome, sent>>

\* begin could not persist the acceptance: the command fails, and that failure
\* is not retained.
RefuseUnpersisted ==
  /\ reader.step = "acked"
  /\ BeginRefused(reader.cmd)
  /\ Reply(link, reader.cmd, "failed")
  /\ reader' = Idle
  /\ UNCHANGED <<used, link, sock, down, queue, running, waiters, crashes,
                 executions, outcome>>

\* begin granted ownership.
TakeOwnership ==
  /\ reader.step = "acked"
  /\ BeginOwn(reader.cmd)
  /\ reader' = [reader EXCEPT !.step = "owned"]
  /\ UNCHANGED <<wireVars, queue, running, waiters, crashes, executions,
                 outcome, sent>>

\* enqueueCommand: there is room.
Enqueue ==
  /\ reader.step = "owned"
  /\ Len(queue) < QueueCapacity
  /\ queue' = Append(queue, [session |-> link, cmd |-> reader.cmd])
  /\ reader' = Idle
  /\ UNCHANGED <<wireVars, cacheVars, running, waiters, crashes, executions,
                 outcome, sent>>

\* enqueueCommand: the queue is full, the command fails without execution.
RejectFull ==
  /\ reader.step = "owned"
  /\ Len(queue) = QueueCapacity
  /\ Complete(reader.cmd, "failed")
  /\ Reply(link, reader.cmd, "failed")
  /\ reader' = Idle
  /\ UNCHANGED <<used, link, sock, down, queue, running, waiters, crashes,
                 executions, outcome>>

\* commandWorker takes the oldest command: its side effect happens.
StartExecution ==
  /\ running = Nothing
  /\ queue # <<>>
  /\ running' = Head(queue)
  /\ queue' = Tail(queue)
  /\ executions' = [executions EXCEPT ![Head(queue).cmd] = @ + 1]
  /\ UNCHANGED <<wireVars, cacheVars, reader, waiters, crashes, outcome, sent>>

\* executeCommand records the result, then sends it on the session the command
\* came from, which may be gone; the goroutines that wait for it are released.
FinishExecution ==
  /\ running # Nothing
  /\ \E r \in {"completed", "failed"} :
       /\ Complete(running.cmd, r)
       /\ Reply(running.session, running.cmd, r)
       /\ outcome' = [outcome EXCEPT ![running.cmd] = r]
       /\ waiters' = {IF w.cmd = running.cmd /\ w.result = NoResult
                      THEN [w EXCEPT !.result = r] ELSE w : w \in waiters}
  /\ running' = Nothing
  /\ UNCHANGED <<used, link, sock, down, reader, queue, crashes, executions>>

\* replayPending sends the result it waited for.
ReplayPending ==
  /\ \E w \in waiters :
       /\ w.result # NoResult
       /\ Reply(link, w.cmd, w.result)
       /\ waiters' = waiters \ {w}
  /\ UNCHANGED <<used, link, sock, down, cacheVars, reader, queue, running,
                 crashes, executions, outcome>>

\* The process stops at any point and starts again from its state file.
\* Bound: not during the last session the model allows.
AgentRestart ==
  /\ "crash" \in Faults
  /\ crashes < MaxCrashes
  /\ used < MaxSessions
  /\ crashes' = crashes + 1
  /\ Reload
  /\ reader' = Idle
  /\ queue' = <<>>
  /\ running' = Nothing
  /\ waiters' = {}
  /\ link' = NoSession
  /\ IF link = NoSession
     THEN UNCHANGED <<up, down>>
     ELSE /\ \E kept \in Prefixes(up[link]) : up' = [up EXCEPT ![link] = kept]
          /\ down' = [down EXCEPT ![link] = <<>>]
  /\ UNCHANGED <<used, sock, executions, outcome, sent>>

AgentStep ==
  \/ Dial \/ LinkLost \/ LinkClosed \/ Receive \/ ReplayCached \/ JoinPending
  \/ RefuseUnpersisted \/ TakeOwnership \/ Enqueue \/ RejectFull
  \/ StartExecution \/ FinishExecution \/ ReplayPending \/ AgentRestart

\* The types of the agent's state.
AgentTypeOK ==
  /\ reader \in [step : {"acked", "owned"}, cmd : Commands] \union {Idle}
  /\ queue \in Seq(Jobs)
  /\ running \in Jobs \union {Nothing}
  /\ waiters \subseteq [cmd : Commands, result : Results \union {NoResult}]
  /\ crashes \in Nat
  /\ executions \in [Commands -> Nat]
  /\ outcome \in [Commands -> Results \union {NoResult}]
  /\ sent \in [Commands -> SUBSET Results]
=============================================================================
