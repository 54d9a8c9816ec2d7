------------------------- MODULE RemoteCommandProofs -------------------------
EXTENDS RemoteCommandInv, TLAPS, FiniteSetTheorems

-----------------------------------------------------------------------------
(* The state file's sequences and functions keep their types.              *)

LEMMA TrimType ==
  ASSUME NEW S, NEW o \in Seq(S) PROVE Trim(o) \in Seq(S)
  BY CacheLimitAssumption DEF Trim

LEMMA CommandsFinite ==
  ASSUME NEW S \in SUBSET Commands PROVE IsFiniteSet(S) /\ Cardinality(S) \in Nat
<1>1. IsFiniteSet(Commands)
  BY FS_Interval, NumCommandsAssumption DEF Commands
<1>2. IsFiniteSet(S)
  BY <1>1, FS_Subset
<1> QED
  BY <1>2, FS_CardinalityType

LEMMA IdOrderType ==
  ASSUME NEW S \in SUBSET Commands, NEW p \in IdOrders(S)
  PROVE  p \in Seq(S) /\ Len(p) = Cardinality(S) /\ Elements(p) = S
<1>1. Cardinality(S) \in Nat
  BY CommandsFinite
<1> QED
  BY <1>1 DEF IdOrders

LEMMA KeepType ==
  ASSUME NEW o, NEW r \in [Commands -> Results \union {NoResult}]
  PROVE  Keep(o, r) \in [Commands -> Results \union {NoResult}]
  BY DEF Keep

LEMMA CompleteType ==
  ASSUME CacheTypeOK, NEW c \in Commands, NEW r \in Results, Complete(c, r)
  PROVE  CacheTypeOK'
<1> DEFINE appended == IF completed[c] = NoResult THEN Append(order, c) ELSE order
<1>1. appended \in Seq(Commands)
  BY DEF CacheTypeOK
<1>2. order' = Trim(appended) /\ order' \in Seq(Commands)
  BY <1>1, TrimType DEF Complete
<1>3. completed' \in [Commands -> Results \union {NoResult}]
  <2>1. [completed EXCEPT ![c] = r] \in [Commands -> Results \union {NoResult}]
    BY DEF CacheTypeOK
  <2> QED
    BY <2>1, KeepType DEF Complete
<1>4. pending' \subseteq Commands
  BY DEF Complete, CacheTypeOK
<1>5. disk' = Snapshot(order', completed', pending') \/ disk' = disk
  BY DEF Complete
<1> QED
  BY <1>2, <1>3, <1>4, <1>5 DEF CacheTypeOK, Snapshot

LEMMA ReloadType ==
  ASSUME CacheTypeOK, Reload PROVE CacheTypeOK'
<1>1. PICK a \in IdOrders(disk.accepted) : order' = Trim(disk.order \o a)
  BY DEF Reload
<1>2. disk.accepted \in SUBSET Commands /\ disk.order \in Seq(Commands)
  BY DEF CacheTypeOK
<1>3. a \in Seq(disk.accepted)
  BY <1>2, IdOrderType
<1>4. disk.order \o a \in Seq(Commands)
  BY <1>2, <1>3
<1>5. order' \in Seq(Commands)
  BY <1>1, <1>4, TrimType
<1> DEFINE loaded == [c \in Commands |->
             IF c \in disk.accepted THEN "unknown" ELSE disk.completed[c]]
<1>6. loaded \in [Commands -> Results \union {NoResult}]
  BY DEF CacheTypeOK, Results
<1>7. completed' \in [Commands -> Results \union {NoResult}]
  <2>1. completed' = Keep(order', loaded)
    BY DEF Reload
  <2> QED
    BY <1>6, <2>1, KeepType
<1>8. pending' = {} /\ disk' = Snapshot(order', completed', pending')
  BY DEF Reload
<1> QED
  BY <1>5, <1>7, <1>8 DEF CacheTypeOK, Snapshot

LEMMA BeginType ==
  ASSUME CacheTypeOK, NEW c \in Commands,
         BeginCached(c) \/ BeginJoin(c) \/ BeginOwn(c) \/ BeginRefused(c)
  PROVE  CacheTypeOK'
  BY DEF CacheTypeOK, BeginCached, BeginJoin, BeginOwn, BeginRefused, cacheVars, Snapshot

-----------------------------------------------------------------------------
(* Type correctness, handler by handler.                                   *)

LEMMA MessageTypes ==
  ASSUME NEW c \in Commands, NEW r \in Results
  PROVE  Hello \in Messages /\ Ack(c) \in Messages /\ ResultOf(c, r) \in Messages
  BY DEF Messages, Hello, Ack, ResultOf, Results, NoResult

LEMMA ChannelType ==
  ASSUME NEW f \in [Sessions -> Seq(Messages)], NEW s
  PROVE  [f EXCEPT ![s] = <<>>] \in [Sessions -> Seq(Messages)]
<1>1. <<>> \in Seq(Messages)
  OBVIOUS
<1> QED
  BY <1>1

LEMMA PostedType ==
  ASSUME WireTypeOK, NEW s, NEW m \in Messages
  PROVE  Posted(s, m) \in [Sessions -> Seq(Messages)]
<1>1. CASE s \in Sessions
  <2>1. Append(up[s], m) \in Seq(Messages)
    BY <1>1 DEF WireTypeOK
  <2> QED
    BY <1>1, <2>1 DEF WireTypeOK, Posted
<1>2. CASE s \notin Sessions
  BY <1>2 DEF WireTypeOK, Posted
<1> QED
  BY <1>1, <1>2

LEMMA ReplyType ==
  ASSUME WireTypeOK, AgentTypeOK, NEW s, NEW c \in Commands, NEW r \in Results,
         Reply(s, c, r)
  PROVE  /\ up' \in [Sessions -> Seq(Messages)]
         /\ sent' \in [Commands -> SUBSET Results]
  BY MessageTypes, PostedType DEF Reply, AgentTypeOK

LEMMA PrefixType ==
  ASSUME NEW S, NEW q \in Seq(S), NEW k \in Prefixes(q) PROVE k \in Seq(S)
  BY DEF Prefixes

LEMMA TypeInit == Init => TypeOK
<1> SUFFICES ASSUME Init PROVE TypeOK
  OBVIOUS
<1>1. WireTypeOK
  BY MaxSessionsAssumption DEF Init, WireInit, WireTypeOK, SocketStates, NoSession
<1>2. CacheTypeOK
  BY DEF Init, AgentInit, CacheInit, CacheTypeOK, Snapshot
<1>3. AgentTypeOK
  BY DEF Init, AgentInit, AgentTypeOK
<1>4. PanelTypeOK
  BY NumCommandsAssumption DEF Init, PanelInit, PanelTypeOK, Statuses
<1> QED
  BY <1>1, <1>2, <1>3, <1>4 DEF TypeOK

LEMMA AgentStepType ==
  ASSUME TypeOK, AgentStep PROVE WireTypeOK' /\ CacheTypeOK' /\ AgentTypeOK'
<1> USE DEF TypeOK
<1> DEFINE Goal == WireTypeOK' /\ CacheTypeOK' /\ AgentTypeOK'
<1>a. reader.step # "idle" => reader.cmd \in Commands
  BY DEF AgentTypeOK, Idle
<1>b. running # Nothing => running \in Jobs /\ running.cmd \in Commands
  BY DEF AgentTypeOK, Jobs
<1>1. CASE Dial
  <2>1. up' \in [Sessions -> Seq(Messages)]
    <3>1. <<Hello>> \in Seq(Messages)
      BY DEF Messages, Hello, NoResult
    <3> QED
      BY <1>1, <3>1 DEF Dial, WireTypeOK
  <2>2. used' \in Sessions
    BY <1>1, MaxSessionsAssumption DEF Dial, WireTypeOK, Sessions
  <2> QED
    BY <1>1, <2>1, <2>2 DEF Dial, WireTypeOK, CacheTypeOK, AgentTypeOK, Sessions,
       cacheVars, agentVars
<1>2. CASE LinkLost
  <2>1. link \in Sessions
    BY <1>2 DEF LinkLost, WireTypeOK
  <2>2. up' \in [Sessions -> Seq(Messages)]
    BY <1>2, <2>1, PrefixType DEF LinkLost, WireTypeOK
  <2> QED
    BY <1>2, <2>2 DEF LinkLost, WireTypeOK, CacheTypeOK, AgentTypeOK, cacheVars
<1>3. CASE LinkClosed
  BY <1>3 DEF LinkClosed, WireTypeOK, CacheTypeOK, AgentTypeOK, cacheVars
<1>4. CASE Receive
  <2>1. link \in Sessions /\ Head(down[link]) \in Commands
        /\ Tail(down[link]) \in Seq(Commands)
    BY <1>4 DEF Receive, WireTypeOK
  <2>2. up' \in [Sessions -> Seq(Messages)]
    <3>1. Ack(Head(down[link])) \in Messages
      BY <2>1 DEF Messages, Ack, NoResult
    <3> QED
      BY <1>4, <3>1, PostedType DEF Receive
  <2>3. down' \in [Sessions -> Seq(Commands)]
    BY <1>4, <2>1 DEF Receive, WireTypeOK
  <2>4. reader' \in [step : {"acked", "owned"}, cmd : Commands]
    BY <1>4, <2>1 DEF Receive
  <2> QED
    BY <1>4, <2>2, <2>3, <2>4
    DEF Receive, WireTypeOK, CacheTypeOK, AgentTypeOK, cacheVars
<1>5. CASE ReplayCached
  <2>1. reader.cmd \in Commands /\ completed[reader.cmd] \in Results
    BY <1>5, <1>a DEF ReplayCached, BeginCached, CacheTypeOK
  <2>2. CacheTypeOK'
    BY <1>5, <2>1, BeginType DEF ReplayCached
  <2>3. up' \in [Sessions -> Seq(Messages)] /\ sent' \in [Commands -> SUBSET Results]
    BY <1>5, <2>1, ReplyType DEF ReplayCached
  <2> QED
    BY <1>5, <2>2, <2>3 DEF ReplayCached, WireTypeOK, AgentTypeOK
<1>6. CASE JoinPending
  <2>1. CacheTypeOK'
    BY <1>6, <1>a, BeginType DEF JoinPending
  <2> QED
    BY <1>6, <1>a, <2>1 DEF JoinPending, WireTypeOK, AgentTypeOK, wireVars
<1>7. CASE RefuseUnpersisted
  <2>1. CacheTypeOK'
    BY <1>7, <1>a, BeginType DEF RefuseUnpersisted
  <2>2. up' \in [Sessions -> Seq(Messages)] /\ sent' \in [Commands -> SUBSET Results]
    BY <1>7, <1>a, ReplyType DEF RefuseUnpersisted, Results
  <2> QED
    BY <1>7, <2>1, <2>2 DEF RefuseUnpersisted, WireTypeOK, AgentTypeOK
<1>8. CASE TakeOwnership
  <2>1. CacheTypeOK'
    BY <1>8, <1>a, BeginType DEF TakeOwnership
  <2> QED
    BY <1>8, <1>a, <2>1 DEF TakeOwnership, WireTypeOK, AgentTypeOK, wireVars, Idle
<1>9. CASE Enqueue
  <2>1. [session |-> link, cmd |-> reader.cmd] \in Jobs
    BY <1>9, <1>a DEF Enqueue, Jobs, WireTypeOK
  <2> QED
    BY <1>9, <2>1 DEF Enqueue, WireTypeOK, CacheTypeOK, AgentTypeOK, wireVars, cacheVars
<1>10. CASE RejectFull
  <2>1. CacheTypeOK'
    BY <1>10, <1>a, CompleteType DEF RejectFull, Results
  <2>2. up' \in [Sessions -> Seq(Messages)] /\ sent' \in [Commands -> SUBSET Results]
    BY <1>10, <1>a, ReplyType DEF RejectFull, Results
  <2> QED
    BY <1>10, <2>1, <2>2 DEF RejectFull, WireTypeOK, AgentTypeOK
<1>11. CASE StartExecution
  <2>1. Head(queue) \in Jobs /\ Tail(queue) \in Seq(Jobs)
    BY <1>11 DEF StartExecution, AgentTypeOK
  <2>2. Head(queue).cmd \in Commands
    BY <2>1 DEF Jobs
  <2>3. executions' \in [Commands -> Nat]
    BY <1>11, <2>2 DEF StartExecution, AgentTypeOK
  <2> QED
    BY <1>11, <2>1, <2>3
    DEF StartExecution, WireTypeOK, CacheTypeOK, AgentTypeOK, wireVars, cacheVars
<1>12. CASE FinishExecution
  <2>1. PICK r \in {"completed", "failed"} :
          /\ Complete(running.cmd, r)
          /\ Reply(running.session, running.cmd, r)
          /\ outcome' = [outcome EXCEPT ![running.cmd] = r]
          /\ waiters' = {IF w.cmd = running.cmd /\ w.result = NoResult
                         THEN [w EXCEPT !.result = r] ELSE w : w \in waiters}
    BY <1>12 DEF FinishExecution
  <2>2. r \in Results /\ running.cmd \in Commands
    BY <1>12, <1>b, <2>1 DEF FinishExecution, Results
  <2>3. CacheTypeOK'
    BY <2>1, <2>2, CompleteType
  <2>4. up' \in [Sessions -> Seq(Messages)] /\ sent' \in [Commands -> SUBSET Results]
    BY <2>1, <2>2, ReplyType
  <2>5. waiters' \subseteq [cmd : Commands, result : Results \union {NoResult}]
    BY <2>1, <2>2 DEF AgentTypeOK
  <2>6. outcome' \in [Commands -> Results \union {NoResult}]
    BY <2>1, <2>2 DEF AgentTypeOK
  <2> QED
    BY <1>12, <2>3, <2>4, <2>5, <2>6 DEF FinishExecution, WireTypeOK, AgentTypeOK
<1>13. CASE ReplayPending
  <2>1. PICK w \in waiters :
          w.result # NoResult /\ Reply(link, w.cmd, w.result) /\ waiters' = waiters \ {w}
    BY <1>13 DEF ReplayPending
  <2>2. w.cmd \in Commands /\ w.result \in Results
    BY <2>1 DEF AgentTypeOK
  <2>3. up' \in [Sessions -> Seq(Messages)] /\ sent' \in [Commands -> SUBSET Results]
    BY <2>1, <2>2, ReplyType
  <2> QED
    BY <1>13, <2>1, <2>3 DEF ReplayPending, WireTypeOK, CacheTypeOK, AgentTypeOK, cacheVars
<1>14. CASE AgentRestart
  <2>1. CacheTypeOK'
    BY <1>14, ReloadType DEF AgentRestart
  <2>2. up' \in [Sessions -> Seq(Messages)] /\ down' \in [Sessions -> Seq(Commands)]
    <3>1. CASE link = NoSession
      BY <1>14, <3>1 DEF AgentRestart, WireTypeOK
    <3>2. CASE link # NoSession
      <4>1. link \in Sessions
        BY <3>2 DEF WireTypeOK
      <4>2. PICK kept \in Prefixes(up[link]) : up' = [up EXCEPT ![link] = kept]
        BY <1>14, <3>2 DEF AgentRestart
      <4>3. kept \in Seq(Messages)
        BY <4>1, <4>2, PrefixType DEF WireTypeOK
      <4>4. down' = [down EXCEPT ![link] = <<>>]
        BY <1>14, <3>2 DEF AgentRestart
      <4> QED
        BY <4>1, <4>2, <4>3, <4>4 DEF WireTypeOK
    <3> QED
      BY <3>1, <3>2
  <2> QED
    BY <1>14, <2>1, <2>2 DEF AgentRestart, WireTypeOK, AgentTypeOK
<1> QED
  BY <1>1, <1>2, <1>3, <1>4, <1>5, <1>6, <1>7, <1>8, <1>9, <1>10, <1>11, <1>12,
     <1>13, <1>14 DEF AgentStep

LEMMA DispatchType ==
  ASSUME WireTypeOK, NEW st \in [Commands -> Statuses],
         NEW sk \in [Sessions -> SocketStates],
         NEW act \in Sessions \union {NoSession},
         Dispatch(st, sk, act)
  PROVE  /\ status' \in [Commands -> Statuses]
         /\ sock' \in [Sessions -> SocketStates]
         /\ active' \in Sessions \union {NoSession}
         /\ down' \in [Sessions -> Seq(Commands)]
<1>1. Expired(st) \in [Commands -> Statuses]
  BY DEF Expired, Statuses, Terminal
<1>2. Requeued(Expired(st)) \in [Commands -> Statuses]
  BY <1>1 DEF Requeued, Statuses
<1>3. "delivered" \in Statuses /\ "open" \in SocketStates
  BY DEF Statuses, InFlight, SocketStates
<1>4. ASSUME NEW c \in Queued(Expired(st)), act # NoSession,
             down' = [down EXCEPT ![act] = Append(@, c)]
      PROVE  down' \in [Sessions -> Seq(Commands)]
  <2>1. act \in Sessions /\ c \in Commands
    BY <1>4 DEF Queued
  <2> QED
    BY <1>4, <2>1 DEF WireTypeOK
<1> QED
  BY <1>1, <1>2, <1>3, <1>4 DEF Dispatch, FirstQueued, WireTypeOK

LEMMA StatusTypes ==
  ASSUME NEW st \in [Commands -> Statuses], NEW c \in Commands, NEW r
  PROVE  /\ Requeued(st) \in [Commands -> Statuses]
         /\ Finished(st, c, r) \in [Commands -> Statuses]
         /\ [st EXCEPT ![c] = "queued"] \in [Commands -> Statuses]
  BY DEF Requeued, Finished, Statuses, InFlight, Terminal

LEMMA PanelStepType ==
  ASSUME TypeOK, PanelStep PROVE WireTypeOK' /\ PanelTypeOK'
<1> USE DEF TypeOK
<1>1. CASE CreateCommand
  <2>1. made' \in 1..NumCommands /\ made' \in Commands
    BY <1>1, NumCommandsAssumption DEF CreateCommand, PanelTypeOK, Commands
  <2>2. [status EXCEPT ![made'] = "queued"] \in [Commands -> Statuses]
    BY <2>1, StatusTypes DEF PanelTypeOK
  <2>3. Dispatch([status EXCEPT ![made'] = "queued"], sock, active)
    BY <1>1 DEF CreateCommand
  <2>4. /\ status' \in [Commands -> Statuses]
        /\ sock' \in [Sessions -> SocketStates]
        /\ active' \in Sessions \union {NoSession}
        /\ down' \in [Sessions -> Seq(Commands)]
    BY <2>2, <2>3, DispatchType DEF WireTypeOK, PanelTypeOK
  <2> QED
    BY <1>1, <2>1, <2>4 DEF CreateCommand, WireTypeOK, PanelTypeOK
<1>2. CASE Age
  BY <1>2, NumCommandsAssumption DEF Age, WireTypeOK, PanelTypeOK, wireVars
<1>3. CASE PanelRestart
  <2>1. Requeued(status) \in [Commands -> Statuses]
    BY DEF Requeued, PanelTypeOK, Statuses
  <2> QED
    BY <1>3, <2>1 DEF PanelRestart, WireTypeOK, PanelTypeOK, SocketStates
<1> SUFFICES ASSUME NEW s \in Sessions,
                    \/ Open(s) \/ CloseUnbound(s) \/ HelloMessage(s)
                    \/ AckMessage(s) \/ ResultMessage(s) \/ SocketClosed(s)
             PROVE  WireTypeOK' /\ PanelTypeOK'
  BY <1>1, <1>2, <1>3 DEF PanelStep
<1>4. CASE Open(s)
  <2>1. sock' \in [Sessions -> SocketStates]
    BY <1>4 DEF Open, WireTypeOK, SocketStates
  <2>2. up' \in [Sessions -> Seq(Messages)]
    <3>1. up' = up \/ up' = [up EXCEPT ![s] = <<>>]
      BY <1>4 DEF Open
    <3>2. up \in [Sessions -> Seq(Messages)]
      BY DEF WireTypeOK
    <3> QED
      BY <3>1, <3>2, ChannelType, Zenon
  <2> QED
    BY <1>4, <2>1, <2>2 DEF Open, WireTypeOK, PanelTypeOK, panelVars
<1>5. CASE CloseUnbound(s)
  BY <1>5 DEF CloseUnbound, WireTypeOK, PanelTypeOK, panelVars, SocketStates
<1>6. CASE HelloMessage(s)
  <2>1. up' \in [Sessions -> Seq(Messages)]
    <3>1. up[s] # <<>> /\ Tail(up[s]) \in Seq(Messages)
      BY <1>6 DEF HelloMessage, WireTypeOK
    <3> DEFINE rest == [up EXCEPT ![s] = Tail(@)]
    <3>2. up' = [rest EXCEPT ![active] = <<>>] \/ up' = rest
      BY <1>6 DEF HelloMessage
    <3>3. rest \in [Sessions -> Seq(Messages)]
      BY <3>1 DEF WireTypeOK
    <3> HIDE DEF rest
    <3> QED
      BY <3>2, <3>3, ChannelType, Zenon
  <2>2. \E st \in [Commands -> Statuses], sk \in [Sessions -> SocketStates] :
          Dispatch(st, sk, s)
    <3>1. Requeued(status) \in [Commands -> Statuses]
      BY DEF Requeued, PanelTypeOK, Statuses
    <3>2. [sock EXCEPT ![s] = "bound"] \in [Sessions -> SocketStates]
      BY DEF WireTypeOK, SocketStates
    <3>3. [sock EXCEPT ![s] = "bound", ![active] = "closed"] \in [Sessions -> SocketStates]
      BY DEF WireTypeOK, SocketStates
    <3> QED
      BY <1>6, <3>1, <3>2, <3>3 DEF HelloMessage, PanelTypeOK
  <2>3. /\ status' \in [Commands -> Statuses]
        /\ sock' \in [Sessions -> SocketStates]
        /\ active' \in Sessions \union {NoSession}
        /\ down' \in [Sessions -> Seq(Commands)]
    BY <2>2, DispatchType
  <2> QED
    BY <1>6, <2>1, <2>3 DEF HelloMessage, WireTypeOK, PanelTypeOK
<1>7. CASE AckMessage(s)
  <2>1. up' \in [Sessions -> Seq(Messages)]
    BY <1>7 DEF AckMessage, WireTypeOK
  <2>2. status' \in [Commands -> Statuses]
    BY <1>7 DEF AckMessage, PanelTypeOK, Statuses, InFlight
  <2> QED
    BY <1>7, <2>1, <2>2 DEF AckMessage, WireTypeOK, PanelTypeOK
<1>8. CASE ResultMessage(s)
  <2>1. up' \in [Sessions -> Seq(Messages)]
    BY <1>8 DEF ResultMessage, WireTypeOK
  <2> DEFINE st == Finished(status, Head(up[s]).cmd, Head(up[s]).result)
  <2>2. st \in [Commands -> Statuses]
    BY DEF PanelTypeOK, Finished, Statuses, Terminal
  <2>3. Dispatch(st, sock, active)
    BY <1>8 DEF ResultMessage
  <2> HIDE DEF st
  <2>4. /\ status' \in [Commands -> Statuses]
        /\ sock' \in [Sessions -> SocketStates]
        /\ active' \in Sessions \union {NoSession}
        /\ down' \in [Sessions -> Seq(Commands)]
    BY <2>2, <2>3, DispatchType DEF WireTypeOK, PanelTypeOK
  <2> QED
    BY <1>8, <2>1, <2>4 DEF ResultMessage, WireTypeOK, PanelTypeOK
<1>9. CASE SocketClosed(s)
  <2>1. Requeued(status) \in [Commands -> Statuses]
    BY DEF Requeued, PanelTypeOK, Statuses
  <2> QED
    BY <1>9, <2>1 DEF SocketClosed, WireTypeOK, PanelTypeOK, SocketStates
<1> QED
  BY <1>4, <1>5, <1>6, <1>7, <1>8, <1>9

LEMMA TypeStep == TypeOK /\ [Next]_vars => TypeOK'
<1> SUFFICES ASSUME TypeOK, [Next]_vars PROVE TypeOK'
  OBVIOUS
<1>1. CASE AgentStep /\ UNCHANGED panelVars
  <2>1. PanelTypeOK'
    BY <1>1 DEF TypeOK, PanelTypeOK, panelVars
  <2> QED
    BY <1>1, <2>1, AgentStepType DEF TypeOK
<1>2. CASE PanelStep /\ UNCHANGED <<cacheVars, agentVars>>
  <2>1. CacheTypeOK' /\ AgentTypeOK'
    BY <1>2 DEF TypeOK, CacheTypeOK, AgentTypeOK, cacheVars, agentVars
  <2> QED
    BY <1>2, <2>1, PanelStepType DEF TypeOK
<1>3. CASE UNCHANGED vars
  BY <1>3 DEF TypeOK, WireTypeOK, CacheTypeOK, AgentTypeOK, PanelTypeOK, vars,
     wireVars, cacheVars, agentVars, panelVars
<1> QED
  BY <1>1, <1>2, <1>3 DEF Next

\* Every variable of the panel, the agent and the sessions keeps its type,
\* for any number of commands and sessions and any mix of faults.
THEOREM TypeCorrect == Spec => []TypeOK
  BY TypeInit, TypeStep, PTL DEF Spec

-----------------------------------------------------------------------------
(* What trimming and cardinalities give the retention argument.            *)

\* An id that is close enough to the end of the order survives the trim.
LEMMA TrimKeepsRecent ==
  ASSUME NEW o \in Seq(Commands), NEW i \in DOMAIN o, Len(o) - i < CacheLimit
  PROVE  \E j \in DOMAIN Trim(o) :
           Trim(o)[j] = o[i] /\ Len(Trim(o)) - j = Len(o) - i
<1>1. CASE Len(o) > CacheLimit
  <2> DEFINE j == i - (Len(o) - CacheLimit)
  <2>1. j \in 1..CacheLimit
    BY <1>1, CacheLimitAssumption
  <2>2. Trim(o) = SubSeq(o, Len(o) - CacheLimit + 1, Len(o))
    BY <1>1 DEF Trim
  <2>3. Len(Trim(o)) = CacheLimit /\ Trim(o)[j] = o[i] /\ j \in DOMAIN Trim(o)
    BY <1>1, <2>1, <2>2, CacheLimitAssumption
  <2> QED
    BY <2>1, <2>3, CacheLimitAssumption
<1>2. CASE ~(Len(o) > CacheLimit)
  BY <1>2 DEF Trim
<1> QED
  BY <1>1, <1>2

LEMMA AppendElements ==
  ASSUME NEW S, NEW q \in Seq(S), NEW x \in S
  PROVE  Append(q, x) \in Seq(S) /\ Elements(Append(q, x)) = Elements(q) \union {x}
<1>1. /\ \A i \in DOMAIN q : i \in DOMAIN Append(q, x) /\ Append(q, x)[i] = q[i]
      /\ Len(q) + 1 \in DOMAIN Append(q, x) /\ Append(q, x)[Len(q) + 1] = x
      /\ \A i \in DOMAIN Append(q, x) : i \in DOMAIN q \/ i = Len(q) + 1
  OBVIOUS
<1> QED
  BY <1>1 DEF Elements

LEMMA TrimElements ==
  ASSUME NEW o \in Seq(Commands) PROVE Elements(Trim(o)) \subseteq Elements(o)
  BY CacheLimitAssumption DEF Trim, Elements

\* At most a full queue, one running and one admitted command are in flight.
LEMMA PendingSmall ==
  ASSUME TypeOK, PendingHeld
  PROVE  /\ Cardinality(pending) <= QueueCapacity + 2
         /\ reader.step # "owned" => Cardinality(pending) <= QueueCapacity + 1
<1> DEFINE Q == {queue[i].cmd : i \in DOMAIN queue}
           n == Len(queue)
           f == [i \in 1..n |-> queue[i].cmd]
<1>1. queue \in Seq(Jobs) /\ n \in Nat /\ DOMAIN queue = 1..n
  BY DEF TypeOK, AgentTypeOK
<1>2. f \in Surjection(1..n, Q)
  BY <1>1 DEF Surjection
<1>3. IsFiniteSet(1..n) /\ Cardinality(1..n) = n
  BY <1>1, FS_Interval
<1>4. IsFiniteSet(Q) /\ Cardinality(Q) <= n
  BY <1>2, <1>3, FS_Surjection
<1>5. Cardinality(Q) \in Nat /\ Cardinality(Q) <= QueueCapacity
  BY <1>1, <1>4, FS_CardinalityType, QueueCapacityAssumption DEF PendingHeld
<1> DEFINE R == Q \union {running.cmd}
           W == R \union {reader.cmd}
<1> HIDE DEF Q
<1>6. IsFiniteSet(R) /\ Cardinality(R) \in Nat /\ Cardinality(R) <= QueueCapacity + 1
  <2>1. /\ IsFiniteSet(R)
        /\ Cardinality(R) = IF running.cmd \in Q THEN Cardinality(Q) ELSE Cardinality(Q) + 1
    BY <1>4, FS_AddElement
  <2> QED
    BY <1>5, <2>1, QueueCapacityAssumption
<1>7. IsFiniteSet(W) /\ Cardinality(W) \in Nat /\ Cardinality(W) <= QueueCapacity + 2
  <2>1. /\ IsFiniteSet(W)
        /\ Cardinality(W) = IF reader.cmd \in R THEN Cardinality(R) ELSE Cardinality(R) + 1
    BY <1>6, FS_AddElement
  <2> QED
    BY <1>6, <2>1, QueueCapacityAssumption
<1>8. pending \subseteq W
  BY DEF PendingHeld, Q
<1>9. reader.step # "owned" => pending \subseteq R
  BY DEF PendingHeld, Q
<1> HIDE DEF R, W
<1>10. Cardinality(pending) \in Nat
  BY CommandsFinite DEF TypeOK, CacheTypeOK
<1>11. Cardinality(pending) <= Cardinality(W)
  BY <1>7, <1>8, FS_Subset
<1>12. reader.step # "owned" => Cardinality(pending) <= Cardinality(R)
  BY <1>6, <1>9, FS_Subset
<1> QED
  BY <1>6, <1>7, <1>10, <1>11, <1>12, QueueCapacityAssumption

\* Completing what is pending keeps every other remembered command in reach,
\* and remembers the completed one itself.
LEMMA CompleteRemembers ==
  ASSUME CacheTypeOK, CacheTypeOK', NEW c \in pending, NEW r \in Results,
         completed[c] = NoResult, Complete(c, r),
         Cardinality(pending) <= QueueCapacity + 2,
         NEW d \in Commands, d = c \/ Remembered(order, pending, d)
  PROVE  Remembered(order', pending', d)
<1> DEFINE o == Append(order, c)
<1>1. c \in Commands /\ o \in Seq(Commands) /\ Len(o) = Len(order) + 1 /\ o[Len(o)] = c
  BY DEF CacheTypeOK
<1>2. order' = Trim(o) /\ pending' = pending \ {c}
  BY DEF Complete
<1>3. /\ Cardinality(pending) \in Nat /\ Cardinality(pending') \in Nat
      /\ Cardinality(pending') = Cardinality(pending) - 1
  BY <1>2, CommandsFinite, FS_RemoveElement DEF CacheTypeOK
<1>4. ASSUME NEW i \in DOMAIN o, o[i] = d, Len(o) - i + Cardinality(pending') < CacheLimit
      PROVE  Remembered(order', pending', d)
  <2>1. Len(o) - i < CacheLimit
    BY <1>1, <1>3, <1>4, CacheLimitAssumption
  <2>2. PICK j \in DOMAIN Trim(o) : Trim(o)[j] = o[i] /\ Len(Trim(o)) - j = Len(o) - i
    BY <1>1, <2>1, TrimKeepsRecent
  <2> QED
    BY <1>2, <1>4, <2>2 DEF Remembered
<1>5. CASE d = c
  BY <1>1, <1>3, <1>4, <1>5, CacheLimitAssumption, QueueCapacityAssumption,
     RetentionAssumption
<1>6. CASE d # c /\ d \in pending
  BY <1>2, <1>6 DEF Remembered
<1>7. CASE d # c /\ d \notin pending
  <2>1. PICK i \in DOMAIN order :
          order[i] = d /\ Len(order) - i + Cardinality(pending) < CacheLimit
    BY <1>7 DEF Remembered
  <2>2. i \in DOMAIN o /\ o[i] = d /\ Len(o) - i = Len(order) - i + 1
    BY <1>1, <2>1 DEF CacheTypeOK
  <2>3. Len(o) - i + Cardinality(pending') = Len(order) - i + Cardinality(pending)
    BY <1>1, <1>3, <2>1, <2>2 DEF CacheTypeOK
  <2> QED
    BY <1>4, <2>1, <2>2, <2>3
<1> QED
  BY <1>5, <1>6, <1>7

-----------------------------------------------------------------------------
(* Steps of the agent.  None of them makes a command come in that was not  *)
(* coming in, and only TakeOwnership makes the agent own one more.         *)

\* The order between the two sides only depends on what is touched.
LEMMA AgentKeepsOrder ==
  ASSUME Inv, TypeOK', UNCHANGED panelVars,
         Mine' \subseteq Mine \union Incoming,
         Incoming' \subseteq Incoming,
         Announced' \subseteq Touched
  PROVE  RowsCreated' /\ TouchedInOrder'
<1>1. Touched' \subseteq Touched
  BY DEF Touched, panelVars
<1> QED
  BY <1>1 DEF Inv, RowsCreated, TouchedInOrder, panelVars

LEMMA AgentKeepsMemory ==
  ASSUME Inv, TypeOK', UNCHANGED <<cacheVars, panelVars>>,
         Mine' \subseteq Mine, Incoming' \subseteq Incoming
  PROVE  CacheShape' /\ DiskBound' /\ RememberedInMemory' /\ RememberedOnDisk'
<1>1. ASSUME NEW c, Redeliverable(c)' PROVE Redeliverable(c)
  BY <1>1 DEF Redeliverable, Unfinished, panelVars
<1>2. CacheShape' /\ DiskBound'
  BY DEF Inv, CacheShape, DiskBound, cacheVars
<1>3. order' = order /\ pending' = pending /\ disk' = disk
  BY DEF cacheVars
<1>4. RememberedInMemory'
  BY <1>1, <1>3 DEF Inv, RememberedInMemory, Remembered
<1>5. RememberedOnDisk'
  BY <1>1, <1>3 DEF Inv, RememberedOnDisk, Remembered
<1> QED
  BY <1>2, <1>4, <1>5

\* What a reply puts on the wire announces nothing.
LEMMA ReplyAnnouncesNothing ==
  ASSUME TypeOK, NEW s, NEW c \in Commands, NEW r, up' = Posted(s, ResultOf(c, r))
  PROVE  Announced' \subseteq Announced
<1> SUFFICES ASSUME NEW a \in Commands, NEW t \in Sessions, NEW i \in DOMAIN up'[t],
                    IsAck(up'[t][i], a)
             PROVE  \E j \in DOMAIN up[t] : IsAck(up[t][j], a)
  BY DEF Announced
<1>1. up[t] \in Seq(Messages)
  BY DEF TypeOK, WireTypeOK
<1>2. CASE up'[t] = up[t]
  BY <1>2
<1>3. CASE up'[t] = Append(up[t], ResultOf(c, r))
  <2>1. ~IsAck(ResultOf(c, r), a)
    BY DEF ResultOf, IsAck
  <2> QED
    BY <1>1, <1>3, <2>1
<1> QED
  BY <1>2, <1>3 DEF Posted, TypeOK, WireTypeOK

LEMMA PrefixAnnouncesNothing ==
  ASSUME TypeOK, NEW s \in Sessions, NEW kept \in Prefixes(up[s]),
         up' = [up EXCEPT ![s] = kept]
  PROVE  Announced' \subseteq Announced
<1> SUFFICES ASSUME NEW a \in Commands, NEW t \in Sessions, NEW i \in DOMAIN up'[t],
                    IsAck(up'[t][i], a)
             PROVE  \E j \in DOMAIN up[t] : IsAck(up[t][j], a)
  BY DEF Announced
<1>1. up[t] \in Seq(Messages) /\ up[s] \in Seq(Messages)
  BY DEF TypeOK, WireTypeOK
<1>2. CASE t # s
  BY <1>2 DEF TypeOK, WireTypeOK
<1>3. CASE t = s
  <2>1. up'[t] = kept
    BY <1>3 DEF TypeOK, WireTypeOK
  <2>2. PICK n \in 0..Len(up[s]) : kept = SubSeq(up[s], 1, n)
    BY DEF Prefixes
  <2> QED
    BY <1>1, <1>3, <2>1, <2>2
<1> QED
  BY <1>2, <1>3

\* Losing or closing the live session.
LEMMA LinkDownKeepsInv ==
  ASSUME Inv, TypeOK', LinkLost \/ LinkClosed, UNCHANGED panelVars PROVE Inv'
<1>1. link \in Sessions /\ reader = Idle /\ reader' = Idle
  BY DEF LinkLost, LinkClosed, Inv, TypeOK, WireTypeOK
<1>2. /\ link' = NoSession /\ down' = [down EXCEPT ![link] = <<>>]
      /\ UNCHANGED <<used, sock, cacheVars, reader, queue, running, executions>>
  BY DEF LinkLost, LinkClosed
<1>3. Incoming' = {}
  BY <1>1, <1>2 DEF Incoming, Idle
<1>4. Mine' = Mine
  BY <1>2 DEF Mine, cacheVars
<1>5. Announced' \subseteq Announced
  <2>1. CASE LinkLost
    BY <1>1, <2>1, PrefixAnnouncesNothing DEF LinkLost, Inv
  <2>2. CASE LinkClosed
    BY <2>2 DEF LinkClosed, Announced
  <2> QED
    BY <2>1, <2>2
<1>6. RowsCreated' /\ TouchedInOrder'
  BY <1>3, <1>4, <1>5, AgentKeepsOrder DEF Touched
<1>7. CacheShape' /\ DiskBound' /\ RememberedInMemory' /\ RememberedOnDisk'
  BY <1>2, <1>3, <1>4, AgentKeepsMemory
<1>8. SessionsInUse'
  BY <1>1, <1>2 DEF Inv, SessionsInUse, panelVars, TypeOK, WireTypeOK, NoSession
<1>9. IncomingInOrder'
  BY <1>2, <1>3 DEF IncomingInOrder
<1>10. OwnedOnce' /\ PendingHeld' /\ AtMostOnce'
  BY <1>2 DEF Inv, OwnedOnce, PendingHeld, AtMostOnce, cacheVars
<1> QED
  BY <1>6, <1>7, <1>8, <1>9, <1>10 DEF Inv

LEMMA DialKeepsInv ==
  ASSUME Inv, TypeOK', Dial, UNCHANGED panelVars PROVE Inv'
<1>1. /\ link = NoSession /\ used' = used + 1 /\ link' = used' /\ used' \in Sessions
      /\ up' = [up EXCEPT ![used'] = <<Hello>>]
      /\ UNCHANGED <<sock, down, cacheVars, agentVars, panelVars>>
  BY MaxSessionsAssumption DEF Dial, Inv, TypeOK, WireTypeOK, Sessions
<1>2. reader = Idle /\ reader' = Idle /\ down[used'] = <<>>
  BY <1>1 DEF Inv, SessionsInUse, TypeOK, WireTypeOK, agentVars
<1>3. Incoming' = {}
  BY <1>1, <1>2 DEF Incoming, Idle, Elements
<1>4. Mine' = Mine
  BY <1>1 DEF Mine, cacheVars, agentVars
<1>5. Announced' \subseteq Announced
  <2> SUFFICES ASSUME NEW a \in Commands, NEW t \in Sessions, NEW i \in DOMAIN up'[t],
                      IsAck(up'[t][i], a)
               PROVE  \E j \in DOMAIN up[t] : IsAck(up[t][j], a)
    BY DEF Announced
  <2>1. ~IsAck(Hello, a)
    BY DEF Hello, IsAck
  <2> QED
    BY <1>1, <2>1 DEF Inv, TypeOK, WireTypeOK
<1>6. RowsCreated' /\ TouchedInOrder'
  BY <1>1, <1>3, <1>4, <1>5, AgentKeepsOrder DEF Touched
<1>7. CacheShape' /\ DiskBound' /\ RememberedInMemory' /\ RememberedOnDisk'
  BY <1>1, <1>3, <1>4, AgentKeepsMemory
<1>8. SessionsInUse'
  BY <1>1, <1>2 DEF Inv, SessionsInUse, panelVars, TypeOK, WireTypeOK, PanelTypeOK,
     NoSession, Sessions
<1>9. IncomingInOrder'
  <2>1. DOMAIN down'[link'] = {}
    BY <1>1, <1>2
  <2> QED
    BY <1>3, <2>1 DEF IncomingInOrder
<1>10. OwnedOnce' /\ PendingHeld' /\ AtMostOnce'
  BY <1>1 DEF Inv, OwnedOnce, PendingHeld, AtMostOnce, cacheVars, agentVars
<1> QED
  BY <1>6, <1>7, <1>8, <1>9, <1>10 DEF Inv

LEMMA HeadAndTail ==
  ASSUME NEW S, NEW q \in Seq(S), q # <<>>
  PROVE  Elements(q) = Elements(Tail(q)) \union {Head(q)}
<1>1. ASSUME NEW i \in DOMAIN q, i # 1 PROVE q[i] \in Elements(Tail(q))
  <2>1. i - 1 \in DOMAIN Tail(q) /\ Tail(q)[i - 1] = q[i]
    BY <1>1
  <2> QED
    BY <2>1 DEF Elements
<1>2. ASSUME NEW i \in DOMAIN Tail(q) PROVE Tail(q)[i] \in Elements(q)
  <2>1. i + 1 \in DOMAIN q /\ Tail(q)[i] = q[i + 1]
    BY <1>2
  <2> QED
    BY <2>1 DEF Elements
<1>3. 1 \in DOMAIN q /\ Head(q) = q[1]
  OBVIOUS
<1> QED
  BY <1>1, <1>2, <1>3 DEF Elements

LEMMA TailInOrder ==
  ASSUME NEW q \in Seq(Commands), q # <<>>,
         \A i, j \in DOMAIN q : i < j => q[i] <= q[j]
  PROVE  /\ \A i, j \in DOMAIN Tail(q) : i < j => Tail(q)[i] <= Tail(q)[j]
         /\ \A i \in DOMAIN Tail(q) : Head(q) <= Tail(q)[i]
<1>1. ASSUME NEW i \in DOMAIN Tail(q)
      PROVE  i + 1 \in DOMAIN q /\ Tail(q)[i] = q[i + 1] /\ i \in Nat /\ 1 < i + 1
  BY <1>1
<1>2. 1 \in DOMAIN q /\ Head(q) = q[1]
  OBVIOUS
<1>3. ASSUME NEW i \in DOMAIN Tail(q), NEW j \in DOMAIN Tail(q), i < j
      PROVE  Tail(q)[i] <= Tail(q)[j]
  <2>1. i + 1 < j + 1
    BY <1>1, <1>3
  <2> QED
    BY <1>1, <2>1
<1>4. ASSUME NEW i \in DOMAIN Tail(q) PROVE Head(q) <= Tail(q)[i]
  BY <1>1, <1>2
<1> QED
  BY <1>3, <1>4

LEMMA ReceiveKeepsInv ==
  ASSUME Inv, TypeOK', Receive, UNCHANGED panelVars PROVE Inv'
<1> DEFINE c == Head(down[link])
<1>1. /\ link \in Sessions /\ reader = Idle
      /\ down[link] \in Seq(Commands) /\ down[link] # <<>>
      /\ c \in Commands /\ c = down[link][1]
      /\ Tail(down[link]) \in Seq(Commands)
  BY DEF Receive, Inv, TypeOK, WireTypeOK
<1>2. /\ reader' = [step |-> "acked", cmd |-> c]
      /\ down' = [down EXCEPT ![link] = Tail(@)]
      /\ up' = Posted(link, Ack(c))
      /\ UNCHANGED <<used, link, sock, cacheVars, queue, running, executions, panelVars>>
  BY DEF Receive
<1>3. down'[link] = Tail(down[link])
  BY <1>1, <1>2 DEF Inv, TypeOK, WireTypeOK
<1>4. /\ Elements(down[link]) = Elements(Tail(down[link])) \union {c}
      /\ Incoming = Elements(down[link])
      /\ Incoming' = Elements(Tail(down[link])) \union {c}
  <2>1. Elements(down[link]) = Elements(Tail(down[link])) \union {c}
    BY <1>1, HeadAndTail
  <2>2. Incoming = Elements(down[link])
    BY <1>1 DEF Incoming, Idle, Sessions, NoSession
  <2>3. Incoming' = Elements(Tail(down[link])) \union {c}
    BY <1>1, <1>2, <1>3 DEF Incoming, Sessions, NoSession
  <2> QED
    BY <2>1, <2>2, <2>3
<1>5. Mine' = Mine
  BY <1>2 DEF Mine, cacheVars
<1>6. Announced' \subseteq Announced \union {c}
  <2> SUFFICES ASSUME NEW a \in Commands, a # c, NEW t \in Sessions,
                      NEW i \in DOMAIN up'[t], IsAck(up'[t][i], a)
               PROVE  \E j \in DOMAIN up[t] : IsAck(up[t][j], a)
    BY DEF Announced
  <2>1. ~IsAck(Ack(c), a) /\ up[t] \in Seq(Messages)
    BY DEF Ack, IsAck, Inv, TypeOK, WireTypeOK
  <2>2. up'[t] = up[t] \/ up'[t] = Append(up[t], Ack(c))
    BY <1>2 DEF Posted, Inv, TypeOK, WireTypeOK
  <2> QED
    BY <2>1, <2>2
<1>7. RowsCreated' /\ TouchedInOrder'
  BY <1>2, <1>4, <1>5, <1>6, AgentKeepsOrder DEF Touched
<1>8. CacheShape' /\ DiskBound' /\ RememberedInMemory' /\ RememberedOnDisk'
  BY <1>2, <1>4, <1>5, AgentKeepsMemory
<1>9. SessionsInUse'
  <2>1. link # NoSession /\ active' = active /\ link <= used
    BY <1>1 DEF Sessions, NoSession, panelVars, Inv, SessionsInUse
  <2>2. \A t \in Sessions : t > used => down'[t] = <<>>
    BY <1>1, <1>2, <2>1 DEF Inv, SessionsInUse, TypeOK, WireTypeOK, Sessions
  <2> QED
    BY <1>2, <2>1, <2>2 DEF Inv, SessionsInUse
<1>10. IncomingInOrder'
  <2>1. \A i, j \in DOMAIN down[link] : i < j => down[link][i] <= down[link][j]
    <3>1. link # NoSession
      BY <1>1 DEF Sessions, NoSession
    <3> QED
      BY <3>1 DEF Inv, IncomingInOrder
  <2>2. \A i, j \in DOMAIN down'[link] : i < j => down'[link][i] <= down'[link][j]
    BY <1>1, <1>3, <2>1, TailInOrder
  <2>3. \A i \in DOMAIN down'[link] : c <= down'[link][i]
    BY <1>1, <1>3, <2>1, TailInOrder
  <2>4. \A x \in Incoming' : \A d \in Mine' : d <= x
    BY <1>4, <1>5 DEF Inv, IncomingInOrder
  <2> QED
    BY <1>2, <2>2, <2>3, <2>4 DEF IncomingInOrder
<1>11. OwnedOnce' /\ PendingHeld' /\ AtMostOnce'
  BY <1>1, <1>2 DEF Inv, OwnedOnce, PendingHeld, AtMostOnce, cacheVars, Idle
<1> QED
  BY <1>7, <1>8, <1>9, <1>10, <1>11 DEF Inv

\* The sessions stay as they are when only the agent's threads move.
LEMMA ThreadsKeepSessions ==
  ASSUME Inv, TypeOK', UNCHANGED <<used, link, sock, down, active>>,
         reader.step # "idle" \/ reader' = reader
  PROVE  SessionsInUse'
  BY DEF Inv, SessionsInUse, Idle

\* Admitting the command at hand takes nothing else out of order.
LEMMA ReaderKeepsIncoming ==
  ASSUME Inv, TypeOK', UNCHANGED <<link, down>>,
         reader' = reader \/ reader'.step # "acked",
         Mine' \subseteq Mine
  PROVE  Incoming' \subseteq Incoming /\ IncomingInOrder'
<1>1. Incoming' \subseteq Incoming
  BY DEF Incoming
<1> QED
  BY <1>1 DEF Inv, IncomingInOrder

\* Answers from the cache and of waiting goroutines.
LEMMA AnswersKeepInv ==
  ASSUME Inv, TypeOK', ReplayCached \/ JoinPending \/ ReplayPending,
         UNCHANGED panelVars
  PROVE  Inv'
<1>1. /\ UNCHANGED <<used, link, sock, down, cacheVars, queue, running, executions, active>>
      /\ reader' = reader \/ (reader.step = "acked" /\ reader' = Idle)
  <2>1. CASE ReplayCached
    BY <2>1 DEF ReplayCached, BeginCached, Reply, panelVars
  <2>2. CASE JoinPending
    BY <2>2 DEF JoinPending, BeginJoin, wireVars, panelVars
  <2>3. CASE ReplayPending
    BY <2>3 DEF ReplayPending, Reply, panelVars
  <2> QED
    BY <2>1, <2>2, <2>3
<1>2. Announced' \subseteq Announced
  <2>1. CASE ReplayCached
    <3>1. reader.cmd \in Commands /\ up' = Posted(link, ResultOf(reader.cmd, completed[reader.cmd]))
      BY <2>1 DEF ReplayCached, Reply, Inv, TypeOK, AgentTypeOK, Idle
    <3> QED
      BY <3>1, ReplyAnnouncesNothing DEF Inv
  <2>2. CASE JoinPending
    BY <2>2 DEF JoinPending, wireVars, Announced
  <2>3. CASE ReplayPending
    <3>1. PICK w \in waiters : up' = Posted(link, ResultOf(w.cmd, w.result))
      BY <2>3 DEF ReplayPending, Reply
    <3>2. w.cmd \in Commands
      BY DEF Inv, TypeOK, AgentTypeOK
    <3> QED
      BY <3>1, <3>2, ReplyAnnouncesNothing DEF Inv
  <2> QED
    BY <2>1, <2>2, <2>3
<1>3. Mine' = Mine
  BY <1>1 DEF Mine, cacheVars
<1>4. Incoming' \subseteq Incoming /\ IncomingInOrder'
  BY <1>1, <1>3, ReaderKeepsIncoming DEF Idle
<1>5. RowsCreated' /\ TouchedInOrder'
  BY <1>2, <1>3, <1>4, AgentKeepsOrder DEF Touched
<1>6. CacheShape' /\ DiskBound' /\ RememberedInMemory' /\ RememberedOnDisk'
  BY <1>1, <1>3, <1>4, AgentKeepsMemory
<1>7. SessionsInUse'
  BY <1>1, ThreadsKeepSessions
<1>8. OwnedOnce' /\ PendingHeld' /\ AtMostOnce'
  BY <1>1 DEF Inv, OwnedOnce, PendingHeld, AtMostOnce, cacheVars, Idle
<1> QED
  BY <1>4, <1>5, <1>6, <1>7, <1>8 DEF Inv

LEMMA EnqueueKeepsInv ==
  ASSUME Inv, TypeOK', Enqueue, UNCHANGED panelVars PROVE Inv'
<1> DEFINE e == [session |-> link, cmd |-> reader.cmd]
<1>1. /\ UNCHANGED <<used, link, sock, up, down, cacheVars, running, executions, active>>
      /\ reader.step = "owned" /\ reader' = Idle
      /\ Len(queue) < QueueCapacity /\ queue' = Append(queue, e)
  BY DEF Enqueue, wireVars, panelVars
<1>2. Mine' = Mine /\ Announced' = Announced
  BY <1>1 DEF Mine, Announced, cacheVars
<1>3. Incoming' \subseteq Incoming /\ IncomingInOrder'
  BY <1>1, <1>2, ReaderKeepsIncoming DEF Idle
<1>4. RowsCreated' /\ TouchedInOrder'
  BY <1>2, <1>3, AgentKeepsOrder DEF Touched
<1>5. CacheShape' /\ DiskBound' /\ RememberedInMemory' /\ RememberedOnDisk'
  BY <1>1, <1>2, <1>3, AgentKeepsMemory
<1>6. SessionsInUse'
  BY <1>1, ThreadsKeepSessions
<1>7. queue \in Seq(Jobs) /\ e.cmd = reader.cmd
  BY DEF Inv, TypeOK, AgentTypeOK
<1>8. OwnedOnce'
  <2>1. reader.cmd \in pending /\ executions[reader.cmd] = 0
    BY <1>1 DEF Inv, OwnedOnce
  <2>2. ASSUME NEW i \in DOMAIN queue'
        PROVE  \/ i \in DOMAIN queue /\ queue'[i] = queue[i]
               \/ i = Len(queue) + 1 /\ queue'[i] = e
    BY <1>1, <1>7, <2>2
  <2>3. \A i \in DOMAIN queue' :
          queue'[i].cmd \in pending /\ executions[queue'[i].cmd] = 0
    BY <1>7, <2>1, <2>2 DEF Inv, OwnedOnce
  <2>4. \A i, j \in DOMAIN queue' : i # j => queue'[i].cmd # queue'[j].cmd
    BY <1>1, <1>7, <2>2 DEF Inv, OwnedOnce
  <2> QED
    BY <1>1, <2>3, <2>4 DEF Inv, OwnedOnce, cacheVars, Idle
<1>9. PendingHeld'
  <2>1. Len(queue') <= QueueCapacity
    BY <1>1, <1>7, QueueCapacityAssumption
  <2>2. ASSUME NEW i \in DOMAIN queue PROVE i \in DOMAIN queue' /\ queue'[i] = queue[i]
    BY <1>1, <1>7, <2>2
  <2>3. Len(queue) + 1 \in DOMAIN queue' /\ queue'[Len(queue) + 1] = e
    BY <1>1, <1>7
  <2> QED
    BY <1>1, <1>7, <2>1, <2>2, <2>3 DEF Inv, PendingHeld, cacheVars
<1>10. AtMostOnce'
  BY <1>1 DEF Inv, AtMostOnce
<1> QED
  BY <1>3, <1>4, <1>5, <1>6, <1>8, <1>9, <1>10 DEF Inv

LEMMA StartKeepsInv ==
  ASSUME Inv, TypeOK', StartExecution, UNCHANGED panelVars PROVE Inv'
<1> DEFINE c == Head(queue).cmd
<1>1. /\ UNCHANGED <<used, link, sock, up, down, cacheVars, reader, active>>
      /\ running = Nothing /\ queue # <<>>
      /\ running' = Head(queue) /\ queue' = Tail(queue)
      /\ executions' = [executions EXCEPT ![c] = @ + 1]
  BY DEF StartExecution, wireVars, panelVars
<1>2. /\ queue \in Seq(Jobs) /\ Head(queue) = queue[1] /\ 1 \in DOMAIN queue
      /\ executions \in [Commands -> Nat] /\ c \in Commands
  BY <1>1 DEF Inv, TypeOK, AgentTypeOK, Jobs
<1>3. c \in pending /\ executions[c] = 0 /\ executions'[c] = 1
  BY <1>1, <1>2 DEF Inv, OwnedOnce
<1>4. \A d \in Commands : d # c => executions'[d] = executions[d]
  BY <1>1, <1>2
<1>5. Mine' = Mine
  BY <1>1, <1>2, <1>3, <1>4 DEF Mine, cacheVars
<1>6. Announced' = Announced
  BY <1>1 DEF Announced
<1>7. Incoming' \subseteq Incoming /\ IncomingInOrder'
  BY <1>1, <1>5, ReaderKeepsIncoming
<1>8. RowsCreated' /\ TouchedInOrder'
  BY <1>5, <1>6, <1>7, AgentKeepsOrder DEF Touched
<1>9. CacheShape' /\ DiskBound' /\ RememberedInMemory' /\ RememberedOnDisk'
  BY <1>1, <1>5, <1>7, AgentKeepsMemory
<1>10. SessionsInUse'
  BY <1>1, ThreadsKeepSessions
<1>11. ASSUME NEW i \in DOMAIN queue'
       PROVE  i + 1 \in DOMAIN queue /\ queue'[i] = queue[i + 1] /\ i + 1 # 1
  BY <1>1, <1>2, <1>11
<1>12. ASSUME NEW i \in DOMAIN queue PROVE queue[i].cmd \in Commands
  <2>1. queue[i] \in Jobs
    BY <1>2, <1>12
  <2> QED
    BY <2>1 DEF Jobs
<1>13. OwnedOnce'
  <2>1. ASSUME NEW i \in DOMAIN queue'
        PROVE  /\ queue'[i].cmd \in pending /\ executions'[queue'[i].cmd] = 0
               /\ reader.step = "owned" => queue'[i].cmd # reader.cmd
    <3>1. queue'[i].cmd # c /\ queue'[i].cmd \in Commands
      BY <1>2, <1>11, <1>12, <2>1 DEF Inv, OwnedOnce
    <3> QED
      BY <1>4, <1>11, <2>1, <3>1 DEF Inv, OwnedOnce
  <2>2. ASSUME NEW i \in DOMAIN queue', NEW j \in DOMAIN queue', i # j
        PROVE  queue'[i].cmd # queue'[j].cmd
    <3>1. i + 1 # j + 1
      BY <1>1, <1>2, <2>2
    <3> QED
      BY <1>11, <2>2, <3>1 DEF Inv, OwnedOnce
  <2>3. reader.step = "owned" =>
          reader.cmd \in pending /\ executions'[reader.cmd] = 0
    <3>1. reader.step = "owned" => reader.cmd # c /\ reader.cmd \in Commands
      BY <1>2 DEF Inv, OwnedOnce, TypeOK, AgentTypeOK, Idle
    <3> QED
      BY <1>4, <3>1 DEF Inv, OwnedOnce
  <2> QED
    BY <1>1, <1>3, <2>1, <2>2, <2>3 DEF OwnedOnce, cacheVars
<1>14. PendingHeld'
  <2>1. Len(queue') <= QueueCapacity
    BY <1>1, <1>2, QueueCapacityAssumption DEF Inv, PendingHeld
  <2>2. ASSUME NEW i \in DOMAIN queue, i # 1
        PROVE  i - 1 \in DOMAIN queue' /\ queue'[i - 1] = queue[i]
    BY <1>1, <1>2, <2>2
  <2>3. Head(queue) # Nothing
    BY <1>2 DEF Nothing, Commands
  <2>4. ASSUME NEW d \in pending
        PROVE  \/ \E i \in DOMAIN queue' : queue'[i].cmd = d
               \/ reader = [step |-> "owned", cmd |-> d]
               \/ c = d
    BY <1>1, <1>2, <2>2, ZenonT(90) DEF Inv, PendingHeld
  <2> QED
    BY <1>1, <2>1, <2>3, <2>4 DEF PendingHeld, cacheVars
<1>15. AtMostOnce'
  BY <1>3, <1>4 DEF Inv, AtMostOnce
<1> QED
  BY <1>7, <1>8, <1>9, <1>10, <1>13, <1>14, <1>15 DEF Inv

\* When the command at hand is unknown to the cache, nothing the agent owned
\* before can come back.
LEMMA UnknownIsFirst ==
  ASSUME Inv, reader.step = "acked", completed[reader.cmd] = NoResult,
         reader.cmd \notin pending
  PROVE  \A d \in Mine : ~Redeliverable(d)
<1> DEFINE c == reader.cmd
<1> SUFFICES ASSUME NEW d \in Mine, Redeliverable(d) PROVE FALSE
  OBVIOUS
<1>1. c \in Commands /\ c \in Incoming /\ d <= c
  <2>1. c \in Incoming
    BY DEF Incoming
  <2>2. c \in Commands
    BY DEF Inv, TypeOK, AgentTypeOK, Idle
  <2> QED
    BY <2>1, <2>2 DEF Inv, IncomingInOrder
<1>2. c \in Touched /\ d \in Touched /\ d \in Commands
  BY <1>1 DEF Touched, Mine, Inv, TypeOK, CacheTypeOK
<1>3. d = c
  <2>1. CASE d \in Incoming /\ d # c
    <3>1. PICK i \in DOMAIN down[link] : link # NoSession /\ down[link][i] = d
      BY <2>1 DEF Incoming, Elements
    <3>2. c <= d
      BY <3>1 DEF Inv, IncomingInOrder
    <3> QED
      BY <1>1, <1>2, <3>2 DEF Commands
  <2>2. CASE Unfinished(d) /\ d # c
    <3>1. d < c
      BY <1>1, <1>2, <2>2 DEF Commands
    <3>2. status[d] \in Terminal
      BY <1>2, <3>1 DEF Inv, TouchedInOrder
    <3> QED
      BY <2>2, <3>2 DEF Unfinished, Terminal, InFlight
  <2> QED
    BY <2>1, <2>2 DEF Redeliverable
<1>4. Remembered(order, pending, d)
  BY DEF Inv, RememberedInMemory
<1>5. c \notin Elements(order)
  BY DEF Inv, CacheShape
<1> QED
  BY <1>3, <1>4, <1>5 DEF Remembered, Elements

\* A refused acceptance may leave the id in the state file.
LEMMA RefuseKeepsInv ==
  ASSUME Inv, TypeOK', RefuseUnpersisted, UNCHANGED panelVars PROVE Inv'
<1> DEFINE c == reader.cmd
<1>1. /\ UNCHANGED <<used, link, sock, down, order, completed, pending, queue,
                     running, executions, active>>
      /\ reader.step = "acked" /\ reader' = Idle /\ c \in Commands
      /\ completed[c] = NoResult /\ c \notin pending
      /\ disk' = disk \/ disk' = Snapshot(order, completed, pending \union {c})
      /\ up' = Posted(link, ResultOf(c, "failed"))
  BY DEF RefuseUnpersisted, BeginRefused, Reply, panelVars, Inv, TypeOK, AgentTypeOK, Idle
<1>2. Mine' = Mine
  BY <1>1 DEF Mine
<1>3. Announced' \subseteq Announced
  BY <1>1, ReplyAnnouncesNothing DEF Inv
<1>4. Incoming' \subseteq Incoming /\ IncomingInOrder'
  BY <1>1, <1>2, ReaderKeepsIncoming DEF Idle
<1>5. RowsCreated' /\ TouchedInOrder'
  BY <1>2, <1>3, <1>4, AgentKeepsOrder DEF Touched
<1>6. SessionsInUse'
  BY <1>1, ThreadsKeepSessions
<1>7. OwnedOnce' /\ PendingHeld' /\ AtMostOnce'
  BY <1>1 DEF Inv, OwnedOnce, PendingHeld, AtMostOnce, Idle
<1>8. CacheShape'
  BY <1>1 DEF Inv, CacheShape, Snapshot
<1>9. ASSUME NEW d, Redeliverable(d)' PROVE Redeliverable(d)
  BY <1>4, <1>9 DEF Redeliverable, Unfinished, panelVars
<1>10. RememberedInMemory'
  BY <1>1, <1>2, <1>9 DEF Inv, RememberedInMemory, Remembered
<1>11. CASE disk' = disk
  <2>1. DiskBound' /\ RememberedOnDisk'
    BY <1>2, <1>9, <1>11 DEF Inv, DiskBound, RememberedOnDisk, Remembered
  <2> QED
    BY <1>4, <1>5, <1>6, <1>7, <1>8, <1>10, <2>1 DEF Inv
<1>12. CASE disk' = Snapshot(order, completed, pending \union {c})
  <2>1. disk'.order = order /\ disk'.accepted = pending \union {c}
    BY <1>12 DEF Snapshot
  <2>2. DiskBound'
    <3>1. Cardinality(pending) <= QueueCapacity + 1
      BY <1>1, PendingSmall DEF Inv
    <3>2. Cardinality(pending \union {c}) = Cardinality(pending) + 1
          /\ Cardinality(pending) \in Nat
      BY <1>1, CommandsFinite, FS_AddElement DEF Inv, TypeOK, CacheTypeOK
    <3> QED
      BY <2>1, <3>1, <3>2, QueueCapacityAssumption DEF DiskBound
  <2>3. \A d \in Mine : ~Redeliverable(d)
    BY <1>1, UnknownIsFirst
  <2>4. RememberedOnDisk'
    BY <1>2, <1>9, <2>1, <2>3 DEF RememberedOnDisk, Remembered
  <2> QED
    BY <1>4, <1>5, <1>6, <1>7, <1>8, <1>10, <2>2, <2>4 DEF Inv
<1> QED
  BY <1>1, <1>11, <1>12

LEMMA OwnKeepsInv ==
  ASSUME Inv, TypeOK', TakeOwnership, UNCHANGED panelVars PROVE Inv'
<1> DEFINE c == reader.cmd
<1>1. /\ UNCHANGED <<used, link, sock, up, down, order, completed, queue,
                     running, executions, active>>
      /\ reader.step = "acked" /\ c \in Commands
      /\ reader' = [step |-> "owned", cmd |-> c]
      /\ completed[c] = NoResult /\ c \notin pending
      /\ pending' = pending \union {c}
      /\ disk' = Snapshot(order, completed, pending')
  BY DEF TakeOwnership, BeginOwn, wireVars, panelVars, Inv, TypeOK, AgentTypeOK, Idle
<1>2. c \in Incoming /\ \A d \in Mine : d <= c /\ ~Redeliverable(d)
  BY <1>1, UnknownIsFirst DEF Incoming, Inv, IncomingInOrder
<1>3. c \in Commands /\ Mine \subseteq Commands
  BY <1>1 DEF Mine, Inv, TypeOK, CacheTypeOK
<1>4. executions[c] = 0
  <2>1. Redeliverable(c)
    BY <1>2 DEF Redeliverable
  <2> QED
    BY <1>1, <1>2, <2>1 DEF Mine, Inv, TypeOK, AgentTypeOK
<1>5. Mine' = Mine \union {c}
  BY <1>1 DEF Mine
<1>6. Announced' = Announced
  BY <1>1 DEF Announced
<1>7. Incoming' \subseteq Incoming
  BY <1>1 DEF Incoming
<1>8. IncomingInOrder'
  <2>1. ASSUME NEW x \in Incoming' PROVE c <= x
    <3>1. PICK i \in DOMAIN down[link] : link # NoSession /\ down[link][i] = x
      BY <1>1, <2>1 DEF Incoming, Elements
    <3> QED
      BY <1>1, <3>1 DEF Inv, IncomingInOrder
  <2>2. \A x \in Incoming' : \A d \in Mine' : d <= x
    BY <1>5, <1>7, <2>1 DEF Inv, IncomingInOrder
  <2> QED
    BY <1>1, <2>2 DEF Inv, IncomingInOrder
<1>9. RowsCreated' /\ TouchedInOrder'
  BY <1>2, <1>5, <1>6, <1>7, AgentKeepsOrder DEF Touched
<1>10. SessionsInUse'
  BY <1>1, ThreadsKeepSessions
<1>11. OwnedOnce'
  BY <1>1, <1>4 DEF Inv, OwnedOnce
<1>12. PendingHeld'
  BY <1>1 DEF Inv, PendingHeld
<1>13. CacheShape'
  BY <1>1 DEF Inv, CacheShape, Snapshot
<1>14. DiskBound'
  <2>1. Cardinality(pending) <= QueueCapacity + 1
    BY <1>1, PendingSmall DEF Inv
  <2>2. Cardinality(pending \union {c}) = Cardinality(pending) + 1
        /\ Cardinality(pending) \in Nat
    BY <1>1, CommandsFinite, FS_AddElement DEF Inv, TypeOK, CacheTypeOK
  <2>3. disk'.accepted = pending \union {c}
    BY <1>1 DEF Snapshot
  <2> QED
    BY <2>1, <2>2, <2>3, QueueCapacityAssumption DEF DiskBound
<1>15. \A d \in Mine' : Redeliverable(d)' => d = c
  BY <1>2, <1>5, <1>7 DEF Redeliverable, Unfinished, panelVars
<1>16. RememberedInMemory' /\ RememberedOnDisk'
  BY <1>1, <1>15 DEF RememberedInMemory, RememberedOnDisk, Remembered, Snapshot
<1>17. AtMostOnce'
  BY <1>1 DEF Inv, AtMostOnce
<1> QED
  BY <1>8, <1>9, <1>10, <1>11, <1>12, <1>13, <1>14, <1>16, <1>17 DEF Inv

\* The two ways a command ends: rejected by a full queue, or executed.
LEMMA CompleteKeepsInv ==
  ASSUME Inv, TypeOK', RejectFull \/ FinishExecution, UNCHANGED panelVars
  PROVE  Inv'
<1> DEFINE c == IF RejectFull THEN reader.cmd ELSE running.cmd
<1>1. PICK r \in Results :
        /\ Complete(c, r)
        /\ \E s : up' = Posted(s, ResultOf(c, r))
  <2>1. CASE RejectFull
    BY <2>1 DEF RejectFull, Reply, Results
  <2>2. CASE ~RejectFull
    BY <2>2 DEF FinishExecution, Reply, Results
  <2> QED
    BY <2>1, <2>2
<1>2. /\ UNCHANGED <<used, link, sock, down, queue, executions, active>>
      /\ \/ reader.step = "owned" /\ reader' = Idle /\ c = reader.cmd /\ running' = running
         \/ running # Nothing /\ running' = Nothing /\ c = running.cmd /\ reader' = reader
  <2>1. CASE RejectFull
    BY <2>1 DEF RejectFull, Reply, panelVars
  <2>2. CASE ~RejectFull
    BY <2>2 DEF FinishExecution, Reply, panelVars
  <2> QED
    BY <2>1, <2>2
<1> HIDE DEF c
<1>3. c \in pending /\ c \in Commands /\ completed[c] = NoResult
  BY <1>2 DEF Inv, OwnedOnce, CacheShape, TypeOK, CacheTypeOK
<1>4. pending' = pending \ {c} /\ order' = Trim(Append(order, c))
  BY <1>1, <1>3 DEF Complete
<1>5. Mine' \subseteq Mine
  BY <1>2, <1>4 DEF Mine
<1>6. Announced' \subseteq Announced
  BY <1>1, <1>3, ReplyAnnouncesNothing DEF Inv
<1>7. Incoming' \subseteq Incoming /\ IncomingInOrder'
  BY <1>2, <1>5, ReaderKeepsIncoming DEF Idle
<1>8. RowsCreated' /\ TouchedInOrder'
  BY <1>5, <1>6, <1>7, AgentKeepsOrder DEF Touched
<1>9. SessionsInUse'
  BY <1>2, ThreadsKeepSessions
<1>10. OwnedOnce'
  <2>1. ASSUME NEW i \in DOMAIN queue PROVE queue[i].cmd # c
    BY <1>2, <2>1 DEF Inv, OwnedOnce
  <2>2. reader.step = "owned" /\ running # Nothing => reader.cmd # running.cmd
    BY DEF Inv, OwnedOnce
  <2> QED
    BY <1>2, <1>4, <2>1, <2>2 DEF Inv, OwnedOnce, Idle
<1>11. PendingHeld'
  BY <1>2, <1>4 DEF Inv, PendingHeld
<1>12. CacheShape'
  <2> DEFINE o == Append(order, c)
             kept == [completed EXCEPT ![c] = r]
  <2>1. o \in Seq(Commands) /\ Elements(o) = Elements(order) \union {c}
    BY <1>3, AppendElements DEF Inv, TypeOK, CacheTypeOK
  <2>2. Elements(order') \subseteq Elements(o)
    BY <1>4, <2>1, TrimElements
  <2>3. completed' = Keep(order', kept)
    BY <1>1 DEF Complete
  <2>4. \A d \in Elements(o) : d \in Commands /\ kept[d] # NoResult
    BY <1>3, <2>1 DEF Inv, CacheShape, TypeOK, CacheTypeOK, Results, NoResult
  <2>5. Elements(order') = {d \in Commands : completed'[d] # NoResult}
    BY <2>2, <2>3, <2>4 DEF Keep
  <2>6. \A d \in pending' : completed'[d] = NoResult
    BY <1>4, <2>1, <2>2, <2>3 DEF Keep, Inv, CacheShape, TypeOK, CacheTypeOK
  <2>7. disk' = disk \/ disk' = Snapshot(order', completed', pending')
    BY <1>1 DEF Complete
  <2> QED
    BY <2>5, <2>6, <2>7 DEF Inv, CacheShape, Snapshot
<1>13. Cardinality(pending) <= QueueCapacity + 2
  BY PendingSmall DEF Inv
<1>14. disk' = disk \/ disk' = Snapshot(order', completed', pending')
  BY <1>1 DEF Complete
<1>15. DiskBound'
  <2>1. Cardinality(pending') <= Cardinality(pending)
        /\ Cardinality(pending') \in Nat /\ Cardinality(pending) \in Nat
    <3>1. pending \in SUBSET Commands /\ pending' \in SUBSET Commands
      BY <1>4 DEF Inv, TypeOK, CacheTypeOK
    <3>2. /\ IsFiniteSet(pending)
          /\ Cardinality(pending') \in Nat /\ Cardinality(pending) \in Nat
      BY <3>1, CommandsFinite
    <3> QED
      BY <1>4, <3>2, FS_Subset
  <2> QED
    BY <1>13, <1>14, <2>1, QueueCapacityAssumption DEF Inv, DiskBound, Snapshot
<1>16. ASSUME NEW d \in Mine', Redeliverable(d)'
       PROVE  /\ d \in Commands /\ Remembered(order', pending', d)
              /\ Remembered(disk.order, disk.accepted, d)
  <2>1. d \in Mine /\ Redeliverable(d)
    BY <1>5, <1>7, <1>16 DEF Redeliverable, Unfinished, panelVars
  <2>2. d \in Commands
    BY <2>1 DEF Mine, Inv, TypeOK, CacheTypeOK
  <2>3. Remembered(order, pending, d) /\ Remembered(disk.order, disk.accepted, d)
    BY <2>1 DEF Inv, RememberedInMemory, RememberedOnDisk
  <2> QED
    BY <1>1, <1>3, <1>13, <2>2, <2>3, CompleteRemembers DEF Inv, TypeOK
<1>17. RememberedInMemory' /\ RememberedOnDisk'
  BY <1>14, <1>16 DEF RememberedInMemory, RememberedOnDisk, Snapshot
<1>18. AtMostOnce'
  BY <1>2 DEF Inv, AtMostOnce
<1> QED
  BY <1>7, <1>8, <1>9, <1>10, <1>11, <1>12, <1>15, <1>17, <1>18 DEF Inv

\* What the new process reads from the file, every accepted id at the end.
LEMMA ReloadRemembers ==
  ASSUME CacheTypeOK, CacheTypeOK', DiskBound, Reload, NEW d \in Commands,
         Remembered(disk.order, disk.accepted, d)
  PROVE  Remembered(order', {}, d)
<1>1. PICK a \in IdOrders(disk.accepted) : order' = Trim(disk.order \o a)
  BY DEF Reload
<1> DEFINE n == Len(disk.order)
           o == disk.order \o a
<1>2. /\ disk.order \in Seq(Commands) /\ a \in Seq(Commands) /\ Elements(a) = disk.accepted
      /\ Len(a) = Cardinality(disk.accepted) /\ disk.accepted \in SUBSET Commands
  BY IdOrderType DEF CacheTypeOK
<1>3. /\ o \in Seq(Commands) /\ Len(o) = n + Len(a) /\ n \in Nat /\ Len(a) \in Nat
      /\ \A i \in DOMAIN disk.order : i \in DOMAIN o /\ o[i] = disk.order[i]
      /\ \A j \in DOMAIN a : n + j \in DOMAIN o /\ o[n + j] = a[j]
  BY <1>2, SMTT(90)
<1>4. Len(a) <= CacheLimit
  BY <1>2, <1>3, QueueCapacityAssumption, CacheLimitAssumption, RetentionAssumption
     DEF DiskBound
<1>5. \E i \in DOMAIN o : o[i] = d /\ Len(o) - i < CacheLimit
  <2>1. CASE d \in disk.accepted
    <3>1. PICK j \in DOMAIN a : a[j] = d
      BY <1>2, <2>1 DEF Elements
    <3>2. j \in 1..Len(a)
      BY <1>2, <3>1
    <3>3. n + j \in DOMAIN o /\ o[n + j] = d
      BY <1>3, <3>1
    <3>4. Len(o) - (n + j) < CacheLimit
      BY <1>3, <1>4, <3>2, CacheLimitAssumption
    <3> QED
      BY <3>3, <3>4
  <2>2. CASE d \notin disk.accepted
    <3>1. PICK i \in DOMAIN disk.order :
            disk.order[i] = d /\ n - i + Cardinality(disk.accepted) < CacheLimit
      BY <2>2 DEF Remembered
    <3>2. i \in 1..n
      BY <1>2, <3>1
    <3>3. Len(o) - i < CacheLimit
      BY <1>2, <1>3, <3>1, <3>2, CacheLimitAssumption
    <3> QED
      BY <1>3, <3>1, <3>3
  <2> QED
    BY <2>1, <2>2
<1>6. PICK i \in DOMAIN o : o[i] = d /\ Len(o) - i < CacheLimit
  BY <1>5
<1> HIDE DEF o
<1>7. PICK j \in DOMAIN Trim(o) : Trim(o)[j] = o[i] /\ Len(Trim(o)) - j = Len(o) - i
  BY <1>3, <1>6, TrimKeepsRecent
<1>8. order' = Trim(o)
  BY <1>1 DEF o
<1>9. Cardinality({}) = 0
  BY FS_EmptySet
<1>10. order'[j] = d /\ j \in DOMAIN order' /\ Len(order') - j = Len(o) - i
  BY <1>6, <1>7, <1>8
<1>11. Len(o) - i \in Int
  BY <1>3, <1>6
<1>12. Len(order') - j + 0 = Len(o) - i
  BY <1>10, <1>11
<1> QED
  BY <1>6, <1>9, <1>10, <1>12 DEF Remembered

LEMMA ReloadShape ==
  ASSUME CacheTypeOK, CacheShape, Reload PROVE CacheShape'
<1>1. PICK a \in IdOrders(disk.accepted) : order' = Trim(disk.order \o a)
  BY DEF Reload
<1> DEFINE loaded == [c \in Commands |->
                  IF c \in disk.accepted THEN "unknown" ELSE disk.completed[c]]
<1>2. /\ disk.order \in Seq(Commands) /\ a \in Seq(Commands)
      /\ Elements(a) = disk.accepted /\ disk.accepted \in SUBSET Commands
  BY IdOrderType DEF CacheTypeOK
<1>3. disk.order \o a \in Seq(Commands)
  BY <1>2
<1>4. Elements(disk.order \o a) \subseteq Elements(disk.order) \union disk.accepted
  BY <1>2 DEF Elements
<1>5. Elements(order') \subseteq Elements(disk.order) \union disk.accepted
  BY <1>1, <1>3, <1>4, TrimElements
<1>6. completed' = Keep(order', loaded) /\ pending' = {}
      /\ disk' = Snapshot(order', completed', pending')
  BY DEF Reload
<1>7. \A d \in Elements(disk.order) \union disk.accepted :
        d \in Commands /\ loaded[d] # NoResult
  BY <1>2 DEF CacheShape, NoResult
<1>8. Elements(order') = {d \in Commands : completed'[d] # NoResult}
  BY <1>5, <1>6, <1>7 DEF Keep
<1> QED
  BY <1>6, <1>8 DEF CacheShape, Snapshot

LEMMA RestartKeepsInv ==
  ASSUME Inv, TypeOK', AgentRestart, UNCHANGED panelVars PROVE Inv'
<1>1. /\ UNCHANGED <<used, sock, executions, active>>
      /\ reader' = Idle /\ queue' = <<>> /\ running' = Nothing /\ link' = NoSession
      /\ Reload /\ pending' = {}
  BY DEF AgentRestart, Reload, panelVars
<1>2. Incoming' = {} /\ Mine' \subseteq Mine
  BY <1>1 DEF Incoming, Mine, Idle
<1>3. Announced' \subseteq Announced
  <2>1. CASE link = NoSession
    BY <2>1 DEF AgentRestart, Announced
  <2>2. CASE link # NoSession
    <3>1. link \in Sessions
      BY <2>2 DEF Inv, TypeOK, WireTypeOK
    <3>2. PICK kept \in Prefixes(up[link]) : up' = [up EXCEPT ![link] = kept]
      BY <2>2 DEF AgentRestart
    <3> QED
      BY <3>1, <3>2, PrefixAnnouncesNothing DEF Inv
  <2> QED
    BY <2>1, <2>2
<1>4. RowsCreated' /\ TouchedInOrder'
  BY <1>2, <1>3, AgentKeepsOrder DEF Touched
<1>5. SessionsInUse'
  <2>1. \A s \in Sessions : s > used => down'[s] = down[s]
    <3>1. CASE link = NoSession
      BY <3>1 DEF AgentRestart
    <3>2. CASE link # NoSession
      <4>1. down' = [down EXCEPT ![link] = <<>>] /\ link <= used
        BY <3>2 DEF AgentRestart, Inv, SessionsInUse
      <4>2. link \in Int /\ used \in Int
        BY <3>2 DEF Inv, TypeOK, WireTypeOK, Sessions, NoSession
      <4> QED
        BY <4>1, <4>2 DEF Inv, TypeOK, WireTypeOK, Sessions
    <3> QED
      BY <3>1, <3>2
  <2>2. link' <= used
    BY <1>1 DEF Inv, TypeOK, WireTypeOK, NoSession
  <2> QED
    BY <1>1, <2>1, <2>2 DEF Inv, SessionsInUse
<1>6. IncomingInOrder'
  BY <1>1, <1>2 DEF IncomingInOrder
<1>7. OwnedOnce' /\ PendingHeld' /\ AtMostOnce'
  BY <1>1, QueueCapacityAssumption
     DEF OwnedOnce, PendingHeld, Inv, AtMostOnce, Idle
<1>8. CacheShape'
  BY <1>1, ReloadShape DEF Inv, TypeOK
<1>9. disk' = Snapshot(order', completed', {})
  BY <1>1 DEF Reload
<1>10. DiskBound'
  BY <1>9, FS_EmptySet, QueueCapacityAssumption DEF DiskBound, Snapshot
<1>11. ASSUME NEW d \in Mine', Redeliverable(d)'
       PROVE  Remembered(order', {}, d)
  <2>1. d \in Mine /\ Redeliverable(d)
    BY <1>2, <1>11 DEF Redeliverable, Unfinished, panelVars
  <2>2. d \in Commands
    BY <2>1 DEF Mine, Inv, TypeOK, CacheTypeOK
  <2> QED
    BY <1>1, <2>1, <2>2, ReloadRemembers DEF Inv, TypeOK, RememberedOnDisk
<1>12. RememberedInMemory' /\ RememberedOnDisk'
  BY <1>1, <1>9, <1>11 DEF RememberedInMemory, RememberedOnDisk, Snapshot
<1> QED
  BY <1>4, <1>5, <1>6, <1>7, <1>8, <1>10, <1>12 DEF Inv

-----------------------------------------------------------------------------
(* Steps of the panel.  The agent stands still: what matters is which rows *)
(* move, and that a command is only put on the wire when everything older  *)
(* is finished.                                                            *)

\* Every command before c has a terminal row.
FirstUnfinished(st, c) == \A d \in Commands : d < c => st[d] \in Terminal

\* Rows st become status', and the sessions carry at most one more command.
PanelEffect(st) ==
  /\ \A c \in Commands : st[c] \in Terminal => status'[c] \in Terminal
  /\ \A c \in Commands : status'[c] = "absent" <=> st[c] = "absent"
  /\ \A c \in Commands : status'[c] \in InFlight =>
       c \in Announced \/ st[c] \in InFlight \/ FirstUnfinished(status', c)
  /\ \A s \in Sessions :
       \/ down'[s] = down[s]
       \/ \E c \in Commands : /\ down'[s] = Append(down[s], c)
                              /\ status'[c] \in InFlight
                              /\ FirstUnfinished(status', c)

\* What a step of the panel shows the agent: rows only advance, and what comes
\* in newly is in flight.
RowsAdvance ==
  /\ \A c \in Commands : status[c] # "absent" => status'[c] # "absent"
  /\ \A c \in Commands : status[c] \in Terminal => status'[c] \in Terminal
  /\ \A c \in Incoming' : c \in Incoming \/ status'[c] \in InFlight

LEMMA PanelKeepsInv ==
  ASSUME Inv, TypeOK', UNCHANGED <<link, cacheVars, agentVars>>,
         NEW st \in [Commands -> Statuses],
         \A c \in Commands : status[c] # "absent" => st[c] # "absent",
         \A c \in Commands : status[c] \in Terminal => st[c] \in Terminal,
         \A c \in Commands : st[c] \in InFlight => status[c] \in InFlight,
         PanelEffect(st), Announced' \subseteq Announced,
         SessionsInUse', RowsCreated'
  PROVE  Inv' /\ RowsAdvance
<1>1. Mine' = Mine /\ Mine \subseteq Touched /\ Mine \subseteq Commands
  BY DEF Mine, Touched, cacheVars, agentVars, Inv, TypeOK, CacheTypeOK
<1>2. Incoming \subseteq Commands
  <2>1. link # NoSession => down[link] \in Seq(Commands)
    BY DEF Inv, TypeOK, WireTypeOK
  <2>2. reader.step = "acked" => reader.cmd \in Commands
    BY DEF Inv, TypeOK, AgentTypeOK, Idle
  <2> QED
    BY <2>1, <2>2 DEF Incoming, Elements
<1>3. ASSUME NEW c \in Commands, c \in Touched
      PROVE  status[c] # "absent" /\ FirstUnfinished(status, c)
  BY <1>3 DEF Inv, TouchedInOrder, FirstUnfinished
<1>4. ASSUME NEW c \in Commands
      PROVE  /\ status[c] # "absent" => status'[c] # "absent"
             /\ status[c] \in Terminal => status'[c] \in Terminal
  BY <1>4 DEF PanelEffect
<1>5. ASSUME NEW c \in Commands, FirstUnfinished(status, c)
      PROVE  FirstUnfinished(status', c)
  BY <1>4, <1>5 DEF FirstUnfinished
<1>6. \/ down'[link] = down[link] \/ link = NoSession
      \/ \E c \in Commands : /\ down'[link] = Append(down[link], c)
                             /\ status'[c] \in InFlight
                             /\ FirstUnfinished(status', c)
  BY DEF PanelEffect, Inv, TypeOK, WireTypeOK
<1>7. ASSUME NEW c \in Incoming'
      PROVE  /\ c \in Commands
             /\ \/ c \in Incoming
                \/ status'[c] \in InFlight /\ FirstUnfinished(status', c)
  <2>1. CASE reader.step = "acked" /\ c = reader.cmd
    BY <1>2, <2>1 DEF Incoming
  <2>2. CASE link # NoSession /\ c \in Elements(down'[link])
    <3>1. CASE down'[link] = down[link]
      BY <1>2, <2>2, <3>1 DEF Incoming
    <3>2. CASE \E d \in Commands : /\ down'[link] = Append(down[link], d)
                                   /\ status'[d] \in InFlight
                                   /\ FirstUnfinished(status', d)
      <4>1. PICK d \in Commands : /\ down'[link] = Append(down[link], d)
                                  /\ status'[d] \in InFlight
                                  /\ FirstUnfinished(status', d)
        BY <3>2
      <4>2. Elements(down'[link]) = Elements(down[link]) \union {d}
        BY <2>2, <4>1, AppendElements DEF Inv, TypeOK, WireTypeOK
      <4>3. c \in Elements(down[link]) \/ c = d
        BY <2>2, <4>2
      <4>4. CASE c \in Elements(down[link])
        BY <1>2, <2>2, <4>4 DEF Incoming
      <4>5. CASE c = d
        BY <4>1, <4>5
      <4> QED
        BY <4>3, <4>4, <4>5
    <3> QED
      BY <1>6, <2>2, <3>1, <3>2
  <2> QED
    BY <1>7, <2>1, <2>2 DEF Incoming, agentVars
<1>8. TouchedInOrder'
  <2> SUFFICES ASSUME NEW c \in Touched'
               PROVE  status'[c] # "absent" /\ FirstUnfinished(status', c)
    BY DEF TouchedInOrder, FirstUnfinished
  <2>1. c \in Commands
    BY <1>1, <1>7 DEF Touched, Announced
  <2>2. c \in Touched \/ (status'[c] \in InFlight /\ FirstUnfinished(status', c))
    <3>1. CASE c \in Mine'
      BY <1>1, <3>1
    <3>2. CASE c \in Incoming'
      BY <1>7, <3>2 DEF Touched
    <3>3. CASE c \in Announced'
      BY <3>3 DEF Touched
    <3>4. CASE status'[c] \in InFlight
      BY <2>1, <3>4 DEF PanelEffect, Touched
    <3> QED
      BY <3>1, <3>2, <3>3, <3>4 DEF Touched
  <2>3. CASE c \in Touched
    BY <1>3, <1>4, <1>5, <2>1, <2>3
  <2>4. CASE status'[c] \in InFlight /\ FirstUnfinished(status', c)
    BY <2>4 DEF InFlight
  <2> QED
    BY <2>2, <2>3, <2>4
<1>9. ASSUME NEW c \in Commands, status'[c] \in InFlight,
             NEW d \in Mine \union Incoming
      PROVE  d <= c
  <2>1. d \in Touched /\ d \in Commands
    BY <1>1, <1>2 DEF Touched
  <2>2. CASE c < d
    <3>1. status[c] \in Terminal
      BY <1>3, <2>1, <2>2 DEF FirstUnfinished
    <3> QED
      BY <1>4, <1>9, <3>1 DEF Terminal, InFlight
  <2> QED
    BY <2>1, <2>2 DEF Commands
<1>10. IncomingInOrder'
  <2>1. \A c \in Incoming' : \A d \in Mine' : d <= c
    BY <1>1, <1>7, <1>9 DEF Inv, IncomingInOrder
  <2>2. CASE link = NoSession
    BY <2>1, <2>2 DEF IncomingInOrder
  <2>3. CASE link # NoSession /\ down'[link] = down[link]
    BY <2>1, <2>3 DEF Inv, IncomingInOrder, agentVars
  <2>4. ASSUME link # NoSession, NEW c \in Commands, status'[c] \in InFlight,
               down'[link] = Append(down[link], c)
        PROVE  IncomingInOrder'
    <3>1. down[link] \in Seq(Commands)
      BY <2>4 DEF Inv, TypeOK, WireTypeOK
    <3>2. \A i \in DOMAIN down[link] : down[link][i] <= c
      BY <1>9, <2>4 DEF Incoming, Elements
    <3>3. reader.step = "acked" => reader.cmd <= c
      BY <1>9, <2>4 DEF Incoming
    <3>4. \A i, j \in DOMAIN down[link] : i < j => down[link][i] <= down[link][j]
      BY <2>4 DEF Inv, IncomingInOrder
    <3>5. \A i, j \in DOMAIN down'[link] : i < j => down'[link][i] <= down'[link][j]
      BY <2>4, <3>1, <3>2, <3>4
    <3>6. reader.step = "acked" =>
            \A i \in DOMAIN down'[link] : reader.cmd <= down'[link][i]
      BY <2>4, <3>1, <3>3 DEF Inv, IncomingInOrder
    <3> QED
      BY <2>1, <3>5, <3>6 DEF IncomingInOrder, agentVars
  <2> QED
    BY <1>6, <2>2, <2>3, <2>4
<1>11. ASSUME NEW d \in Mine, Redeliverable(d)' PROVE Redeliverable(d)
  <2>1. d \in Commands /\ status[d] # "absent"
    BY <1>1, <1>3
  <2>2. CASE d \in Incoming
    BY <2>2 DEF Redeliverable
  <2>3. CASE d \notin Incoming
    <3>1. status'[d] \in {"queued"} \union InFlight
      BY <1>7, <1>11, <2>3 DEF Redeliverable, Unfinished
    <3>2. status[d] \notin Terminal
      BY <1>4, <2>1, <3>1 DEF Terminal, InFlight
    <3> QED
      BY <2>1, <3>2 DEF Redeliverable, Unfinished, Inv, TypeOK, PanelTypeOK, Statuses
  <2> QED
    BY <2>2, <2>3
<1>12. RememberedInMemory' /\ RememberedOnDisk'
  <2>1. order' = order /\ pending' = pending /\ disk' = disk
    BY DEF cacheVars
  <2>2. RememberedInMemory'
    BY <1>1, <1>11, <2>1 DEF Inv, RememberedInMemory, Remembered
  <2>3. RememberedOnDisk'
    BY <1>1, <1>11, <2>1 DEF Inv, RememberedOnDisk, Remembered
  <2> QED
    BY <2>2, <2>3
<1>13. OwnedOnce' /\ PendingHeld' /\ AtMostOnce'
  BY DEF Inv, OwnedOnce, PendingHeld, AtMostOnce, cacheVars, agentVars
<1>14. CacheShape' /\ DiskBound'
  BY DEF Inv, CacheShape, DiskBound, cacheVars
<1>15. RowsAdvance
  BY <1>4, <1>7 DEF RowsAdvance
<1> QED
  BY <1>8, <1>10, <1>12, <1>13, <1>14, <1>15 DEF Inv

\* dispatchNext: only the oldest queued command is sent, when none is in flight.
LEMMA DispatchEffect ==
  ASSUME TypeOK, NEW st \in [Commands -> Statuses], NEW sk,
         NEW act \in Sessions \union {NoSession}, Dispatch(st, sk, act),
         \A c, d \in Commands : d < c /\ st[c] # "absent" => st[d] # "absent"
  PROVE  PanelEffect(st)
<1>1. ASSUME NEW c \in Commands
      PROVE  /\ Expired(st)[c] \in {st[c], "expired"}
             /\ st[c] \in Terminal \union InFlight \union {"absent"} => Expired(st)[c] = st[c]
             /\ Expired(st)[c] = "absent" <=> st[c] = "absent"
             /\ st[c] \in Terminal => Expired(st)[c] \in Terminal
             /\ Expired(st)[c] \in InFlight <=> st[c] \in InFlight
  BY DEF Expired, Terminal, InFlight
<1>2. CASE status' = st /\ down' = down
  BY <1>2 DEF PanelEffect
<1>3. CASE status' = Expired(st) /\ down' = down
  BY <1>1, <1>3 DEF PanelEffect
<1>4. CASE status' = Requeued(Expired(st)) /\ down' = down
  <2>1. \A c \in Commands :
          /\ status'[c] \notin InFlight
          /\ status'[c] = "absent" <=> st[c] = "absent"
          /\ st[c] \in Terminal => status'[c] \in Terminal
    BY <1>1, <1>4 DEF Requeued, InFlight, Terminal
  <2> QED
    BY <1>4, <2>1 DEF PanelEffect
<1>5. ASSUME ~HasActive(st), act # NoSession,
             NEW c \in Queued(Expired(st)),
             \A d \in Queued(Expired(st)) : c <= d,
             status' = [Expired(st) EXCEPT ![c] = "delivered"],
             down' = [down EXCEPT ![act] = Append(@, c)]
      PROVE  PanelEffect(st)
  <2>1. c \in Commands /\ Expired(st)[c] = "queued" /\ st[c] = "queued"
    BY <1>1, <1>5 DEF Queued, Expired
  <2>2. status'[c] = "delivered" /\ \A d \in Commands : d # c => status'[d] = Expired(st)[d]
    BY <1>5, <2>1 DEF Expired
  <2>3. ASSUME NEW d \in Commands, d < c PROVE status'[d] \in Terminal
    <3>1. d \notin Queued(Expired(st)) /\ d # c
      BY <1>5, <2>1, <2>3 DEF Commands
    <3>2. Expired(st)[d] # "queued"
      BY <3>1 DEF Queued
    <3>3. st[d] # "absent"
      BY <2>1, <2>3
    <3>4. st[d] \notin InFlight
      BY <1>5 DEF HasActive
    <3>5. st[d] \in Terminal \/ st[d] = "queued"
      BY <3>3, <3>4 DEF Statuses
    <3>6. Expired(st)[d] \in Terminal
      BY <1>1, <3>2, <3>5 DEF Terminal
    <3> QED
      BY <2>2, <3>1, <3>6
  <2>4. FirstUnfinished(status', c)
    BY <2>3 DEF FirstUnfinished
  <2>5. \A s \in Sessions : down'[s] = down[s] \/ down'[s] = Append(down[s], c)
    BY <1>5 DEF TypeOK, WireTypeOK
  <2>6. \A d \in Commands : status'[d] \in InFlight => d = c
    BY <1>1, <1>5, <2>2 DEF HasActive
  <2>7. \A d \in Commands : /\ status'[d] = "absent" <=> st[d] = "absent"
                            /\ st[d] \in Terminal => status'[d] \in Terminal
    BY <1>1, <2>1, <2>2 DEF Terminal
  <2>8. status'[c] \in InFlight
    BY <2>2 DEF InFlight
  <2> QED
    BY <2>1, <2>4, <2>5, <2>6, <2>7, <2>8 DEF PanelEffect
<1> QED
  BY <1>2, <1>3, <1>4, <1>5 DEF Dispatch, FirstQueued

LEMMA DispatchSessions ==
  ASSUME TypeOK, NEW st, NEW sk \in [Sessions -> SocketStates],
         NEW act \in Sessions \union {NoSession}, Dispatch(st, sk, act),
         SessionsInUse, UNCHANGED <<used, link, reader>>, act <= used,
         \A s \in Sessions : s > used => sk[s] = "new",
         \A s \in Sessions : sk[s] = "new" => s # act
  PROVE  SessionsInUse'
<1>1. used \in Nat /\ act \in Nat /\ NoSession = 0 /\ Sessions \subseteq Nat \ {0}
  BY MaxSessionsAssumption DEF TypeOK, WireTypeOK, Sessions, NoSession
<1>2. active' \in {act, NoSession}
  BY DEF Dispatch
<1>3. \A s \in Sessions : s # act => down'[s] = down[s] /\ sock'[s] = sk[s]
  BY DEF Dispatch, TypeOK, WireTypeOK
<1>4. \A s \in Sessions : sock'[s] = "new" => s # active'
  <2>1. CASE active' = NoSession
    BY <1>1, <2>1
  <2>2. CASE active' = act /\ act # NoSession
    <3>1. sock' = sk
      BY <2>2 DEF Dispatch
    <3> QED
      BY <2>2, <3>1
  <2> QED
    BY <1>2, <2>1, <2>2
<1>5. \A s \in Sessions : s > used => down'[s] = <<>> /\ sock'[s] = "new"
  <2> SUFFICES ASSUME NEW s \in Sessions, s > used
               PROVE  down'[s] = <<>> /\ sock'[s] = "new"
    OBVIOUS
  <2>1. s # act
    BY <1>1
  <2> QED
    BY <1>3, <2>1 DEF SessionsInUse
<1> QED
  BY <1>1, <1>2, <1>4, <1>5 DEF SessionsInUse

\* Taking messages off the wire announces nothing.
LEMMA ReadingAnnouncesNothing ==
  ASSUME TypeOK,
         \A s \in Sessions : \/ up'[s] = up[s] \/ up'[s] = <<>>
                             \/ up[s] # <<>> /\ up'[s] = Tail(up[s])
  PROVE  Announced' \subseteq Announced
<1> SUFFICES ASSUME NEW a \in Commands, NEW t \in Sessions, NEW i \in DOMAIN up'[t],
                    IsAck(up'[t][i], a)
             PROVE  \E j \in DOMAIN up[t] : IsAck(up[t][j], a)
  BY DEF Announced
<1>1. up[t] \in Seq(Messages)
  BY DEF TypeOK, WireTypeOK
<1>2. CASE up'[t] = up[t]
  BY <1>2
<1>3. CASE up'[t] = <<>>
  BY <1>3
<1>4. CASE up[t] # <<>> /\ up'[t] = Tail(up[t])
  <2>1. i + 1 \in DOMAIN up[t] /\ up'[t][i] = up[t][i + 1]
    BY <1>1, <1>4
  <2> QED
    BY <2>1
<1> QED
  BY <1>2, <1>3, <1>4

\* There is no gap in the created rows.
LEMMA NoGaps ==
  ASSUME TypeOK, NEW n \in Nat, NEW st, \A c \in Commands : st[c] = "absent" <=> c > n
  PROVE  \A c, d \in Commands : d < c /\ st[c] # "absent" => st[d] # "absent"
  BY DEF Commands

LEMMA CreateKeepsInv ==
  ASSUME Inv, TypeOK', CreateCommand, UNCHANGED <<cacheVars, agentVars>> PROVE Inv' /\ RowsAdvance
<1> DEFINE st == [status EXCEPT ![made'] = "queued"]
<1>1. /\ made' = made + 1 /\ made' \in Commands /\ made \in Nat
      /\ UNCHANGED <<used, link, up, reader>>
      /\ Dispatch(st, sock, active)
  BY NumCommandsAssumption
     DEF CreateCommand, Inv, TypeOK, PanelTypeOK, Commands, agentVars
<1>2. st \in [Commands -> Statuses]
  BY <1>1, StatusTypes DEF Inv, TypeOK, PanelTypeOK
<1>3. \A c \in Commands : st[c] = "absent" <=> c > made'
  BY <1>1 DEF Inv, RowsCreated, TypeOK, PanelTypeOK, Commands
<1>4. PanelEffect(st)
  <2>1. made' \in Nat /\ active \in Sessions \union {NoSession} /\ TypeOK
    BY <1>1 DEF Inv, TypeOK, PanelTypeOK
  <2>2. \A c, d \in Commands : d < c /\ st[c] # "absent" => st[d] # "absent"
    BY <1>3, <2>1, NoGaps
  <2> HIDE DEF st
  <2> QED
    BY <1>1, <1>2, <2>1, <2>2, DispatchEffect
<1>5. RowsCreated'
  BY <1>3, <1>4 DEF PanelEffect, RowsCreated
<1>6. /\ \A c \in Commands : status[c] # "absent" => st[c] # "absent"
      /\ \A c \in Commands : status[c] \in Terminal => st[c] \in Terminal
      /\ \A c \in Commands : st[c] \in InFlight => status[c] \in InFlight
  <2>1. status[made'] = "absent"
    BY <1>1 DEF Inv, RowsCreated
  <2>2. \A c \in Commands : c = made' \/ st[c] = status[c]
    BY <1>1 DEF Inv, TypeOK, PanelTypeOK
  <2>3. st[made'] = "queued"
    BY <1>1 DEF Inv, TypeOK, PanelTypeOK
  <2> QED
    BY <2>1, <2>2, <2>3 DEF Terminal, InFlight
<1>7. SessionsInUse'
  BY <1>1, DispatchSessions, ZenonT(40) DEF Inv, SessionsInUse, TypeOK, WireTypeOK, PanelTypeOK
<1>8. Announced' \subseteq Announced
  BY <1>1 DEF Announced
<1> HIDE DEF st
<1> QED
  BY <1>1, <1>2, <1>4, <1>5, <1>6, <1>7, <1>8, PanelKeepsInv

\* Steps that leave every row where it is or move it as requeueActive does.
LEMMA RowsStayInOrder ==
  ASSUME TypeOK, status' = status \/ status' = Requeued(status),
         down' = down
  PROVE  PanelEffect(status)
  BY DEF PanelEffect, Requeued, TypeOK, PanelTypeOK, InFlight, Terminal

LEMMA SameRows ==
  ASSUME Inv, PanelEffect(status), made' = made PROVE RowsCreated'
  BY DEF Inv, RowsCreated, PanelEffect

LEMMA SocketKeepsInv ==
  ASSUME Inv, TypeOK', UNCHANGED <<cacheVars, agentVars>>,
         \/ Age \/ PanelRestart
         \/ \E s \in Sessions : Open(s) \/ CloseUnbound(s) \/ SocketClosed(s)
  PROVE  Inv' /\ RowsAdvance
<1>1. /\ UNCHANGED <<used, link, down, made, reader>>
      /\ status' = status \/ status' = Requeued(status)
      /\ \A s \in Sessions : up'[s] = up[s] \/ up'[s] = <<>>
  BY DEF Age, PanelRestart, Open, CloseUnbound, SocketClosed, panelVars, wireVars,
     agentVars, Inv, TypeOK, WireTypeOK
<1>2. /\ \A s \in Sessions : s > used => sock'[s] = "new"
      /\ \A s \in Sessions : sock'[s] = "new" => sock[s] = "new"
      /\ active' \in {active, NoSession}
  <2>1. CASE Age
    BY <2>1 DEF Age, wireVars, Inv, SessionsInUse
  <2>2. CASE PanelRestart
    BY <2>2 DEF PanelRestart, Inv, SessionsInUse, TypeOK, WireTypeOK, Sessions
  <2>3. ASSUME NEW s \in Sessions, Open(s) \/ CloseUnbound(s) \/ SocketClosed(s)
        PROVE  /\ \A t \in Sessions : t > used => sock'[t] = "new"
               /\ \A t \in Sessions : sock'[t] = "new" => sock[t] = "new"
               /\ active' \in {active, NoSession}
    <3>1. /\ sock' = [sock EXCEPT ![s] = "open"] \/ sock' = [sock EXCEPT ![s] = "closed"]
          /\ active' \in {active, NoSession}
          /\ s <= used \/ sock[s] # "new"
      BY <2>3 DEF Open, CloseUnbound, SocketClosed, panelVars
    <3>2. ~(s > used)
      BY <3>1 DEF Inv, SessionsInUse, TypeOK, WireTypeOK, Sessions
    <3> QED
      BY <3>1, <3>2 DEF Inv, SessionsInUse, TypeOK, WireTypeOK
  <2> QED
    BY <2>1, <2>2, <2>3
<1>3. SessionsInUse'
  <2>1. 0 <= used /\ NoSession = 0 /\ \A s \in Sessions : s # 0
    BY DEF Inv, TypeOK, WireTypeOK, NoSession, Sessions
  <2>2. active' <= used /\ \A s \in Sessions : sock'[s] = "new" => s # active'
    BY <1>2, <2>1 DEF Inv, SessionsInUse
  <2> QED
    BY <1>1, <1>2, <2>2 DEF Inv, SessionsInUse
<1>4. PanelEffect(status)
  BY <1>1, RowsStayInOrder DEF Inv
<1>5. Announced' \subseteq Announced
  BY <1>1, ReadingAnnouncesNothing DEF Inv
<1>6. RowsCreated'
  BY <1>1, <1>4, SameRows
<1> QED
  BY <1>1, <1>3, <1>4, <1>5, <1>6, PanelKeepsInv DEF Inv, TypeOK, PanelTypeOK

LEMMA AckKeepsInv ==
  ASSUME Inv, TypeOK', UNCHANGED <<cacheVars, agentVars>>,
         NEW s \in Sessions, AckMessage(s)
  PROVE  Inv' /\ RowsAdvance
<1> DEFINE c == Head(up[s]).cmd
<1>1. /\ UNCHANGED <<used, link, sock, down, made, active, reader>>
      /\ up[s] # <<>> /\ up' = [up EXCEPT ![s] = Tail(@)]
      /\ Head(up[s]).type = "ack"
      /\ up[s] \in Seq(Messages)
  BY DEF AckMessage, agentVars, Inv, TypeOK, WireTypeOK
<1>2. \A t \in Sessions : up'[t] = up[t] \/ (up[t] # <<>> /\ up'[t] = Tail(up[t]))
  BY <1>1 DEF Inv, TypeOK, WireTypeOK
<1>3. c \in Commands => c \in Announced
  <2>1. 1 \in DOMAIN up[s] /\ IsAck(up[s][1], c)
    BY <1>1 DEF IsAck
  <2> QED
    BY <2>1 DEF Announced
<1>4. \A d \in Commands :
        \/ status'[d] = status[d]
        \/ d = c /\ status'[d] = "running" /\ status[d] \in {"queued", "delivered"}
  BY DEF AckMessage, Inv, TypeOK, PanelTypeOK
<1>5. PanelEffect(status)
  BY <1>1, <1>3, <1>4 DEF PanelEffect, Terminal, InFlight
<1>6. Announced' \subseteq Announced
  BY <1>2, ReadingAnnouncesNothing DEF Inv
<1>7. RowsCreated'
  BY <1>1, <1>5, SameRows
<1>8. SessionsInUse'
  BY <1>1 DEF Inv, SessionsInUse
<1> QED
  BY <1>1, <1>5, <1>6, <1>7, <1>8, PanelKeepsInv DEF Inv, TypeOK, PanelTypeOK

\* Handlers that end in dispatchNext on the bound session.
LEMMA HandlerKeepsInv ==
  ASSUME Inv, TypeOK', UNCHANGED <<cacheVars, agentVars>>,
         UNCHANGED <<used, link, made>>,
         NEW st \in [Commands -> Statuses], NEW sk \in [Sessions -> SocketStates],
         NEW act \in Sessions \union {NoSession}, Dispatch(st, sk, act),
         \A c \in Commands : st[c] = "absent" <=> status[c] = "absent",
         \A c \in Commands : status[c] \in Terminal => st[c] \in Terminal,
         \A c \in Commands : st[c] \in InFlight => status[c] \in InFlight,
         act <= used,
         \A s \in Sessions : s > used => sk[s] = "new",
         \A s \in Sessions : sk[s] = "new" => s # act,
         \A s \in Sessions : \/ up'[s] = up[s] \/ up'[s] = <<>>
                             \/ up[s] # <<>> /\ up'[s] = Tail(up[s])
  PROVE  Inv' /\ RowsAdvance
<1>1. \A c \in Commands : st[c] = "absent" <=> c > made
  BY DEF Inv, RowsCreated
<1>2. made \in Nat
  BY DEF Inv, TypeOK, PanelTypeOK
<1>3. PanelEffect(st)
  BY <1>1, <1>2, DispatchEffect, NoGaps DEF Inv
<1>4. RowsCreated'
  BY <1>1, <1>3 DEF PanelEffect, RowsCreated
<1>5. SessionsInUse'
  BY DispatchSessions DEF Inv, agentVars
<1>6. Announced' \subseteq Announced
  BY ReadingAnnouncesNothing DEF Inv
<1> QED
  BY <1>3, <1>4, <1>5, <1>6, PanelKeepsInv

LEMMA ResultKeepsInv ==
  ASSUME Inv, TypeOK', UNCHANGED <<cacheVars, agentVars>>,
         NEW s \in Sessions, ResultMessage(s)
  PROVE  Inv' /\ RowsAdvance
<1> DEFINE c == Head(up[s]).cmd
           r == Head(up[s]).result
           st == Finished(status, c, r)
<1>1. /\ UNCHANGED <<used, link, made>> /\ Dispatch(st, sock, active)
      /\ up[s] # <<>> /\ up' = [up EXCEPT ![s] = Tail(@)]
  BY DEF ResultMessage
<1>2. \A d \in Commands :
        \/ st[d] = status[d]
        \/ status[d] \notin Terminal \union {"absent"} /\ st[d] \in {"succeeded", "failed"}
  BY DEF Finished, Inv, TypeOK, PanelTypeOK
<1>3. st \in [Commands -> Statuses]
  BY DEF Finished, Inv, TypeOK, PanelTypeOK, Statuses, Terminal
<1>4. /\ \A d \in Commands : st[d] = "absent" <=> status[d] = "absent"
      /\ \A d \in Commands : status[d] \in Terminal => st[d] \in Terminal
      /\ \A d \in Commands : st[d] \in InFlight => status[d] \in InFlight
  BY <1>2 DEF Terminal, InFlight
<1>5. /\ active <= used /\ active \in Sessions \union {NoSession}
      /\ \A t \in Sessions : t > used => sock[t] = "new"
      /\ \A t \in Sessions : sock[t] = "new" => t # active
      /\ sock \in [Sessions -> SocketStates]
  BY DEF Inv, SessionsInUse, TypeOK, WireTypeOK, PanelTypeOK
<1>6. \A t \in Sessions : up'[t] = up[t] \/ (up[t] # <<>> /\ up'[t] = Tail(up[t]))
  BY <1>1 DEF Inv, TypeOK, WireTypeOK
<1> HIDE DEF st
<1> QED
  BY <1>1, <1>3, <1>4, <1>5, <1>6, HandlerKeepsInv

LEMMA HelloKeepsInv ==
  ASSUME Inv, TypeOK', UNCHANGED <<cacheVars, agentVars>>,
         NEW s \in Sessions, HelloMessage(s)
  PROVE  Inv' /\ RowsAdvance
<1>1. /\ UNCHANGED <<used, link, made>> /\ up[s] # <<>> /\ sock[s] \in {"open", "bound"}
  BY DEF HelloMessage
<1>2. s <= used /\ active <= used /\ s # NoSession
  BY <1>1 DEF Inv, SessionsInUse, TypeOK, WireTypeOK, Sessions, NoSession
<1>3. PICK st \in {status, Requeued(status)},
           sk \in {[sock EXCEPT ![s] = "bound"],
                  [sock EXCEPT ![s] = "bound", ![active] = "closed"]} :
        /\ Dispatch(st, sk, s)
        /\ sk # [sock EXCEPT ![s] = "bound"] => active \in Sessions
        /\ \/ up' = [up EXCEPT ![s] = Tail(@), ![active] = <<>>] /\ active # s
           \/ up' = [up EXCEPT ![s] = Tail(@)]
  <2>1. CASE /\ active \notin {NoSession, s}
             /\ up' = [up EXCEPT ![s] = Tail(@), ![active] = <<>>]
             /\ Dispatch(Requeued(status),
                         [sock EXCEPT ![s] = "bound", ![active] = "closed"], s)
    <3>1. active \in Sessions /\ active # s
      BY <2>1 DEF Inv, TypeOK, PanelTypeOK
    <3> QED
      BY <2>1, <3>1
  <2>2. CASE /\ up' = [up EXCEPT ![s] = Tail(@)]
             /\ Dispatch(status, [sock EXCEPT ![s] = "bound"], s)
    BY <2>2
  <2> QED
    BY <2>1, <2>2 DEF HelloMessage
<1>4. /\ st \in [Commands -> Statuses]
      /\ \A c \in Commands : st[c] = "absent" <=> status[c] = "absent"
      /\ \A c \in Commands : status[c] \in Terminal => st[c] \in Terminal
      /\ \A c \in Commands : st[c] \in InFlight => status[c] \in InFlight
  <2>1. CASE st = status
    BY <2>1 DEF Inv, TypeOK, PanelTypeOK
  <2>2. CASE st = Requeued(status)
    BY <2>2 DEF Requeued, Terminal, InFlight, Statuses, Inv, TypeOK, PanelTypeOK
  <2> QED
    BY <1>3, <2>1, <2>2
<1>5. /\ sk \in [Sessions -> SocketStates]
      /\ \A t \in Sessions : t \in {s, active} \/ sk[t] = sock[t]
      /\ sk[s] # "new" /\ (active \in Sessions => sk[active] # "new")
  BY <1>1, <1>3 DEF SocketStates, Inv, SessionsInUse, TypeOK, WireTypeOK
<1>6. /\ \A t \in Sessions : t > used => sk[t] = "new"
      /\ \A t \in Sessions : sk[t] = "new" => t # s
  <2>1. \A t \in Sessions : t > used => t \notin {s, active} /\ sock[t] = "new"
    BY <1>2 DEF Inv, SessionsInUse, TypeOK, WireTypeOK, PanelTypeOK, Sessions, NoSession
  <2> QED
    BY <1>5, <2>1
<1>7. \A t \in Sessions : \/ up'[t] = up[t] \/ up'[t] = <<>>
                          \/ up[t] # <<>> /\ up'[t] = Tail(up[t])
  BY <1>1, <1>3 DEF Inv, TypeOK, WireTypeOK
<1> QED
  BY <1>1, <1>2, <1>3, <1>4, <1>5, <1>6, <1>7, HandlerKeepsInv

-----------------------------------------------------------------------------
(* The invariant holds in every behaviour.                                 *)

LEMMA InvInit == Init => Inv
<1> SUFFICES ASSUME Init PROVE Inv
  OBVIOUS
<1>1. TypeOK
  BY TypeInit
<1>2. Incoming = {} /\ Mine = {} /\ Announced = {}
  BY DEF Init, WireInit, AgentInit, CacheInit, Incoming, Mine, Announced, Idle,
     Elements
<1>3. Touched = {}
  BY <1>2 DEF Touched, Init, PanelInit, InFlight
<1>4. SessionsInUse
  BY DEF Init, WireInit, AgentInit, PanelInit, SessionsInUse, NoSession, Sessions
<1>5. RowsCreated
  BY DEF Init, PanelInit, RowsCreated, Commands
<1>6. TouchedInOrder /\ IncomingInOrder
  BY <1>2, <1>3 DEF TouchedInOrder, IncomingInOrder, Init, WireInit
<1>7. OwnedOnce /\ PendingHeld /\ AtMostOnce
  BY QueueCapacityAssumption
     DEF Init, AgentInit, CacheInit, OwnedOnce, PendingHeld, AtMostOnce, Idle
<1>8. CacheShape
  BY DEF Init, AgentInit, CacheInit, CacheShape, Snapshot, Elements
<1>9. DiskBound
  BY FS_EmptySet, QueueCapacityAssumption
     DEF Init, AgentInit, CacheInit, DiskBound, Snapshot
<1>10. RememberedInMemory /\ RememberedOnDisk
  BY <1>2 DEF RememberedInMemory, RememberedOnDisk
<1> QED
  BY <1>1, <1>4, <1>5, <1>6, <1>7, <1>8, <1>9, <1>10 DEF Inv

LEMMA PanelStepKeepsInv ==
  ASSUME Inv, TypeOK', PanelStep, UNCHANGED <<cacheVars, agentVars>>
  PROVE  Inv' /\ RowsAdvance
  BY CreateKeepsInv, SocketKeepsInv, HelloKeepsInv, AckKeepsInv, ResultKeepsInv
     DEF PanelStep

LEMMA InvStep == Inv /\ [Next]_vars => Inv'
<1> SUFFICES ASSUME Inv, [Next]_vars PROVE Inv'
  OBVIOUS
<1>1. TypeOK'
  BY TypeStep DEF Inv
<1>2. CASE AgentStep /\ UNCHANGED panelVars
  BY <1>1, <1>2, DialKeepsInv, LinkDownKeepsInv, ReceiveKeepsInv, AnswersKeepInv,
     RefuseKeepsInv, OwnKeepsInv, EnqueueKeepsInv, CompleteKeepsInv, StartKeepsInv,
     RestartKeepsInv DEF AgentStep
<1>3. CASE PanelStep /\ UNCHANGED <<cacheVars, agentVars>>
  BY <1>1, <1>3, PanelStepKeepsInv
<1>4. CASE UNCHANGED vars
  <2>1. /\ Incoming' = Incoming /\ Mine' = Mine /\ Announced' = Announced
        /\ \A d : Redeliverable(d)' = Redeliverable(d)
    BY <1>4 DEF vars, wireVars, cacheVars, agentVars, panelVars, Incoming, Mine,
       Announced, Redeliverable, Unfinished
  <2>2. Touched' = Touched
    BY <1>4, <2>1 DEF Touched, vars, panelVars
  <2>3. RememberedInMemory' /\ RememberedOnDisk'
    BY <1>4, <2>1 DEF Inv, RememberedInMemory, RememberedOnDisk, Remembered,
       vars, cacheVars
  <2>4. SessionsInUse' /\ RowsCreated' /\ TouchedInOrder' /\ IncomingInOrder'
    BY <1>4, <2>1, <2>2 DEF Inv, SessionsInUse, RowsCreated, TouchedInOrder,
       IncomingInOrder, vars, wireVars, agentVars, panelVars
  <2>5. /\ OwnedOnce' /\ PendingHeld' /\ CacheShape' /\ DiskBound' /\ AtMostOnce'
    BY <1>4 DEF Inv, OwnedOnce, PendingHeld, CacheShape, DiskBound, AtMostOnce,
       vars, cacheVars, agentVars
  <2> QED
    BY <1>1, <2>3, <2>4, <2>5 DEF Inv
<1> QED
  BY <1>2, <1>3, <1>4 DEF Next

\* The inductive invariant: what the panel may send again is what the agent
\* still remembers.
THEOREM InvariantHolds == Spec => []Inv
  BY InvInit, InvStep, PTL DEF Spec

\* No command is executed twice (idempotency.go:124, agent/README.md:53), for
\* any number of commands, sessions, crashes and restarts, any capacities with
\* CacheLimit > QueueCapacity + 1, and whenever close callbacks run.
THEOREM ExecutedAtMostOnce == Spec => []AtMostOnce
<1>1. Inv => AtMostOnce
  BY DEF Inv
<1> QED
  BY <1>1, InvariantHolds, PTL

\* A binding never has two commands in flight, and none is sent while an older
\* one is unfinished (dispatchNext), over reconnections and restarts.
THEOREM OneInFlight == Spec => []OneInFlightInOrder
<1>1. Inv => OneInFlightInOrder
  BY DEF Inv, TouchedInOrder, Touched, OneInFlightInOrder
<1> QED
  BY <1>1, InvariantHolds, PTL

\* The acceptance of what was executed is in the state file until the panel has
\* a terminal status for it, however the process dies (idempotency.go:124).
THEOREM AcceptanceIsDurable == Spec => []AcceptedBeforeEffect
<1>1. ASSUME Inv, NEW c \in Commands, executions[c] > 0, status[c] \notin Terminal
      PROVE  c \in disk.accepted \union Elements(disk.order)
  <2>1. c \in Mine /\ c \in Touched
    BY <1>1 DEF Mine, Touched
  <2>2. status[c] # "absent"
    BY <1>1, <2>1 DEF Inv, TouchedInOrder
  <2>3. Redeliverable(c)
    BY <1>1, <2>2 DEF Redeliverable, Unfinished, Inv, TypeOK, PanelTypeOK, Statuses
  <2> QED
    BY <1>1, <2>1, <2>3 DEF Inv, RememberedOnDisk, Remembered, Elements
<1>2. Inv => AcceptedBeforeEffect
  BY <1>1 DEF AcceptedBeforeEffect
<1> QED
  BY <1>2, InvariantHolds, PTL

-----------------------------------------------------------------------------
(* What holds over the history of a command, on top of the invariant:       *)
(* commands are executed in order, the panel keeps CommandPromise, and the  *)
(* agent's answers agree.                                                   *)

-----------------------------------------------------------------------------
(* Execution in the order of creation.                                     *)

\* Steps that leave the queue, the executions and an owned command alone.
LEMMA IdleWorkerKeepsQueue ==
  ASSUME QueueInOrder, UNCHANGED <<queue, executions>>,
         reader' = reader \/ reader'.step # "owned"
  PROVE  QueueInOrder'
  BY DEF QueueInOrder

LEMMA OwnKeepsQueue ==
  ASSUME Inv, QueueInOrder, TakeOwnership PROVE QueueInOrder'
<1> DEFINE c == reader.cmd
<1>1. /\ UNCHANGED <<queue, executions>> /\ reader.step = "acked" /\ c \in Commands
      /\ reader' = [step |-> "owned", cmd |-> c]
      /\ completed[c] = NoResult /\ c \notin pending
  BY DEF TakeOwnership, BeginOwn, Inv, TypeOK, AgentTypeOK, Idle
<1>2. c \in Incoming /\ \A d \in Mine : d <= c /\ ~Redeliverable(d)
  BY <1>1, UnknownIsFirst DEF Incoming, Inv, IncomingInOrder
<1>3. c \notin Mine
  BY <1>2 DEF Redeliverable
<1>4. ASSUME NEW d \in Mine PROVE d < c
  BY <1>1, <1>2, <1>3, <1>4 DEF Mine, Commands, Inv, TypeOK, CacheTypeOK
<1>5. \A i \in DOMAIN queue : queue[i].cmd \in Mine
  BY DEF Inv, OwnedOnce, Mine
<1>6. \A d \in Commands : executions[d] > 0 => d \in Mine
  BY DEF Mine
<1> QED
  BY <1>1, <1>4, <1>5, <1>6 DEF QueueInOrder

LEMMA EnqueueKeepsQueue ==
  ASSUME Inv, QueueInOrder, Enqueue PROVE QueueInOrder'
<1> DEFINE e == [session |-> link, cmd |-> reader.cmd]
<1>1. /\ executions' = executions /\ reader.step = "owned" /\ reader' = Idle
      /\ queue' = Append(queue, e) /\ queue \in Seq(Jobs) /\ e.cmd = reader.cmd
  BY DEF Enqueue, Inv, TypeOK, AgentTypeOK
<1>2. ASSUME NEW i \in DOMAIN queue'
      PROVE  \/ i \in DOMAIN queue /\ queue'[i] = queue[i]
             \/ i = Len(queue) + 1 /\ queue'[i] = e
  BY <1>1, <1>2
<1>3. ASSUME NEW i \in DOMAIN queue', NEW j \in DOMAIN queue', i < j
      PROVE  queue'[i].cmd < queue'[j].cmd
  <2>1. i \in DOMAIN queue /\ queue'[i] = queue[i]
    BY <1>1, <1>2, <1>3
  <2> QED
    BY <1>1, <1>2, <1>3, <2>1 DEF QueueInOrder
<1>4. ASSUME NEW c \in Commands, executions'[c] > 0, NEW i \in DOMAIN queue'
      PROVE  c < queue'[i].cmd
  BY <1>1, <1>2, <1>4 DEF QueueInOrder
<1> QED
  BY <1>1, <1>3, <1>4 DEF QueueInOrder, Idle

\* The worker takes the oldest command, so what stays behind it is younger.
LEMMA StartKeepsQueue ==
  ASSUME Inv, QueueInOrder, StartExecution
  PROVE  /\ QueueInOrder'
         /\ \A c \in Commands : executions'[c] > executions[c] =>
              \A d \in Commands : d > c => executions[d] = 0
<1> DEFINE h == Head(queue).cmd
<1>1. /\ queue # <<>> /\ queue \in Seq(Jobs) /\ queue' = Tail(queue) /\ reader' = reader
      /\ executions' = [executions EXCEPT ![h] = @ + 1]
      /\ executions \in [Commands -> Nat]
  BY DEF StartExecution, Inv, TypeOK, AgentTypeOK
<1>2. 1 \in DOMAIN queue /\ Head(queue) = queue[1] /\ h \in Commands
  <2>1. 1 \in DOMAIN queue /\ Head(queue) = queue[1] /\ Head(queue) \in Jobs
    BY <1>1
  <2> QED
    BY <2>1 DEF Jobs
<1>3. \A i \in DOMAIN queue' : /\ i + 1 \in DOMAIN queue /\ queue'[i] = queue[i + 1]
                               /\ 1 < i + 1 /\ i \in Nat
  BY <1>1
<1>4. \A i, j \in DOMAIN queue' : i < j => i + 1 < j + 1
  BY <1>3
<1>5. \A c \in Commands : executions'[c] > 0 => c = h \/ executions[c] > 0
  BY <1>1
<1>6. \A i \in DOMAIN queue' : h < queue'[i].cmd
  BY <1>2, <1>3 DEF QueueInOrder
<1>7. reader.step = "owned" => h < reader.cmd
  BY <1>2 DEF QueueInOrder
<1>8. \A i, j \in DOMAIN queue' : i < j => queue'[i].cmd < queue'[j].cmd
  BY <1>3, <1>4 DEF QueueInOrder
<1>9. reader'.step = "owned" => \A i \in DOMAIN queue' : queue'[i].cmd < reader'.cmd
  BY <1>1, <1>3 DEF QueueInOrder
<1>10. ASSUME NEW c \in Commands, executions'[c] > 0
       PROVE  /\ \A i \in DOMAIN queue' : c < queue'[i].cmd
              /\ reader'.step = "owned" => c < reader'.cmd
  BY <1>1, <1>3, <1>5, <1>6, <1>7, <1>10 DEF QueueInOrder
<1>11. ASSUME NEW c \in Commands, executions'[c] > executions[c],
              NEW d \in Commands, d > c
       PROVE  executions[d] = 0
  <2>1. c = h
    BY <1>1, <1>11
  <2>2. ~(executions[d] > 0)
    BY <1>2, <1>11, <2>1 DEF QueueInOrder, Commands
  <2> QED
    BY <1>1, <2>2
<1> QED
  BY <1>8, <1>9, <1>10, <1>11 DEF QueueInOrder

LEMMA QueueStep ==
  ASSUME Inv, QueueInOrder, [Next]_vars PROVE QueueInOrder'
<1>1. CASE PanelStep /\ UNCHANGED <<cacheVars, agentVars>>
  BY <1>1, IdleWorkerKeepsQueue DEF agentVars
<1>2. CASE UNCHANGED vars
  BY <1>2, IdleWorkerKeepsQueue DEF vars, agentVars
<1>3. CASE \/ Dial \/ LinkLost \/ LinkClosed \/ Receive \/ ReplayCached \/ JoinPending
           \/ RefuseUnpersisted \/ RejectFull \/ FinishExecution \/ ReplayPending
  <2>1. UNCHANGED <<queue, executions>> /\ (reader' = reader \/ reader'.step # "owned")
    BY <1>3 DEF Dial, LinkLost, LinkClosed, Receive, ReplayCached, JoinPending,
       RefuseUnpersisted, RejectFull, FinishExecution, ReplayPending, agentVars, Idle
  <2> QED
    BY <2>1, IdleWorkerKeepsQueue
<1>4. CASE AgentRestart
  BY <1>4 DEF AgentRestart, QueueInOrder, Idle
<1> QED
  BY <1>1, <1>2, <1>3, <1>4, OwnKeepsQueue, EnqueueKeepsQueue, StartKeepsQueue
     DEF Next, AgentStep

LEMMA QueueInit == Init => QueueInOrder
  BY DEF Init, AgentInit, QueueInOrder, Idle

LEMMA QueueAlways == Spec => [](Inv /\ QueueInOrder)
<1>1. Init => Inv /\ QueueInOrder
  BY InvInit, QueueInit
<1>2. Inv /\ QueueInOrder /\ [Next]_vars => (Inv /\ QueueInOrder)'
  BY InvStep, QueueStep
<1> QED
  BY <1>1, <1>2, PTL DEF Spec

\* Only the worker's start of a command executes anything.
LEMMA OnlyStartExecutes ==
  ASSUME Inv, [Next]_vars, executions' # executions PROVE StartExecution
  BY DEF Next, AgentStep, vars, agentVars, Dial, LinkLost, LinkClosed, Receive,
     ReplayCached, JoinPending, RefuseUnpersisted, TakeOwnership, Enqueue, RejectFull,
     FinishExecution, ReplayPending, AgentRestart

\* The commands of a binding are executed in the order the panel created them
\* (commandWorker over bindingAgent.commands, dispatchNext by created_at), over
\* reconnections, restarts of either side and redeliveries.
THEOREM ExecutionFollowsCreation == Spec => ExecutedInOrder
<1>1. ASSUME Inv, QueueInOrder, [Next]_vars
      PROVE  [\A c \in Commands : executions'[c] > executions[c] =>
                \A d \in Commands : d > c => executions[d] = 0]_vars
  <2>1. CASE executions' = executions
    BY <1>1, <2>1 DEF Inv, TypeOK, AgentTypeOK
  <2>2. CASE executions' # executions
    BY <1>1, <2>2, OnlyStartExecutes, StartKeepsQueue
  <2> QED
    BY <2>1, <2>2
<1> QED
  BY <1>1, QueueAlways, PTL DEF Spec, ExecutedInOrder
-----------------------------------------------------------------------------
(* The messages on their way to the panel.                                 *)

LEMMA PostedOnWire ==
  ASSUME TypeOK, NEW s, NEW m, up' = Posted(s, m), NEW n, OnWire(n)'
  PROVE  OnWire(n) \/ n = m
<1>1. PICK t \in Sessions : \E i \in DOMAIN up'[t] : up'[t][i] = n
  BY DEF OnWire
<1>2. up[t] \in Seq(Messages)
  BY DEF TypeOK, WireTypeOK
<1>3. CASE up'[t] = up[t]
  BY <1>1, <1>3 DEF OnWire
<1>4. CASE up'[t] = Append(up[t], m)
  <2>1. \A i \in DOMAIN up'[t] : (i \in DOMAIN up[t] /\ up'[t][i] = up[t][i]) \/ up'[t][i] = m
    BY <1>2, <1>4
  <2> QED
    BY <1>1, <2>1 DEF OnWire
<1> QED
  BY <1>3, <1>4 DEF Posted, TypeOK, WireTypeOK

LEMMA PrefixOnWire ==
  ASSUME TypeOK, NEW s \in Sessions, NEW kept \in Prefixes(up[s]),
         up' = [up EXCEPT ![s] = kept], NEW n, OnWire(n)'
  PROVE  OnWire(n)
<1>1. PICK t \in Sessions : \E i \in DOMAIN up'[t] : up'[t][i] = n
  BY DEF OnWire
<1>2. CASE t # s
  BY <1>1, <1>2 DEF OnWire, TypeOK, WireTypeOK
<1>3. CASE t = s
  <2>1. PICK k \in 0..Len(up[s]) : kept = SubSeq(up[s], 1, k)
    BY DEF Prefixes
  <2>2. up'[s] = kept /\ up[s] \in Seq(Messages)
    BY DEF TypeOK, WireTypeOK
  <2>3. \A i \in DOMAIN up'[s] : i \in DOMAIN up[s] /\ up'[s][i] = up[s][i]
    BY <2>1, <2>2
  <2> QED
    BY <1>1, <1>3, <2>3 DEF OnWire
<1> QED
  BY <1>2, <1>3

\* Whatever the panel reads or drops.
LEMMA ReadingOnWire ==
  ASSUME TypeOK, NEW n, OnWire(n)',
         \A s \in Sessions : \/ up'[s] = up[s] \/ up'[s] = <<>>
                             \/ up[s] # <<>> /\ up'[s] = Tail(up[s])
  PROVE  OnWire(n)
<1>1. PICK t \in Sessions : \E i \in DOMAIN up'[t] : up'[t][i] = n
  BY DEF OnWire
<1>2. up[t] \in Seq(Messages)
  BY DEF TypeOK, WireTypeOK
<1>3. CASE up'[t] = up[t]
  BY <1>1, <1>3 DEF OnWire
<1>4. CASE up'[t] = <<>>
  BY <1>1, <1>4
<1>5. CASE up[t] # <<>> /\ up'[t] = Tail(up[t])
  <2>1. \A i \in DOMAIN up'[t] : i + 1 \in DOMAIN up[t] /\ up'[t][i] = up[t][i + 1]
    BY <1>2, <1>5
  <2> QED
    BY <1>1, <2>1 DEF OnWire
<1> QED
  BY <1>3, <1>4, <1>5

LEMMA PanelOnlyReads ==
  ASSUME TypeOK, PanelStep
  PROVE  \A t \in Sessions : \/ up'[t] = up[t] \/ up'[t] = <<>>
                             \/ up[t] # <<>> /\ up'[t] = Tail(up[t])
<1>1. CASE CreateCommand \/ Age \/ PanelRestart
  BY <1>1 DEF CreateCommand, Age, PanelRestart, wireVars
<1>2. ASSUME NEW s \in Sessions, Open(s) \/ CloseUnbound(s) \/ SocketClosed(s)
      PROVE  \A t \in Sessions : up'[t] = up[t] \/ up'[t] = <<>>
  BY <1>2 DEF Open, CloseUnbound, SocketClosed, TypeOK, WireTypeOK
<1>3. ASSUME NEW s \in Sessions, AckMessage(s) \/ ResultMessage(s)
      PROVE  \A t \in Sessions : up'[t] = up[t] \/ (up[t] # <<>> /\ up'[t] = Tail(up[t]))
  BY <1>3 DEF AckMessage, ResultMessage, TypeOK, WireTypeOK
<1>4. ASSUME NEW s \in Sessions, HelloMessage(s)
      PROVE  \A t \in Sessions : \/ up'[t] = up[t] \/ up'[t] = <<>>
                                 \/ up[t] # <<>> /\ up'[t] = Tail(up[t])
  <2>1. /\ up[s] # <<>> /\ up \in [Sessions -> Seq(Messages)]
        /\ \/ up' = [up EXCEPT ![s] = Tail(@), ![active] = <<>>] /\ active # s
           \/ up' = [up EXCEPT ![s] = Tail(@)]
    BY <1>4 DEF HelloMessage, TypeOK, WireTypeOK
  <2> QED
    BY <2>1
<1> QED
  BY <1>1, <1>2, <1>3, <1>4 DEF PanelStep

-----------------------------------------------------------------------------
(* Success is only claimed for a run that succeeded.                       *)

\* Complete leaves every retained result but the new one as it was.
LEMMA CompleteResults ==
  ASSUME CacheTypeOK, NEW c \in Commands, NEW r \in Results, Complete(c, r),
         NEW d \in Commands
  PROVE  completed'[d] \in {completed[d], NoResult} \/ (d = c /\ completed'[d] = r)
  BY DEF Complete, Keep, CacheTypeOK

LEMMA CompleteOnDisk ==
  ASSUME NEW c, NEW r, Complete(c, r)
  PROVE  disk'.completed = completed' \/ disk' = disk
  BY DEF Complete, Snapshot

\* Steps that end or forget no run, and claim nothing new.
LEMMA NoNewClaim ==
  ASSUME ClaimsAreTrue, UNCHANGED <<executions, outcome>>,
         running' = running \/ running' = Nothing,
         \A c \in Commands : SuccessClaimed(c)' => SuccessClaimed(c)
  PROVE  ClaimsAreTrue'
  BY DEF ClaimsAreTrue

LEMMA SessionStepsClaimNothing ==
  ASSUME TypeOK, Dial \/ LinkLost \/ LinkClosed \/ Receive,
         NEW c \in Commands, SuccessClaimed(c)'
  PROVE  SuccessClaimed(c)
<1> DEFINE m == ResultOf(c, "completed")
<1>1. UNCHANGED cacheVars /\ (waiters' = waiters \/ waiters' = {})
  BY DEF Dial, LinkLost, LinkClosed, Receive, agentVars
<1>2. OnWire(m)' => OnWire(m)
  <2>1. CASE Dial
    <3>1. Hello # m
      BY DEF Hello, ResultOf
    <3>2. \A t \in Sessions : up'[t] = up[t] \/ up'[t] = <<Hello>>
      BY <2>1 DEF Dial, TypeOK, WireTypeOK
    <3> HIDE DEF m
    <3> QED
      BY <3>1, <3>2 DEF OnWire
  <2>2. CASE LinkLost
    <3>1. link \in Sessions
      BY <2>2 DEF LinkLost, TypeOK, WireTypeOK
    <3> QED
      BY <2>2, <3>1, PrefixOnWire DEF LinkLost
  <2>3. CASE LinkClosed
    BY <2>3 DEF LinkClosed, OnWire
  <2>4. CASE Receive
    <3>1. up' = Posted(link, Ack(Head(down[link])))
      BY <2>4 DEF Receive
    <3>2. Ack(Head(down[link])) # m
      BY DEF Ack, ResultOf
    <3> QED
      BY <3>1, <3>2, PostedOnWire
  <2> QED
    BY <2>1, <2>2, <2>3, <2>4
<1> QED
  BY <1>1, <1>2 DEF SuccessClaimed, cacheVars

\* What the read loop and the goroutines answer was claimed before.
LEMMA AnswersClaimNothing ==
  ASSUME TypeOK, NEW c \in Commands, SuccessClaimed(c)',
         \/ ReplayCached \/ JoinPending \/ RefuseUnpersisted \/ TakeOwnership
         \/ Enqueue \/ ReplayPending
  PROVE  SuccessClaimed(c)
<1> DEFINE m == ResultOf(c, "completed")
<1>1. ASSUME NEW s, NEW d, NEW r, up' = Posted(s, ResultOf(d, r)), OnWire(m)'
      PROVE  OnWire(m) \/ (d = c /\ r = "completed")
  <2>1. OnWire(m) \/ m = ResultOf(d, r)
    BY <1>1, PostedOnWire
  <2> QED
    BY <2>1 DEF ResultOf
<1> HIDE DEF m
<1>2. CASE ReplayCached
  <2>1. /\ UNCHANGED <<cacheVars, waiters>>
        /\ up' = Posted(link, ResultOf(reader.cmd, completed[reader.cmd]))
    BY <1>2 DEF ReplayCached, BeginCached, Reply
  <2> QED
    BY <1>1, <2>1 DEF SuccessClaimed, cacheVars, m
<1>3. CASE JoinPending
  BY <1>3 DEF JoinPending, BeginJoin, SuccessClaimed, OnWire, wireVars, cacheVars, NoResult
<1>4. CASE RefuseUnpersisted
  <2>1. /\ UNCHANGED <<completed, waiters>>
        /\ disk'.completed \in {disk.completed, completed}
        /\ up' = Posted(link, ResultOf(reader.cmd, "failed"))
    BY <1>4 DEF RefuseUnpersisted, BeginRefused, Reply, Snapshot
  <2> QED
    BY <1>1, <2>1 DEF SuccessClaimed, m
<1>5. CASE TakeOwnership
  BY <1>5 DEF TakeOwnership, BeginOwn, SuccessClaimed, OnWire, wireVars, Snapshot
<1>6. CASE Enqueue
  BY <1>6 DEF Enqueue, SuccessClaimed, OnWire, wireVars, cacheVars
<1>7. CASE ReplayPending
  <2>1. PICK w \in waiters :
          up' = Posted(link, ResultOf(w.cmd, w.result)) /\ waiters' = waiters \ {w}
    BY <1>7 DEF ReplayPending, Reply
  <2>2. UNCHANGED cacheVars
    BY <1>7 DEF ReplayPending
  <2> QED
    BY <1>1, <2>1, <2>2 DEF SuccessClaimed, cacheVars, m
<1> QED
  BY <1>2, <1>3, <1>4, <1>5, <1>6, <1>7

LEMMA RejectClaimsNothing ==
  ASSUME TypeOK, RejectFull, NEW c \in Commands, SuccessClaimed(c)'
  PROVE  SuccessClaimed(c)
<1>1. /\ Complete(reader.cmd, "failed") /\ waiters' = waiters
      /\ up' = Posted(link, ResultOf(reader.cmd, "failed"))
      /\ reader.cmd \in Commands
  BY DEF RejectFull, Reply, TypeOK, AgentTypeOK, Idle
<1>2. completed'[c] = "completed" => completed[c] = "completed"
  BY <1>1, CompleteResults DEF TypeOK, NoResult, Results
<1>3. disk'.completed = completed' \/ disk' = disk
  BY <1>1, CompleteOnDisk
<1>4. ResultOf(reader.cmd, "failed") # ResultOf(c, "completed")
  BY DEF ResultOf
<1>5. OnWire(ResultOf(c, "completed"))' => OnWire(ResultOf(c, "completed"))
  BY <1>1, <1>4, PostedOnWire
<1> QED
  BY <1>1, <1>2, <1>3, <1>5 DEF SuccessClaimed

LEMMA RestartClaimsNothing ==
  ASSUME TypeOK, AgentRestart, NEW c \in Commands, SuccessClaimed(c)'
  PROVE  SuccessClaimed(c)
<1>1. waiters' = {} /\ Reload
  BY DEF AgentRestart
<1>2. completed'[c] = "completed" => disk.completed[c] = "completed"
  BY <1>1 DEF Reload, Keep, NoResult
<1>3. disk'.completed = completed'
  BY <1>1 DEF Reload, Snapshot
<1>4. OnWire(ResultOf(c, "completed"))' => OnWire(ResultOf(c, "completed"))
  <2>1. CASE link = NoSession
    BY <2>1 DEF AgentRestart, OnWire
  <2>2. CASE link # NoSession
    <3>1. link \in Sessions
      BY <2>2 DEF TypeOK, WireTypeOK
    <3> QED
      BY <2>2, <3>1, PrefixOnWire DEF AgentRestart
  <2> QED
    BY <2>1, <2>2
<1> QED
  BY <1>1, <1>2, <1>3, <1>4 DEF SuccessClaimed

\* The one step that makes a claim is the end of the run it is about.
LEMMA FinishKeepsClaims ==
  ASSUME Inv, ClaimsAreTrue, FinishExecution
  PROVE  /\ ClaimsAreTrue'
         /\ \E c \in Commands : \E r \in {"completed", "failed"} :
              /\ executions[c] > 0 /\ outcome[c] = NoResult
              /\ outcome' = [outcome EXCEPT ![c] = r]
<1> DEFINE c == running.cmd
<1>1. /\ c \in Commands /\ outcome[c] = NoResult /\ executions[c] = 1
      /\ running' = Nothing /\ executions' = executions
      /\ outcome \in [Commands -> Results \union {NoResult}] /\ CacheTypeOK
  BY DEF FinishExecution, ClaimsAreTrue, Inv, OwnedOnce, TypeOK, CacheTypeOK, AgentTypeOK, Jobs
<1>2. PICK r \in {"completed", "failed"} :
        /\ Complete(c, r) /\ up' = Posted(running.session, ResultOf(c, r))
        /\ outcome' = [outcome EXCEPT ![c] = r]
        /\ waiters' = {IF w.cmd = c /\ w.result = NoResult
                       THEN [w EXCEPT !.result = r] ELSE w : w \in waiters}
  BY DEF FinishExecution, Reply
<1>3. \A d \in Commands : d # c => outcome'[d] = outcome[d]
  BY <1>1, <1>2
<1>4. outcome'[c] = r
  BY <1>1, <1>2
<1> HIDE DEF c
<1>5. ASSUME NEW d \in Commands, SuccessClaimed(d)'
      PROVE  SuccessClaimed(d) \/ (d = c /\ r = "completed")
  <2>1. completed'[d] = "completed" => completed[d] = "completed" \/ (d = c /\ r = "completed")
    BY <1>1, <1>2, CompleteResults DEF NoResult, Results
  <2>2. disk'.completed = completed' \/ disk' = disk
    BY <1>2, CompleteOnDisk
  <2>3. ASSUME NEW w \in waiters', w.cmd = d, w.result = "completed"
        PROVE  \/ \E x \in waiters : x.cmd = d /\ x.result = "completed"
               \/ d = c /\ r = "completed"
    <3>1. PICK x \in waiters : w = IF x.cmd = c /\ x.result = NoResult
                                   THEN [x EXCEPT !.result = r] ELSE x
      BY <1>2, <2>3
    <3>2. x \in [cmd : Commands, result : Results \union {NoResult}]
      BY DEF Inv, TypeOK, AgentTypeOK
    <3> QED
      BY <2>3, <3>1, <3>2
  <2>4. OnWire(ResultOf(d, "completed"))' =>
          OnWire(ResultOf(d, "completed")) \/ (d = c /\ r = "completed")
    <3>1. OnWire(ResultOf(d, "completed"))' =>
            OnWire(ResultOf(d, "completed")) \/ ResultOf(d, "completed") = ResultOf(c, r)
      BY <1>2, PostedOnWire DEF Inv
    <3> QED
      BY <3>1 DEF ResultOf
  <2> QED
    BY <1>5, <2>1, <2>2, <2>3, <2>4 DEF SuccessClaimed
<1>6. ClaimsAreTrue'
  <2> SUFFICES ASSUME NEW d \in Commands
               PROVE  /\ executions'[d] = 0 => outcome'[d] = NoResult
                      /\ SuccessClaimed(d)' => outcome'[d] = "completed"
    BY <1>1 DEF ClaimsAreTrue
  <2>1. CASE d = c
    <3>1. ~SuccessClaimed(d)
      BY <1>1, <2>1 DEF ClaimsAreTrue, NoResult
    <3> QED
      BY <1>1, <1>4, <1>5, <2>1, <3>1
  <2>2. CASE d # c
    BY <1>1, <1>3, <1>5, <2>2 DEF ClaimsAreTrue
  <2> QED
    BY <2>1, <2>2
<1>7. executions[c] > 0
  BY <1>1
<1>8. r \in {"completed", "failed"} /\ outcome' = [outcome EXCEPT ![c] = r]
  BY <1>2
<1> QED
  BY <1>1, <1>6, <1>7, <1>8, Zenon

LEMMA StartKeepsClaims ==
  ASSUME Inv, ClaimsAreTrue, StartExecution
  PROVE  /\ ClaimsAreTrue'
         /\ \E c \in pending : /\ c \in Commands /\ executions[c] = 0
                               /\ executions' = [executions EXCEPT ![c] = 1]
<1> DEFINE c == Head(queue).cmd
<1>1. /\ queue # <<>> /\ queue \in Seq(Jobs) /\ running' = Head(queue)
      /\ executions' = [executions EXCEPT ![c] = @ + 1]
      /\ executions \in [Commands -> Nat]
      /\ UNCHANGED <<wireVars, cacheVars, waiters, outcome>>
  BY DEF StartExecution, Inv, TypeOK, AgentTypeOK
<1>2. c \in pending /\ c \in Commands /\ executions[c] = 0
  <2>1. 1 \in DOMAIN queue /\ Head(queue) = queue[1]
    BY <1>1
  <2> QED
    BY <2>1 DEF Inv, OwnedOnce, TypeOK, CacheTypeOK
<1>3. outcome[c] = NoResult
  BY <1>2 DEF ClaimsAreTrue
<1>4. \A d \in Commands : SuccessClaimed(d)' => SuccessClaimed(d)
  BY <1>1 DEF SuccessClaimed, OnWire, wireVars, cacheVars
<1>5. \A d \in Commands : executions'[d] = 0 => executions[d] = 0
  BY <1>1
<1>6. executions' = [executions EXCEPT ![c] = 1]
  BY <1>1, <1>2
<1>7. running'.cmd = c
  BY <1>1
<1> HIDE DEF c
<1> QED
  BY <1>1, <1>2, <1>3, <1>4, <1>5, <1>6, <1>7 DEF ClaimsAreTrue

LEMMA PanelKeepsClaims ==
  ASSUME Inv, ClaimsAreTrue, PanelStep, UNCHANGED <<cacheVars, agentVars>>
  PROVE  ClaimsAreTrue'
<1>1. \A c \in Commands : SuccessClaimed(c)' => SuccessClaimed(c)
  BY PanelOnlyReads, ReadingOnWire DEF Inv, SuccessClaimed, cacheVars, agentVars
<1> QED
  BY <1>1, NoNewClaim DEF agentVars

LEMMA ClaimsStep ==
  ASSUME Inv, ClaimsAreTrue, [Next]_vars PROVE ClaimsAreTrue'
<1>1. CASE PanelStep /\ UNCHANGED <<cacheVars, agentVars>>
  BY <1>1, PanelKeepsClaims
<1>2. CASE UNCHANGED vars
  BY <1>2, NoNewClaim DEF vars, wireVars, cacheVars, agentVars, SuccessClaimed, OnWire
<1>3. CASE \/ Dial \/ LinkLost \/ LinkClosed \/ Receive \/ ReplayCached \/ JoinPending
           \/ RefuseUnpersisted \/ TakeOwnership \/ Enqueue \/ RejectFull
           \/ ReplayPending \/ AgentRestart
  <2>1. UNCHANGED <<executions, outcome>> /\ (running' = running \/ running' = Nothing)
    BY <1>3 DEF Dial, LinkLost, LinkClosed, Receive, ReplayCached, JoinPending,
       RefuseUnpersisted, TakeOwnership, Enqueue, RejectFull, ReplayPending,
       AgentRestart, agentVars
  <2>2. \A c \in Commands : SuccessClaimed(c)' => SuccessClaimed(c)
    BY <1>3, SessionStepsClaimNothing, AnswersClaimNothing, RejectClaimsNothing,
       RestartClaimsNothing DEF Inv
  <2> QED
    BY <2>1, <2>2, NoNewClaim
<1> QED
  BY <1>1, <1>2, <1>3, FinishKeepsClaims, StartKeepsClaims DEF Next, AgentStep

LEMMA ClaimsInit == Init => ClaimsAreTrue
<1> SUFFICES ASSUME Init PROVE ClaimsAreTrue
  OBVIOUS
<1>1. \A m : ~OnWire(m)
  BY DEF Init, WireInit, OnWire
<1>2. \A c \in Commands : ~SuccessClaimed(c) /\ outcome[c] = NoResult
  BY <1>1 DEF Init, AgentInit, CacheInit, SuccessClaimed, Snapshot, NoResult
<1> QED
  BY <1>2 DEF ClaimsAreTrue

LEMMA ClaimsAlways == Spec => [](Inv /\ ClaimsAreTrue)
<1>1. Init => Inv /\ ClaimsAreTrue
  BY InvInit, ClaimsInit
<1>2. Inv /\ ClaimsAreTrue /\ [Next]_vars => (Inv /\ ClaimsAreTrue)'
  BY InvStep, ClaimsStep
<1> QED
  BY <1>1, <1>2, PTL DEF Spec
-----------------------------------------------------------------------------
(* The promise of a command: each step is a step of CommandPromise, or     *)
(* leaves what the creator of a command can see as it is.                  *)

\* What a row can become in one step of the panel, as the creator sees it.
RowMoves(c) ==
  \/ status'[c] = status[c]
  \/ status[c] = "absent" /\ status'[c] \in {"queued", "expired"} \union InFlight
  \/ status[c] \in {"queued"} \union InFlight /\ status'[c] \in {"queued", "expired", "failed"} \union InFlight
  \/ status[c] \in {"queued"} \union InFlight /\ status'[c] = "succeeded" /\ outcome[c] = "completed"

LEMMA DispatchRows ==
  ASSUME NEW st \in [Commands -> Statuses], NEW sk, NEW act, Dispatch(st, sk, act),
         NEW c \in Commands
  PROVE  \/ status'[c] = st[c]
         \/ st[c] \in {"queued"} \union InFlight /\ status'[c] \in {"queued", "delivered", "expired"}
  BY DEF Dispatch, FirstQueued, Queued, Expired, Requeued, InFlight

\* A result is finished as the row's run ended, when it is a success.
LEMMA ResultRows ==
  ASSUME Inv, ClaimsAreTrue, NEW s \in Sessions, ResultMessage(s), NEW c \in Commands
  PROVE  RowMoves(c)
<1> DEFINE m == Head(up[s])
           st == Finished(status, m.cmd, m.result)
<1>1. /\ up[s] # <<>> /\ up[s] \in Seq(Messages) /\ m.type = "result"
      /\ Dispatch(st, sock, active) /\ status \in [Commands -> Statuses]
  BY DEF ResultMessage, Inv, TypeOK, WireTypeOK, PanelTypeOK
<1>2. 1 \in DOMAIN up[s] /\ up[s][1] = m /\ m \in Messages
  BY <1>1
<1>3. m.cmd = c /\ m.result = "completed" => outcome[c] = "completed"
  <2>1. m.cmd = c /\ m.result = "completed" => m = ResultOf(c, "completed")
    BY <1>1, <1>2 DEF Messages, ResultOf
  <2>2. m = ResultOf(c, "completed") => OnWire(ResultOf(c, "completed"))
    BY <1>2 DEF OnWire
  <2> QED
    BY <2>1, <2>2 DEF ClaimsAreTrue, SuccessClaimed
<1>4. st \in [Commands -> Statuses]
  BY <1>1 DEF Finished, Statuses, Terminal
<1>5. \/ st[c] = status[c]
      \/ /\ status[c] \in {"queued"} \union InFlight
         /\ \/ st[c] = "failed"
            \/ st[c] = "succeeded" /\ m.cmd = c /\ m.result = "completed"
  BY <1>1 DEF Finished, Statuses, Terminal
<1> HIDE DEF m, st
<1>6. \/ status'[c] = st[c]
      \/ /\ st[c] \in {"queued"} \union InFlight
         /\ status'[c] \in {"queued", "delivered", "expired"}
  BY <1>1, <1>4, DispatchRows
<1> QED
  BY <1>3, <1>5, <1>6 DEF RowMoves, InFlight

LEMMA PanelRows ==
  ASSUME Inv, ClaimsAreTrue, PanelStep, NEW c \in Commands PROVE RowMoves(c)
<1>1. CASE CreateCommand
  <2> DEFINE st == [status EXCEPT ![made'] = "queued"]
  <2>1. /\ Dispatch(st, sock, active) /\ made' \in Commands /\ made' = made + 1
        /\ status \in [Commands -> Statuses] /\ made \in Nat
    BY <1>1, NumCommandsAssumption DEF CreateCommand, Inv, TypeOK, PanelTypeOK, Commands
  <2>2. st \in [Commands -> Statuses] /\ status[made'] = "absent"
    BY <2>1 DEF Statuses, Inv, RowsCreated
  <2>3. (c = made' /\ st[c] = "queued") \/ st[c] = status[c]
    BY <2>1
  <2> HIDE DEF st
  <2>4. \/ status'[c] = st[c]
        \/ /\ st[c] \in {"queued"} \union InFlight
           /\ status'[c] \in {"queued", "delivered", "expired"}
    BY <2>1, <2>2, DispatchRows
  <2> QED
    BY <2>2, <2>3, <2>4 DEF RowMoves, InFlight
<1>2. CASE Age \/ PanelRestart \/ \E s \in Sessions : Open(s) \/ CloseUnbound(s) \/ SocketClosed(s)
  <2>1. status' = status \/ status' = Requeued(status)
    BY <1>2 DEF Age, PanelRestart, Open, CloseUnbound, SocketClosed, panelVars
  <2> QED
    BY <2>1 DEF RowMoves, Requeued, InFlight
<1>3. ASSUME NEW s \in Sessions, HelloMessage(s) PROVE RowMoves(c)
  <2>1. PICK st \in {status, Requeued(status)} : \E sk : Dispatch(st, sk, s)
    BY <1>3 DEF HelloMessage
  <2>2. /\ st \in [Commands -> Statuses]
        /\ st[c] = status[c] \/ (status[c] \in InFlight /\ st[c] = "queued")
    BY <2>1 DEF Requeued, Inv, TypeOK, PanelTypeOK, Statuses
  <2>3. \/ status'[c] = st[c]
        \/ /\ st[c] \in {"queued"} \union InFlight
           /\ status'[c] \in {"queued", "delivered", "expired"}
    BY <2>1, <2>2, DispatchRows
  <2> QED
    BY <2>2, <2>3 DEF RowMoves, InFlight
<1>4. ASSUME NEW s \in Sessions, AckMessage(s) PROVE RowMoves(c)
  BY <1>4 DEF AckMessage, RowMoves, InFlight, Inv, TypeOK, PanelTypeOK
<1> QED
  BY <1>1, <1>2, <1>3, <1>4, ResultRows DEF PanelStep

\* The panel's steps only report.
LEMMA PanelReports ==
  ASSUME Inv, ClaimsAreTrue, PanelStep, UNCHANGED <<cacheVars, agentVars>>
  PROVE  Promise!Report
<1>1. UNCHANGED <<executions, outcome>>
  BY DEF agentVars
<1>2. ASSUME NEW c \in Commands
      PROVE  /\ Report(c)' \in {"none", "open", "succeeded", "failed"}
             /\ \/ Report(c)' = Report(c)
                \/ Report(c) = "none" /\ Report(c)' \in {"open", "failed"}
                \/ Report(c) = "open" /\ Report(c)' = "failed"
                \/ Report(c) = "open" /\ Report(c)' = "succeeded" /\ outcome[c] = "completed"
  BY PanelRows DEF RowMoves, Report, InFlight
<1> QED
  BY <1>1, <1>2 DEF Promise!Report

LEMMA StartKeepsPromise ==
  ASSUME Inv, ClaimsAreTrue, StartExecution, UNCHANGED panelVars
  PROVE  \E c \in Commands : Promise!Start(c)
<1>1. PICK c \in pending : /\ c \in Commands /\ executions[c] = 0
                           /\ executions' = [executions EXCEPT ![c] = 1]
  BY StartKeepsClaims
<1>2. Report(c) # "none"
  <2>1. c \in Touched
    BY <1>1 DEF Touched, Mine
  <2>2. status[c] # "absent"
    BY <1>1, <2>1 DEF Inv, TouchedInOrder
  <2> QED
    BY <2>2 DEF Report
<1>3. {d \in Commands : executions'[d] > 0} = {d \in Commands : executions[d] > 0} \union {c}
  BY <1>1 DEF Inv, TypeOK, AgentTypeOK
<1>4. UNCHANGED <<status, outcome>>
  BY DEF StartExecution, panelVars
<1>5. [d \in Commands |-> Report(d)'] = [d \in Commands |-> Report(d)]
  BY <1>4 DEF Report
<1> QED
  BY <1>1, <1>2, <1>3, <1>4, <1>5 DEF Promise!Start

LEMMA FinishKeepsPromise ==
  ASSUME Inv, ClaimsAreTrue, FinishExecution, UNCHANGED panelVars
  PROVE  \E c \in Commands : Promise!Finish(c)
<1>1. PICK c \in Commands : \E r \in {"completed", "failed"} :
        /\ executions[c] > 0 /\ outcome[c] = NoResult
        /\ outcome' = [outcome EXCEPT ![c] = r]
  BY FinishKeepsClaims
<1>2. UNCHANGED <<status, executions>>
  BY DEF FinishExecution, panelVars
<1>3. [d \in Commands |-> Report(d)'] = [d \in Commands |-> Report(d)]
  BY <1>2 DEF Report
<1> QED
  BY <1>1, <1>2, <1>3 DEF Promise!Finish, NoResult

LEMMA PromiseStep ==
  ASSUME Inv, ClaimsAreTrue, [Next]_vars PROVE [Promise!Next]_(Promise!promiseVars)
<1>1. CASE PanelStep /\ UNCHANGED <<cacheVars, agentVars>>
  BY <1>1, PanelReports DEF Promise!Next
<1>2. CASE UNCHANGED <<status, executions, outcome>>
  BY <1>2 DEF Promise!promiseVars, Report
<1>3. CASE UNCHANGED vars
  BY <1>2, <1>3 DEF vars, agentVars, panelVars
<1>4. CASE AgentStep /\ UNCHANGED panelVars
  <2>1. CASE StartExecution
    BY <1>4, <2>1, StartKeepsPromise DEF Promise!Next
  <2>2. CASE FinishExecution
    BY <1>4, <2>2, FinishKeepsPromise DEF Promise!Next
  <2>3. CASE ~StartExecution /\ ~FinishExecution
    <3>1. UNCHANGED <<status, executions, outcome>>
      BY <1>4, <2>3 DEF AgentStep, Dial, LinkLost, LinkClosed, Receive, ReplayCached,
         JoinPending, RefuseUnpersisted, TakeOwnership, Enqueue, RejectFull,
         ReplayPending, AgentRestart, agentVars, panelVars
    <3> QED
      BY <1>2, <3>1
  <2> QED
    BY <2>1, <2>2, <2>3
<1> QED
  BY <1>1, <1>3, <1>4 DEF Next

\* The panel, the agent and the sessions together implement the promise of a
\* command: one run at most, after its creation, one final report, and a report
\* of success (finishCommand) only for a run that succeeded.
THEOREM PromiseIsKept == Spec => KeepsPromise
<1>1. Init => Promise!Init
  BY DEF Init, AgentInit, PanelInit, Promise!Init, Report, NoResult
<1>2. Inv /\ ClaimsAreTrue /\ [Next]_vars => [Promise!Next]_(Promise!promiseVars)
  BY PromiseStep
<1> QED
  BY <1>1, <1>2, ClaimsAlways, PTL DEF Spec, KeepsPromise, Promise!Spec
-----------------------------------------------------------------------------
(* One answer per command, as long as the state file can be written.       *)

\* UnknownIsFirst for what was answered: none of it can come back when the
\* command at hand is unknown to the cache.
LEMMA UnknownIsUnanswered ==
  ASSUME Inv, AnsweredInOrder, reader.step = "acked", completed[reader.cmd] = NoResult,
         reader.cmd \notin pending
  PROVE  \A d \in Answered : ~Redeliverable(d)
<1> DEFINE c == reader.cmd
<1> SUFFICES ASSUME NEW d \in Answered, Redeliverable(d) PROVE FALSE
  OBVIOUS
<1>1. c \in Commands /\ c \in Incoming /\ c \in Touched /\ d <= c
  <2>1. c \in Incoming
    BY DEF Incoming
  <2>2. c \in Commands
    BY DEF Inv, TypeOK, AgentTypeOK, Idle
  <2> QED
    BY <2>1, <2>2 DEF AnsweredInOrder, Touched
<1>2. d \in Commands
  BY DEF Answered, Elements, Inv, TypeOK, CacheTypeOK
<1>3. d = c
  <2>1. CASE d \in Incoming /\ d # c
    <3>1. PICK i \in DOMAIN down[link] : link # NoSession /\ down[link][i] = d
      BY <2>1 DEF Incoming, Elements
    <3>2. c <= d
      BY <3>1 DEF Inv, IncomingInOrder
    <3> QED
      BY <1>1, <1>2, <2>1, <3>2 DEF Commands
  <2>2. CASE Unfinished(d) /\ d # c
    <3>1. d < c
      BY <1>1, <1>2, <2>2 DEF Commands
    <3>2. status[d] \in Terminal
      BY <1>1, <1>2, <3>1 DEF Inv, TouchedInOrder
    <3> QED
      BY <2>2, <3>2 DEF Unfinished, Terminal, InFlight
  <2> QED
    BY <2>1, <2>2 DEF Redeliverable
<1>4. Remembered(order, pending, d)
  BY DEF AnsweredInOrder
<1>5. c \notin Elements(order)
  BY DEF Inv, CacheShape
<1> QED
  BY <1>3, <1>4, <1>5 DEF Remembered, Elements

\* No step of the agent makes a command come in.
LEMMA AgentIncoming ==
  ASSUME Inv, AgentStep PROVE Incoming' \subseteq Incoming
<1>1. CASE Receive
  <2>1. /\ link \in Sessions /\ link' = link /\ link # NoSession
        /\ down[link] \in Seq(Commands) /\ down[link] # <<>>
        /\ reader' = [step |-> "acked", cmd |-> Head(down[link])]
        /\ down'[link] = Tail(down[link])
    BY <1>1 DEF Receive, Inv, TypeOK, WireTypeOK
  <2>2. Elements(down[link]) = Elements(Tail(down[link])) \union {Head(down[link])}
    BY <2>1, HeadAndTail
  <2> QED
    BY <2>1, <2>2 DEF Incoming
<1>2. CASE Dial
  <2>1. link = NoSession /\ reader' = reader /\ down' = down /\ link' = used + 1
    BY <1>2 DEF Dial, agentVars
  <2>2. reader = Idle /\ down[used + 1] = <<>>
    BY <1>2, MaxSessionsAssumption
       DEF Dial, Inv, SessionsInUse, TypeOK, WireTypeOK, Sessions
  <2> QED
    BY <2>1, <2>2 DEF Incoming, Elements, Idle
<1>3. CASE LinkLost \/ LinkClosed \/ AgentRestart
  BY <1>3 DEF LinkLost, LinkClosed, AgentRestart, Incoming, Idle
<1>4. CASE \/ ReplayCached \/ JoinPending \/ RefuseUnpersisted \/ TakeOwnership \/ Enqueue
           \/ RejectFull \/ StartExecution \/ FinishExecution \/ ReplayPending
  <2>1. UNCHANGED <<link, down>> /\ (reader' = reader \/ reader'.step # "acked")
    BY <1>4 DEF ReplayCached, JoinPending, RefuseUnpersisted, TakeOwnership, Enqueue,
       RejectFull, StartExecution, FinishExecution, ReplayPending, wireVars, Idle,
       Inv, TypeOK, AgentTypeOK
  <2> QED
    BY <2>1 DEF Incoming
<1> QED
  BY <1>1, <1>2, <1>3, <1>4 DEF AgentStep

LEMMA SentIsSaid ==
  ASSUME TypeOK, NEW c \in Commands PROVE sent[c] \subseteq Said(c)
  BY DEF Said, TypeOK, AgentTypeOK

\* Steps after which the agent has said and remembers what it did before.
LEMMA NothingNewIsSaid ==
  ASSUME Inv, AnswersAgree, UNCHANGED <<cacheVars, panelVars>>,
         Incoming' \subseteq Incoming,
         \A c \in Commands : \A r \in Said(c)' : r \in Said(c) \/ r = completed[c],
         WaitersHaveOwner'
  PROVE  AnswersAgree'
<1>1. UNCHANGED <<order, completed, pending, disk, status>>
  BY DEF cacheVars, panelVars
<1>2. \A c \in Commands : completed[c] # NoResult => c \in Elements(order)
  BY DEF Inv, CacheShape
<1>3. NoResult \notin Results /\ \A c : Said(c)' \subseteq Results
  BY DEF NoResult, Results, Said
<1>4. Answered' \subseteq Answered
  BY <1>1, <1>2, <1>3 DEF Answered
<1>5. AnsweredInOrder'
  <2>1. \A d : Redeliverable(d)' => Redeliverable(d)
    BY <1>1 DEF Redeliverable, Unfinished
  <2> QED
    BY <1>1, <1>4, <2>1 DEF AnswersAgree, AnsweredInOrder, Remembered
<1>6. OneResult'
  <2> SUFFICES ASSUME NEW c \in Commands, NEW r \in Said(c)'
               PROVE  c \notin pending /\ completed[c] \in {r, NoResult} /\ Said(c)' = {r}
    BY <1>1 DEF OneResult
  <2>1. CASE completed[c] \in Results
    <3>1. c \notin pending
      BY <1>3, <2>1 DEF Inv, CacheShape
    <3>2. \A x \in Said(c) : x = completed[c]
      BY <1>3, <2>1 DEF AnswersAgree, OneResult
    <3>3. \A x \in Said(c)' : x = completed[c]
      BY <3>2
    <3> QED
      BY <3>1, <3>3
  <2>2. CASE completed[c] \notin Results
    <3>1. Said(c)' \subseteq Said(c)
      BY <1>3, <2>2
    <3> QED
      BY <3>1 DEF AnswersAgree, OneResult
  <2> QED
    BY <2>1, <2>2
<1>7. DiskIsCurrent'
  BY <1>1 DEF AnswersAgree, DiskIsCurrent
<1> QED
  BY <1>5, <1>6, <1>7 DEF AnswersAgree

\* A command that is completed was not answered before.
LEMMA CompleteKeepsAnswers ==
  ASSUME Inv, CacheTypeOK', AnswersAgree, UNCHANGED panelVars,
         Incoming' \subseteq Incoming,
         NEW c \in pending, NEW r \in Results, Complete(c, r),
         "disk" \notin Faults,
         \A d \in Commands : \A x \in Said(d)' : x \in Said(d) \/ (d = c /\ x = r),
         WaitersHaveOwner'
  PROVE  AnswersAgree'
<1>1. /\ c \in Commands /\ completed[c] = NoResult /\ CacheTypeOK
      /\ status' = status
  BY DEF Inv, CacheShape, TypeOK, CacheTypeOK, panelVars
<1>2. pending' = pending \ {c} /\ order' = Trim(Append(order, c)) /\ DiskIsCurrent'
  BY <1>1 DEF Complete, DiskIsCurrent
<1>3. Elements(order') \subseteq Elements(order) \union {c}
  <2>1. /\ Append(order, c) \in Seq(Commands)
        /\ Elements(Append(order, c)) = Elements(order) \union {c}
    BY <1>1, AppendElements DEF CacheTypeOK
  <2> QED
    BY <1>2, <2>1, TrimElements
<1>4. Said(c) = {}
  BY <1>1 DEF AnswersAgree, OneResult
<1>5. Answered' \subseteq Answered \union {c}
  BY <1>3 DEF Answered
<1>6. OneResult'
  <2> SUFFICES ASSUME NEW d \in Commands, NEW x \in Said(d)'
               PROVE  d \notin pending' /\ completed'[d] \in {x, NoResult} /\ Said(d)' = {x}
    BY DEF OneResult
  <2>1. completed'[d] \in {completed[d], NoResult} \/ (d = c /\ completed'[d] = r)
    BY <1>1, CompleteResults
  <2>2. CASE d = c
    BY <1>1, <1>2, <1>4, <2>1, <2>2
  <2>3. CASE d # c
    <3>1. x \in Said(d)
      BY <2>3
    <3>2. d \notin pending /\ completed[d] \in {x, NoResult} /\ Said(d) = {x}
      BY <3>1 DEF AnswersAgree, OneResult
    <3> QED
      BY <1>2, <2>1, <2>3, <3>2
  <2> QED
    BY <2>2, <2>3
<1>7. AnsweredInOrder'
  <2> SUFFICES ASSUME NEW d \in Answered'
               PROVE  /\ status[d] # "absent"
                      /\ \A e \in Commands : e < d => status[e] \in Terminal
                      /\ \A e \in Incoming' : d <= e
                      /\ Redeliverable(d)' => Remembered(order', pending', d)
    BY <1>1 DEF AnsweredInOrder
  <2>1. d \in Commands
    BY DEF Answered, Elements, CacheTypeOK
  <2>2. CASE d = c
    <3>1. c \in Mine /\ c \in Touched
      BY DEF Mine, Touched
    <3>2. Remembered(order', pending', d)
      BY <1>1, <2>1, <2>2, PendingSmall, CompleteRemembers DEF Inv
    <3> QED
      BY <2>2, <3>1, <3>2 DEF Inv, TouchedInOrder, IncomingInOrder
  <2>3. CASE d # c
    <3>1. d \in Answered
      BY <1>5, <2>3
    <3>2. Redeliverable(d)' => Redeliverable(d)
      BY <1>1 DEF Redeliverable, Unfinished
    <3>3. Redeliverable(d) => Remembered(order, pending, d)
      BY <3>1 DEF AnswersAgree, AnsweredInOrder
    <3>4. Remembered(order, pending, d) => Remembered(order', pending', d)
      BY <1>1, <2>1, PendingSmall, CompleteRemembers DEF Inv
    <3> QED
      BY <3>1, <3>2, <3>3, <3>4 DEF AnswersAgree, AnsweredInOrder
  <2> QED
    BY <2>2, <2>3
<1> QED
  BY <1>2, <1>6, <1>7 DEF AnswersAgree
\* Steps of the read loop, the sessions and the goroutines that complete nothing.
LEMMA RepliesKeepAnswers ==
  ASSUME Inv, AnswersAgree, AgentStep, UNCHANGED panelVars,
         \/ Dial \/ LinkLost \/ LinkClosed \/ Receive \/ ReplayCached \/ JoinPending
         \/ Enqueue \/ StartExecution \/ ReplayPending
  PROVE  AnswersAgree'
<1>1. UNCHANGED cacheVars
  BY DEF Dial, LinkLost, LinkClosed, Receive, ReplayCached, BeginCached, JoinPending,
     BeginJoin, Enqueue, StartExecution, ReplayPending
<1>2. WaitersHaveOwner /\ UNCHANGED <<pending, completed>>
  BY <1>1 DEF AnswersAgree, cacheVars
<1>3. Incoming' \subseteq Incoming
  BY AgentIncoming
<1> DEFINE SaysNothingNew == \A c \in Commands : \A r \in Said(c)' : r \in Said(c) \/ r = completed[c]
<1>4. ASSUME Dial \/ LinkLost \/ LinkClosed \/ Receive \/ Enqueue \/ StartExecution
      PROVE  WaitersHaveOwner' /\ SaysNothingNew
  <2>1. /\ sent' = sent /\ waiters' \subseteq waiters
        /\ reader' = reader \/ reader'.step # "owned"
    BY <1>4 DEF Dial, LinkLost, LinkClosed, Receive, Enqueue, StartExecution, agentVars, Idle
  <2>2. SaysNothingNew
    BY <2>1 DEF Said
  <2> QED
    BY <1>2, <2>1, <2>2 DEF WaitersHaveOwner
<1>5. ASSUME ReplayCached PROVE WaitersHaveOwner' /\ SaysNothingNew
  <2>1. /\ reader' = Idle /\ waiters' = waiters /\ reader.cmd \in Commands
        /\ sent' = sent \/ sent' = [sent EXCEPT ![reader.cmd] = @ \union {completed[reader.cmd]}]
        /\ sent \in [Commands -> SUBSET Results]
    BY <1>5 DEF ReplayCached, BeginCached, Reply, Inv, TypeOK, AgentTypeOK, CacheTypeOK, Idle
  <2>2. \A c \in Commands : \A r \in sent'[c] : r \in sent[c] \/ r = completed[c]
    BY <2>1
  <2>3. SaysNothingNew
    BY <2>1, <2>2 DEF Said
  <2> QED
    BY <1>2, <2>1, <2>3 DEF WaitersHaveOwner, Idle
<1>6. ASSUME JoinPending PROVE WaitersHaveOwner' /\ SaysNothingNew
  <2>1. /\ sent' = sent /\ reader' = Idle /\ reader.cmd \in pending
        /\ waiters' = waiters \union {[cmd |-> reader.cmd, result |-> NoResult]}
    BY <1>6 DEF JoinPending, BeginJoin
  <2>2. SaysNothingNew
    BY <2>1 DEF Said, Results, NoResult
  <2> QED
    BY <1>2, <2>1, <2>2 DEF WaitersHaveOwner, Idle
<1>7. ASSUME ReplayPending PROVE WaitersHaveOwner' /\ SaysNothingNew
  <2>1. PICK w \in waiters :
          /\ w.result # NoResult /\ waiters' = waiters \ {w}
          /\ sent' = [sent EXCEPT ![w.cmd] = @ \union {w.result}]
    BY <1>7 DEF ReplayPending, Reply
  <2>2. w.cmd \in Commands /\ sent \in [Commands -> SUBSET Results] /\ reader' = reader
    BY <1>7, <2>1 DEF ReplayPending, Inv, TypeOK, AgentTypeOK
  <2>3. \A c \in Commands : \A r \in sent'[c] : r \in sent[c] \/ (w.cmd = c /\ w.result = r)
    BY <2>1, <2>2
  <2>4. SaysNothingNew
    BY <2>1, <2>3 DEF Said
  <2> QED
    BY <1>2, <2>1, <2>2, <2>4 DEF WaitersHaveOwner
<1>8. WaitersHaveOwner' /\ SaysNothingNew
  BY <1>4, <1>5, <1>6, <1>7
<1> QED
  BY <1>1, <1>3, <1>8, NothingNewIsSaid

LEMMA OwnKeepsAnswers ==
  ASSUME Inv, AnswersAgree, TakeOwnership, UNCHANGED panelVars PROVE AnswersAgree'
<1> DEFINE c == reader.cmd
<1>1. /\ UNCHANGED <<order, completed, waiters, sent, status>>
      /\ reader.step = "acked" /\ c \in Commands
      /\ reader' = [step |-> "owned", cmd |-> c]
      /\ completed[c] = NoResult /\ c \notin pending
      /\ pending' = pending \union {c}
      /\ disk' = Snapshot(order, completed, pending')
  BY DEF TakeOwnership, BeginOwn, panelVars, Inv, TypeOK, AgentTypeOK, Idle
<1>2. \A d \in Answered : ~Redeliverable(d)
  BY <1>1, UnknownIsUnanswered DEF AnswersAgree
<1>3. Incoming' \subseteq Incoming
  BY AgentIncoming DEF AgentStep
<1>4. Answered' = Answered /\ \A d \in Commands : Said(d)' = Said(d)
  BY <1>1 DEF Answered, Said
<1>5. Said(c) = {}
  <2>1. c \in Incoming
    BY <1>1 DEF Incoming
  <2> QED
    BY <1>1, <1>2, <2>1 DEF Redeliverable, Answered
<1>6. \A d : Redeliverable(d)' => Redeliverable(d)
  BY <1>1, <1>3 DEF Redeliverable, Unfinished
<1>7. AnsweredInOrder'
  BY <1>1, <1>2, <1>3, <1>4, <1>6 DEF AnswersAgree, AnsweredInOrder
<1>8. OneResult'
  BY <1>1, <1>4, <1>5 DEF AnswersAgree, OneResult
<1>9. WaitersHaveOwner'
  BY <1>1 DEF AnswersAgree, WaitersHaveOwner
<1>10. DiskIsCurrent'
  BY <1>1 DEF DiskIsCurrent
<1> QED
  BY <1>7, <1>8, <1>9, <1>10 DEF AnswersAgree

LEMMA RejectKeepsAnswers ==
  ASSUME Inv, TypeOK', AnswersAgree, RejectFull, UNCHANGED panelVars, "disk" \notin Faults
  PROVE  AnswersAgree'
<1> DEFINE c == reader.cmd
<1>1. /\ Complete(c, "failed") /\ waiters' = waiters /\ reader' = Idle
      /\ sent' = [sent EXCEPT ![c] = @ \union {"failed"}]
      /\ reader = [step |-> "owned", cmd |-> c] /\ c \in pending /\ c \in Commands
      /\ pending' = pending \ {c}
  BY DEF RejectFull, Reply, Complete, Inv, OwnedOnce, TypeOK, AgentTypeOK, Idle
<1>2. \A d \in Commands : \A x \in sent'[d] : x \in sent[d] \/ (d = c /\ x = "failed")
  BY <1>1 DEF Inv, TypeOK, AgentTypeOK
<1>3. \A d \in Commands : \A x \in Said(d)' : x \in Said(d) \/ (d = c /\ x = "failed")
  BY <1>1, <1>2 DEF Said
<1>4. WaitersHaveOwner'
  BY <1>1 DEF AnswersAgree, WaitersHaveOwner, Idle
<1>5. Incoming' \subseteq Incoming
  BY AgentIncoming DEF AgentStep
<1> HIDE DEF c
<1> QED
  BY <1>1, <1>3, <1>4, <1>5, CompleteKeepsAnswers DEF TypeOK, Results

LEMMA FinishKeepsAnswers ==
  ASSUME Inv, TypeOK', AnswersAgree, FinishExecution, UNCHANGED panelVars, "disk" \notin Faults
  PROVE  AnswersAgree'
<1> DEFINE c == running.cmd
<1>1. PICK r \in {"completed", "failed"} :
        /\ Complete(c, r)
        /\ sent' = sent \/ sent' = [sent EXCEPT ![c] = @ \union {r}]
        /\ waiters' = {IF w.cmd = c /\ w.result = NoResult
                       THEN [w EXCEPT !.result = r] ELSE w : w \in waiters}
  BY DEF FinishExecution, Reply
<1>2. /\ reader' = reader /\ c \in pending /\ c \in Commands /\ pending' = pending \ {c}
      /\ r \in Results /\ r # NoResult
  BY <1>1 DEF FinishExecution, Complete, Inv, OwnedOnce, TypeOK, CacheTypeOK, Results, NoResult
<1>3. waiters \subseteq [cmd : Commands, result : Results \union {NoResult}]
  BY DEF Inv, TypeOK, AgentTypeOK
<1> HIDE DEF c
<1>4. ASSUME NEW w \in waiters'
      PROVE  \/ w \in waiters /\ ~(w.cmd = c /\ w.result = NoResult)
             \/ w.cmd = c /\ w.result = r
  <2>1. PICK x \in waiters :
          w = IF x.cmd = c /\ x.result = NoResult THEN [x EXCEPT !.result = r] ELSE x
    BY <1>1, <1>4
  <2> QED
    BY <1>3, <2>1
<1>5. \A d \in Commands : \A x \in sent'[d] : x \in sent[d] \/ (d = c /\ x = r)
  BY <1>1, <1>2 DEF Inv, TypeOK, AgentTypeOK
<1>6. \A d \in Commands : \A x \in Said(d)' : x \in Said(d) \/ (d = c /\ x = r)
  BY <1>4, <1>5 DEF Said
<1>7. WaitersHaveOwner'
  BY <1>2, <1>4 DEF AnswersAgree, WaitersHaveOwner
<1>8. Incoming' \subseteq Incoming
  BY AgentIncoming DEF AgentStep
<1> QED
  BY <1>1, <1>2, <1>6, <1>7, <1>8, CompleteKeepsAnswers DEF TypeOK

\* The new process answers "unknown" for what was in flight, which nobody was
\* told anything about, and the rest as before.
LEMMA RestartKeepsAnswers ==
  ASSUME Inv, TypeOK', AnswersAgree, AgentRestart, UNCHANGED panelVars
  PROVE  AnswersAgree'
<1>1. /\ Reload /\ pending' = {} /\ waiters' = {} /\ sent' = sent /\ reader' = Idle
      /\ status' = status /\ DiskIsCurrent'
  BY DEF AgentRestart, Reload, panelVars, DiskIsCurrent
<1>2. /\ disk.order = order /\ disk.completed = completed /\ disk.accepted = pending
      /\ order \in Seq(Commands) /\ pending \subseteq Commands
  BY DEF AnswersAgree, DiskIsCurrent, Snapshot, Inv, TypeOK, CacheTypeOK
<1>3. \A c \in Commands : Said(c)' \subseteq Said(c)
  BY <1>1 DEF Said
<1>4. Elements(order') \subseteq Elements(order) \union pending
  <2>1. PICK a \in IdOrders(pending) : order' = Trim(order \o a)
    BY <1>1, <1>2 DEF Reload
  <2>2. a \in Seq(pending) /\ Elements(a) = pending
    BY <1>2, <2>1, IdOrderType
  <2>3. /\ order \o a \in Seq(Commands)
        /\ Elements(order \o a) \subseteq Elements(order) \union Elements(a)
    BY <1>2, <2>2 DEF Elements
  <2> QED
    BY <2>1, <2>2, <2>3, TrimElements
<1>5. Answered' \subseteq Answered \union pending
  BY <1>3, <1>4 DEF Answered
<1>6. OneResult'
  <2> SUFFICES ASSUME NEW c \in Commands, NEW r \in Said(c)'
               PROVE  completed'[c] \in {r, NoResult} /\ Said(c)' = {r}
    BY <1>1 DEF OneResult
  <2>1. r \in Said(c) /\ c \notin pending /\ completed[c] \in {r, NoResult} /\ Said(c) = {r}
    BY <1>3 DEF AnswersAgree, OneResult
  <2>2. completed'[c] \in {completed[c], NoResult}
    BY <1>1, <1>2, <2>1 DEF Reload, Keep
  <2> QED
    BY <1>3, <2>1, <2>2
<1>7. AnsweredInOrder'
  <2>1. Incoming' = {}
    BY DEF AgentRestart, Incoming, Idle
  <2> SUFFICES ASSUME NEW c \in Answered'
               PROVE  /\ status[c] # "absent"
                      /\ \A d \in Commands : d < c => status[d] \in Terminal
                      /\ Redeliverable(c)' => Remembered(order', pending', c)
    BY <1>1, <2>1 DEF AnsweredInOrder
  <2>2. c \in Commands
    BY DEF Answered, Elements, TypeOK, CacheTypeOK
  <2>3. Redeliverable(c)' => Redeliverable(c)
    BY <1>1, <2>1 DEF Redeliverable, Unfinished
  <2>4. Remembered(order, pending, c) => Remembered(order', pending', c)
    BY <1>1, <1>2, <2>2, ReloadRemembers DEF Inv, TypeOK
  <2>5. CASE c \in pending
    <3>1. c \in Touched
      BY <2>5 DEF Touched, Mine
    <3> QED
      BY <2>4, <2>5, <3>1 DEF Remembered, Inv, TouchedInOrder
  <2>6. CASE c \notin pending
    BY <1>5, <2>3, <2>4, <2>6 DEF AnswersAgree, AnsweredInOrder
  <2> QED
    BY <2>5, <2>6
<1>8. WaitersHaveOwner'
  BY <1>1 DEF WaitersHaveOwner
<1> QED
  BY <1>1, <1>6, <1>7, <1>8 DEF AnswersAgree

LEMMA PanelKeepsAnswers ==
  ASSUME Inv, TypeOK', AnswersAgree, PanelStep, UNCHANGED <<cacheVars, agentVars>>
  PROVE  AnswersAgree'
<1>1. RowsAdvance
  BY PanelStepKeepsInv
<1>2. UNCHANGED <<order, completed, pending, disk, waiters, sent, reader>>
  BY DEF cacheVars, agentVars
<1>3. Answered' = Answered /\ \A c \in Commands : Said(c)' = Said(c)
  BY <1>2 DEF Answered, Said
<1>4. Incoming' \subseteq Commands
  <2>1. link' # NoSession => down'[link'] \in Seq(Commands)
    BY DEF TypeOK, WireTypeOK
  <2>2. reader'.step = "acked" => reader'.cmd \in Commands
    BY DEF TypeOK, AgentTypeOK, Idle
  <2> QED
    BY <2>1, <2>2 DEF Incoming, Elements
<1>5. AnsweredInOrder'
  <2> SUFFICES ASSUME NEW c \in Answered
               PROVE  /\ status'[c] # "absent"
                      /\ \A d \in Commands : d < c => status'[d] \in Terminal
                      /\ \A d \in Incoming' : c <= d
                      /\ Redeliverable(c)' => Remembered(order, pending, c)
    BY <1>2, <1>3 DEF AnsweredInOrder
  <2>1. c \in Commands
    BY DEF Answered, Elements, Inv, TypeOK, CacheTypeOK
  <2>2. /\ status[c] # "absent"
        /\ \A d \in Commands : d < c => status[d] \in Terminal
        /\ \A d \in Incoming : c <= d
        /\ Redeliverable(c) => Remembered(order, pending, c)
    BY DEF AnswersAgree, AnsweredInOrder
  <2>3. ASSUME NEW d \in Incoming' PROVE c <= d
    <3>1. CASE d < c
      <4>1. d \in Commands /\ status'[d] \in Terminal
        BY <1>1, <1>4, <2>2, <3>1 DEF RowsAdvance
      <4>2. d \in Incoming
        BY <1>1, <4>1 DEF RowsAdvance, Terminal, InFlight
      <4> QED
        BY <2>2, <4>2
    <3> QED
      BY <1>4, <2>1, <3>1 DEF Commands
  <2>4. Redeliverable(c)' => Redeliverable(c)
    <3>1. CASE c \in Incoming
      BY <3>1 DEF Redeliverable
    <3>2. CASE c \notin Incoming
      <4>1. Redeliverable(c)' => status'[c] \notin Terminal
        BY <1>1, <3>2 DEF Redeliverable, Unfinished, RowsAdvance, Terminal, InFlight
      <4>2. status[c] \notin Terminal => Unfinished(c)
        BY <2>1, <2>2 DEF Unfinished, Inv, TypeOK, PanelTypeOK, Statuses
      <4> QED
        BY <1>1, <2>1, <4>1, <4>2 DEF RowsAdvance, Redeliverable
    <3> QED
      BY <3>1, <3>2
  <2> QED
    BY <1>1, <2>1, <2>2, <2>3, <2>4 DEF RowsAdvance
<1>6. OneResult'
  BY <1>2, <1>3 DEF AnswersAgree, OneResult
<1>7. WaitersHaveOwner' /\ DiskIsCurrent'
  BY <1>2 DEF AnswersAgree, WaitersHaveOwner, DiskIsCurrent
<1> QED
  BY <1>5, <1>6, <1>7 DEF AnswersAgree

LEMMA AnswersStep ==
  ASSUME Inv, AnswersAgree, "disk" \notin Faults, [Next]_vars PROVE AnswersAgree'
<1>1. TypeOK'
  BY TypeStep DEF Inv
<1>2. CASE PanelStep /\ UNCHANGED <<cacheVars, agentVars>>
  BY <1>1, <1>2, PanelKeepsAnswers
<1>3. CASE UNCHANGED vars
  <2>1. UNCHANGED <<cacheVars, panelVars, waiters, sent, reader, link, down>>
    BY <1>3 DEF vars, wireVars, agentVars
  <2>2. Incoming' = Incoming /\ \A c \in Commands : Said(c)' = Said(c)
    BY <2>1 DEF Incoming, Said
  <2>3. WaitersHaveOwner'
    BY <2>1 DEF AnswersAgree, WaitersHaveOwner, cacheVars
  <2> QED
    BY <2>1, <2>2, <2>3, NothingNewIsSaid
<1>4. CASE AgentStep /\ UNCHANGED panelVars
  <2>1. ~RefuseUnpersisted
    BY DEF RefuseUnpersisted, BeginRefused
  <2> QED
    BY <1>1, <1>4, <2>1, RepliesKeepAnswers, OwnKeepsAnswers, RejectKeepsAnswers,
       FinishKeepsAnswers, RestartKeepsAnswers DEF AgentStep
<1> QED
  BY <1>2, <1>3, <1>4 DEF Next

LEMMA AnswersInit ==
  ASSUME Init PROVE AnswersAgree
<1>1. /\ order = <<>> /\ disk = Snapshot(order, completed, pending) /\ waiters = {}
      /\ sent = [c \in Commands |-> {}]
  BY DEF Init, AgentInit, CacheInit
<1>2. \A c \in Commands : Said(c) = {}
  BY <1>1 DEF Said
<1>3. Answered = {}
  BY <1>1, <1>2 DEF Answered, Elements
<1> QED
  BY <1>1, <1>2, <1>3 DEF AnswersAgree, DiskIsCurrent, WaitersHaveOwner, OneResult,
     AnsweredInOrder

\* Everything inductive about commands holds in every behaviour: what the panel
\* may send again is remembered, claims of success are true, the queue is in
\* order, and, as long as the state file can be written, answers agree.
THEOREM HistoryHolds == Spec => []HistoryInv
<1>1. Init => HistoryInv
  <2>1. ASSUME Init PROVE QueueInOrder /\ ClaimsAreTrue
    BY <2>1, QueueInit, ClaimsInit
  <2> QED
    BY <2>1, InvInit, AnswersInit DEF HistoryInv
<1>2. HistoryInv /\ [Next]_vars => HistoryInv'
  BY InvStep, QueueStep, ClaimsStep, AnswersStep DEF HistoryInv
<1> QED
  BY <1>1, <1>2, PTL DEF Spec

\* Whoever asks again gets the same answer, also from a new process ('Redelivered
\* IDs replay the prior result without executing again, including across process
\* restarts', agent/README.md:53), as long as the state file can be written.
THEOREM AnswersAreTheSame ==
  ASSUME "disk" \notin Faults PROVE Spec => []OneAnswer
<1>1. ASSUME HistoryInv, NEW c \in Commands PROVE Cardinality(sent[c]) <= 1
  <2>1. sent[c] \subseteq Said(c)
    BY <1>1, SentIsSaid DEF HistoryInv, Inv
  <2>2. CASE sent[c] = {}
    BY <2>2, FS_EmptySet
  <2>3. ASSUME NEW r \in sent[c] PROVE Cardinality(sent[c]) <= 1
    <3>1. Said(c) = {r}
      BY <1>1, <2>1, <2>3 DEF HistoryInv, AnswersAgree, OneResult
    <3>2. sent[c] = {r}
      BY <2>1, <2>3, <3>1
    <3>3. Cardinality({r}) = 1
      BY FS_Singleton
    <3> QED
      BY <3>2, <3>3
  <2> QED
    BY <2>2, <2>3
<1>2. HistoryInv => OneAnswer
  BY <1>1 DEF OneAnswer
<1> QED
  BY <1>2, HistoryHolds, PTL
=============================================================================
