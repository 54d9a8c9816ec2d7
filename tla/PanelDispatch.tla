---------------------------- MODULE PanelDispatch ----------------------------
(***************************************************************************)
(* The panel's side of server commands: ServerAgentService and the         *)
(* server_commands table of ServerAgentStore, for one binding.  The API is *)
(* one JavaScript thread and SQLite is synchronous, so every handler is    *)
(* one action.  Commands are numbered in the order of created_at.          *)
(***************************************************************************)
EXTENDS AgentSocket

CONSTANTS
  MaxRestarts,      \* bound: restarts of the API process
  CloseCallbacks    \* when the WebSocket server runs the close callback of a
                    \* socket the panel closes: "inline" or "later"

ASSUME MaxRestartsAssumption == MaxRestarts \in Nat
ASSUME CloseCallbacksAssumption ==
  CloseCallbacks \in (SUBSET {"inline", "later"}) \ {{}}

VARIABLES
  made,         \* number of commands created so far
  aged,         \* commands 1..aged were created more than five minutes ago
  status,       \* server_commands.status, or "absent" for no row
  active,       \* sockets.get(bindingId), or NoSession
  restarts      \* restarts of the API process so far

panelVars == <<made, aged, status, active, restarts>>

\* "expired" is status failed with the error 'Command expired before delivery'.
InFlight == {"delivered", "running"}
Terminal == {"succeeded", "failed", "expired"}
Statuses == {"absent", "queued"} \union InFlight \union Terminal

PanelInit ==
  /\ made = 0
  /\ aged = 0
  /\ status = [c \in Commands |-> "absent"]
  /\ active = NoSession
  /\ restarts = 0

\* requeueActive
Requeued(st) == [c \in Commands |-> IF st[c] \in InFlight THEN "queued" ELSE st[c]]

\* What the recursion of dispatchNext fails at the head of the queue.
Expired(st) == [c \in Commands |->
                  IF st[c] = "queued" /\ c <= aged THEN "expired" ELSE st[c]]

\* Mutant of Finished: the agent's word for the result becomes the status.
FinishedVerbatim(st, c, r) ==
  IF st[c] \in Terminal \union {"absent"} THEN st ELSE [st EXCEPT ![c] = r]

\* Mutant of Finished: a late result replaces a terminal status.
FinishedAgain(st, c, r) ==
  [st EXCEPT ![c] = IF r = "completed" THEN "succeeded" ELSE "failed"]

\* finishCommand: a terminal row is left alone, a missing one ignored.
Finished(st, c, r) ==
  IF st[c] \in Terminal \union {"absent"} THEN st
  ELSE [st EXCEPT ![c] = IF r = "completed" THEN "succeeded" ELSE "failed"]

Queued(st) == {c \in Commands : st[c] = "queued"}

\* Mutant of FirstQueued: pendingCommands without its ORDER BY.
AnyQueued(st, c) == c \in Queued(st)

\* pendingCommands(bindingId)[0]
FirstQueued(st, c) == c \in Queued(st) /\ \A d \in Queued(st) : c <= d

\* Mutant of HasActive: an acknowledged command no longer counts.
HasDelivered(st) == \E c \in Commands : st[c] = "delivered"

HasActive(st) == \E c \in Commands : st[c] \in InFlight

\* dispatchNext on rows st, socket states sk and bound session act: nothing to
\* do, only expired commands, a command sent, or a send that throws and makes
\* the panel forget the socket.  Bound: the last session the model allows is
\* not lost, here and in the other actions that test MaxSessions.
Dispatch(st, sk, act) ==
  \/ /\ act = NoSession \/ HasActive(st)
     /\ status' = st /\ sock' = sk /\ active' = act /\ down' = down
  \/ /\ act # NoSession /\ ~HasActive(st)
     /\ Queued(Expired(st)) = {}
     /\ status' = Expired(st) /\ sock' = sk /\ active' = act /\ down' = down
  \/ /\ act # NoSession /\ ~HasActive(st)
     /\ \E c \in Commands :
          /\ FirstQueued(Expired(st), c)
          /\ status' = [Expired(st) EXCEPT ![c] = "delivered"]
          /\ down' = [down EXCEPT ![act] = Append(@, c)]
     /\ sock' = sk /\ active' = act
  \/ /\ "send" \in Faults /\ act < MaxSessions
     /\ act # NoSession /\ ~HasActive(st)
     /\ Queued(Expired(st)) # {}
     /\ status' = Requeued(Expired(st))
     /\ sock' = [sk EXCEPT ![act] = "open"]
     /\ active' = NoSession
     /\ down' = down

\* createCommand, for any valid command type and payload.
CreateCommand ==
  /\ made < NumCommands
  /\ made' = made + 1
  /\ Dispatch([status EXCEPT ![made'] = "queued"], sock, active)
  /\ UNCHANGED <<used, link, up, aged, restarts>>

\* Five minutes pass for one more command.
Age ==
  /\ "age" \in Faults
  /\ aged < made
  /\ aged' = aged + 1
  /\ UNCHANGED <<wireVars, made, status, active, restarts>>

\* open: the socket waits for hello, or is refused when the sockets of other
\* agents already fill pendingSockets.
Open(s) ==
  /\ s <= used
  /\ sock[s] = "new"
  /\ \/ sock' = [sock EXCEPT ![s] = "open"] /\ up' = up
     \/ /\ "refuse" \in Faults
        /\ s < MaxSessions
        /\ sock' = [sock EXCEPT ![s] = "closed"]
        /\ up' = [up EXCEPT ![s] = <<>>]
  /\ UNCHANGED <<used, link, down, panelVars>>

\* The five second hello timer, a hello that is not accepted, or handle for any
\* other message of an unbound socket.
CloseUnbound(s) ==
  /\ sock[s] = "open"
  /\ s < MaxSessions
  /\ sock' = [sock EXCEPT ![s] = "closed"]
  /\ up' = [up EXCEPT ![s] = <<>>]
  /\ UNCHANGED <<used, link, down, panelVars>>

\* hello: the new socket replaces the previous one, whose close callback runs
\* inside previous.close() or at some later time (SocketClosed); then dispatch.
HelloMessage(s) ==
  /\ sock[s] \in {"open", "bound"}
  /\ up[s] # <<>> /\ Head(up[s]) = Hello
  /\ active < MaxSessions
  /\ \/ /\ active \notin {NoSession, s}
        /\ "inline" \in CloseCallbacks
        /\ up' = [up EXCEPT ![s] = Tail(@), ![active] = <<>>]
        /\ Dispatch(Requeued(status),
                    [sock EXCEPT ![s] = "bound", ![active] = "closed"], s)
     \/ /\ active \in {NoSession, s} \/ "later" \in CloseCallbacks
        /\ up' = [up EXCEPT ![s] = Tail(@)]
        /\ Dispatch(status, [sock EXCEPT ![s] = "bound"], s)
  /\ UNCHANGED <<used, link, made, aged, restarts>>

\* ack: markRunning only moves a queued or delivered row.
AckMessage(s) ==
  /\ sock[s] = "bound"
  /\ up[s] # <<>> /\ Head(up[s]).type = "ack"
  /\ up' = [up EXCEPT ![s] = Tail(@)]
  /\ LET c == Head(up[s]).cmd
     IN status' = IF status[c] \in {"queued", "delivered"}
                  THEN [status EXCEPT ![c] = "running"] ELSE status
  /\ UNCHANGED <<used, link, sock, down, made, aged, active, restarts>>

\* Mutant of ResultMessage: a result does not dispatch the next command.
ResultWithoutDispatch(s) ==
  /\ sock[s] = "bound"
  /\ up[s] # <<>> /\ Head(up[s]).type = "result"
  /\ up' = [up EXCEPT ![s] = Tail(@)]
  /\ status' = Finished(status, Head(up[s]).cmd, Head(up[s]).result)
  /\ UNCHANGED <<used, link, sock, down, made, aged, active, restarts>>

\* complete and fail: finish the row, then dispatch the next command.
ResultMessage(s) ==
  /\ sock[s] = "bound"
  /\ up[s] # <<>> /\ Head(up[s]).type = "result"
  /\ up' = [up EXCEPT ![s] = Tail(@)]
  /\ Dispatch(Finished(status, Head(up[s]).cmd, Head(up[s]).result), sock, active)
  /\ UNCHANGED <<used, link, made, aged, restarts>>

\* close: only the close of the socket in use puts active commands back.
SocketClosed(s) ==
  /\ sock[s] = "bound"
  /\ s < used \/ ("link" \in Faults /\ s < MaxSessions)
  /\ sock' = [sock EXCEPT ![s] = "closed"]
  /\ up' = [up EXCEPT ![s] = <<>>]
  /\ IF s = active
     THEN active' = NoSession /\ status' = Requeued(status)
     ELSE UNCHANGED <<active, status>>
  /\ UNCHANGED <<used, link, down, made, aged, restarts>>

\* The API process restarts: its sockets are gone, the constructor requeues.
PanelRestart ==
  /\ "restart" \in Faults
  /\ restarts < MaxRestarts
  /\ used < MaxSessions
  /\ restarts' = restarts + 1
  /\ sock' = [s \in Sessions |-> IF s <= used THEN "closed" ELSE sock[s]]
  /\ up' = [s \in Sessions |-> <<>>]
  /\ active' = NoSession
  /\ status' = Requeued(status)
  /\ UNCHANGED <<used, link, down, made, aged>>

PanelStep ==
  \/ CreateCommand \/ Age \/ PanelRestart
  \/ \E s \in Sessions : \/ Open(s) \/ CloseUnbound(s) \/ HelloMessage(s)
                         \/ AckMessage(s) \/ ResultMessage(s) \/ SocketClosed(s)

\* The types of the panel's state.
PanelTypeOK ==
  /\ made \in 0..NumCommands
  /\ aged \in 0..NumCommands
  /\ status \in [Commands -> Statuses]
  /\ active \in Sessions \union {NoSession}
  /\ restarts \in Nat
=============================================================================
