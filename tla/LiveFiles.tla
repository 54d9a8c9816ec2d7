------------------------------- MODULE LiveFiles -------------------------------
(***************************************************************************)
(* The live files of a game server: the panel asks the agent over its        *)
(* WebSocket (requestFilesystem in server-agent.service.ts, the routes in     *)
(* servers.routes.ts), the read loop of the agent (agent.go) does one request *)
(* after another (filesystem.go) and answers.  Requests overlap: pages read   *)
(* while a job writes, and a cancelled job leaves its request behind.  What    *)
(* a file holds is the number of the request that wrote it, 0 for no file.    *)
(* A delete names several paths and moves one after another to the trash: it   *)
(* may fail when the first are gone.                                           *)
(***************************************************************************)
EXTENDS Naturals, Sequences, FiniteSets

CONSTANTS Requests,  \* numbers of the requests, in the order they are made
          Files,     \* paths
          Conns      \* numbers of the connections of the agent, in their order

Before == 8 \* what a file holds that is there before the first request

ASSUME LiveAssumption == Requests \subseteq Nat \ {0, Before} /\ Conns \subseteq Nat \ {0}

VARIABLES request,  \* request[r]: what it asks and what the panel has heard
          current,  \* the socket of the binding in sockets, 0 for none
          bound,    \* the sockets in bindings
          conn,     \* the connection that the agent reads, 0 for none
          opened,   \* the connections there have been
          down, up, \* messages on each connection
          file,     \* file[f]: what is at the path f
          applied   \* history: what each request has really done and given, or Nought

liveVars == <<request, current, bound, conn, opened, down, up, file, applied>>

Nought == [times |-> 0, ok |-> FALSE, seen |-> 0, touched |-> {}]
NoRequest == [op |-> "none", path |-> "none", to |-> "none", sock |-> 0, phase |-> "none", seen |-> 0]
Operations == {"read", "write", "create", "move", "delete"}

LiveInit ==
    /\ request = [r \in Requests |-> NoRequest]
    /\ current = 0 /\ bound = {} /\ conn = 0 /\ opened = {}
    /\ down = [s \in Conns |-> <<>>] /\ up = [s \in Conns |-> <<>>]
    /\ file \in [Files -> {0, Before}]
    /\ applied = [r \in Requests |-> Nought]

-----------------------------------------------------------------------------
(* The panel *)

(* A request fails at once when no agent is connected; else it is pending until its answer. *)
(* It names one path, a move two, a delete one or more (two here). *)
Ask(r) ==
    /\ request[r].op = "none" /\ \A q \in Requests : q < r => request[q].op # "none"
    /\ \E op \in Operations, f, to \in Files :
          /\ op = "move" => f # to
          /\ f # to => op \in {"move", "delete"}
          /\ request' = [request EXCEPT ![r] =
                [op |-> op, path |-> f, to |-> to, sock |-> current, seen |-> 0,
                 phase |-> IF current = 0 THEN "failed" ELSE "waiting"]]
    /\ down' = IF current = 0 THEN down ELSE [down EXCEPT ![current] = Append(@, r)]
    /\ UNCHANGED <<current, bound, conn, opened, up, file, applied>>

Settled(r, phase, seen) == [request EXCEPT ![r].phase = phase, ![r].seen = seen]

\* Mutant: an answer is for whatever request of the socket is pending.
AnyPending(s, id) == {r \in Requests : request[r].phase = "waiting" /\ request[r].sock = s}

(* pendingFilesystem by the id of the answer, if it was sent to this socket. *)
PendingFor(s, id) == {r \in {id} : request[r].phase = "waiting" /\ request[r].sock = s}

(* filesystemResponse; the messages of a socket that is not bound any more are not looked at. *)
Hear(s) ==
    /\ up[s] # <<>>
    /\ up' = [up EXCEPT ![s] = Tail(@)]
    /\ LET answer == Head(up[s])
           for == IF s \in bound THEN PendingFor(s, answer.id) ELSE {}
       IN  IF for = {} THEN UNCHANGED request
           ELSE \E r \in for : request' = Settled(r, IF answer.ok THEN "ok" ELSE "failed", answer.seen)
    /\ UNCHANGED <<current, bound, conn, opened, down, file, applied>>

\* Mutant: a request has no timer.
NoTimer(r) == FALSE
TimerRuns(r) == request[r].phase = "waiting"

(* The thirty seconds of a request are over. *)
TimeOut(r) ==
    /\ TimerRuns(r)
    /\ request' = Settled(r, "failed", 0)
    /\ UNCHANGED <<current, bound, conn, opened, down, up, file, applied>>

(* close: what was sent to the socket of the binding fails; one that was replaced is forgotten. *)
(* The panel may see the end of a connection that the agent still reads. *)
SocketCloses(s) ==
    /\ s \in bound /\ (s # conn \/ opened # Conns)
    /\ bound' = bound \ {s}
    /\ up' = [up EXCEPT ![s] = <<>>]
    /\ IF s = current
       THEN /\ current' = 0
            /\ request' = [r \in Requests |->
                  IF request[r].phase = "waiting" /\ request[r].sock = s
                  THEN [request[r] EXCEPT !.phase = "failed"] ELSE request[r]]
       ELSE UNCHANGED <<current, request>>
    /\ UNCHANGED <<conn, opened, down, file, applied>>

-----------------------------------------------------------------------------
(* The agent *)

(* connect, and hello of the panel: a newer connection replaces the one there is. *)
Connects ==
    /\ conn = 0
    /\ \E s \in Conns \ opened :
          /\ \A r \in Conns \ opened : s <= r
          /\ conn' = s /\ opened' = opened \cup {s}
          /\ current' = s /\ bound' = bound \cup {s}
    /\ UNCHANGED <<request, down, up, file, applied>>

(* The connection ends; what the agent has not read is lost. *)
AgentLoses ==
    /\ conn # 0 /\ (opened # Conns \/ conn \notin bound)
    /\ conn' = 0
    /\ down' = [down EXCEPT ![conn] = <<>>]
    /\ UNCHANGED <<request, current, bound, opened, up, file, applied>>

(* executeFilesystem: the files afterwards, and whether it worked. *)
Works(q) ==
    CASE q.op = "write"  -> TRUE
      [] q.op = "create" -> file[q.path] = 0
      [] q.op = "move"   -> file[q.path] # 0 /\ file[q.to] = 0
      [] OTHER           -> file[q.path] # 0 /\ file[q.to] # 0

Changed(r, q) ==
    CASE q.op \in {"write", "create"} -> [file EXCEPT ![q.path] = r]
      [] q.op = "move"                -> [file EXCEPT ![q.path] = 0, ![q.to] = file[q.path]]
      [] q.op = "delete"              -> [file EXCEPT ![q.path] = 0, ![q.to] = 0]
      [] OTHER                        -> file

(* What a request that fails may leave: a delete has moved the first of its paths by then. *)
Halfway(q) ==
    {file} \cup IF q.op = "delete" /\ q.path # q.to /\ file[q.path] # 0
                THEN {[file EXCEPT ![q.path] = 0]} ELSE {}

\* Mutant: a request is handled in a goroutine of its own.
AnyMessage(s) == DOMAIN down[s]
NextMessage(s) == IF down[s] = <<>> THEN {} ELSE {1}

(* The read loop does the next request, or fails at it for another reason, and answers. *)
Serve ==
    /\ conn # 0
    /\ \E i \in NextMessage(conn), ok \in BOOLEAN :
          LET r == down[conn][i]
              q == request[r]
              answer == [id |-> r, ok |-> ok, seen |-> IF ok /\ q.op = "read" THEN file[q.path] ELSE 0]
          IN  /\ ok => Works(q)
              /\ file' \in IF ok THEN {Changed(r, q)} ELSE Halfway(q)
              /\ applied' = [applied EXCEPT ![r] =
                    [times |-> @.times + 1, ok |-> ok, seen |-> answer.seen,
                     touched |-> {f \in Files : file'[f] # file[f]}]]
              /\ down' = [down EXCEPT ![conn] = SubSeq(@, 1, i - 1) \o SubSeq(@, i + 1, Len(@))]
              /\ up' = IF conn \in bound THEN [up EXCEPT ![conn] = Append(@, answer)] ELSE up
    /\ UNCHANGED <<request, current, bound, conn, opened>>

LiveNext ==
    \/ Connects \/ AgentLoses \/ Serve
    \/ \E r \in Requests : Ask(r) \/ TimeOut(r)
    \/ \E s \in Conns : Hear(s) \/ SocketCloses(s)

(* The timer of a request fires. *)
LiveFairness == \A r \in Requests : WF_liveVars(TimeOut(r))

LiveSpec == LiveInit /\ [][LiveNext]_liveVars /\ LiveFairness

-----------------------------------------------------------------------------
(* Properties *)

Changes == {"write", "create", "delete"}

\* What a request leaves at each of its paths.
Left(r) == IF request[r].op = "delete" THEN 0 ELSE r

\* A request takes effect once at most, and what is reported as written or deleted is so unless
\* a request that was made later has changed that path, be it one that failed halfway: one that
\* was given up, by its timer, a lost connection or a cancelled job, never undoes a later one.
ReportedIsInPlace ==
    \A r \in Requests :
       /\ applied[r].times <= 1
       /\ request[r].phase = "ok" /\ request[r].op \in Changes =>
             \A f \in {request[r].path, request[r].to} :
                file[f] = Left(r) \/ \E q \in Requests : q > r /\ f \in applied[q].touched

\* What the panel reports of a request is what that request gave, however late other answers
\* come ("correlates ephemeral live filesystem responses", server-agent.service.test.ts:132).
AnswerIsItsOwn ==
    \A r \in Requests :
       request[r].phase = "ok" => applied[r].ok /\ request[r].seen = applied[r].seen

\* What the panel reports of a live file (requestFilesystem, server-agent.service.ts:107) is the
\* answer to that request, and it was so.  Nothing is said of the files after one that failed.
FilesAreAsReported == ReportedIsInPlace /\ AnswerIsItsOwn

\* Every request is answered or fails, also when its socket was replaced before it closed: one
\* that did not would wait for ever.
RequestSettles == []<>(\A r \in Requests : request[r].phase # "waiting")
=============================================================================
