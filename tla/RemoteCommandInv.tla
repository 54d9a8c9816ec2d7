-------------------------- MODULE RemoteCommandInv --------------------------
(***************************************************************************)
(* The inductive invariant behind AtMostOnce.  The agent forgets old       *)
(* results, so at-most-once execution rests on an argument about both      *)
(* sides: the panel only sends the oldest unfinished command, hence only   *)
(* the newest command the agent ever owned can come back, and that one is  *)
(* never far enough from the end of the retained results to be evicted.    *)
(***************************************************************************)
EXTENDS RemoteCommand

\* Commands the read loop has yet to admit.
Incoming ==
  (IF link # NoSession THEN Elements(down[link]) ELSE {})
    \union (IF reader.step = "acked" THEN {reader.cmd} ELSE {})

IsAck(m, c) == m.type = "ack" /\ m.cmd = c

\* Commands whose acknowledgement is on its way to the panel.
Announced ==
  {c \in Commands :
     \E s \in Sessions : \E i \in DOMAIN up[s] : IsAck(up[s][i], c)}

\* Commands the agent owns or has executed.
Mine == pending \union {c \in Commands : executions[c] > 0}

Touched ==
  Mine \union Incoming \union Announced \union {c \in Commands : status[c] \in InFlight}

Unfinished(c) == status[c] \in {"queued"} \union InFlight

\* The panel may still make the read loop see the command.
Redeliverable(c) == c \in Incoming \/ Unfinished(c)

\* The cache o, p knows command c, and will until everything in flight is done.
Remembered(o, p, c) ==
  \/ c \in p
  \/ \E i \in DOMAIN o : o[i] = c /\ Len(o) - i + Cardinality(p) < CacheLimit

\* Sessions that were not dialled are untouched; both ends use dialled ones.
SessionsInUse ==
  /\ link <= used
  /\ active <= used
  /\ \A s \in Sessions : s > used => down[s] = <<>> /\ sock[s] = "new"
  /\ \A s \in Sessions : sock[s] = "new" => s # active
  /\ link = NoSession => reader = Idle

\* Rows exist for the commands created so far.
RowsCreated == \A c \in Commands : status[c] = "absent" <=> c > made

\* What was ever sent to the agent has no unfinished predecessor.
TouchedInOrder ==
  \A c \in Touched :
    /\ status[c] # "absent"
    /\ \A d \in Commands : d < c => status[d] \in Terminal

\* What comes in is never older than what the agent owns.
IncomingInOrder ==
  /\ \A c \in Incoming : \A d \in Mine : d <= c
  /\ link # NoSession =>
       \A i, j \in DOMAIN down[link] : i < j => down[link][i] <= down[link][j]
  /\ link # NoSession /\ reader.step = "acked" =>
       \A i \in DOMAIN down[link] : reader.cmd <= down[link][i]

\* Each owned command is in exactly one place, and only the worker's was run.
OwnedOnce ==
  /\ \A i \in DOMAIN queue :
       /\ queue[i].cmd \in pending
       /\ executions[queue[i].cmd] = 0
       /\ \A j \in DOMAIN queue : i # j => queue[i].cmd # queue[j].cmd
       /\ reader.step = "owned" => queue[i].cmd # reader.cmd
  /\ reader.step = "owned" => reader.cmd \in pending /\ executions[reader.cmd] = 0
  /\ running # Nothing => running.cmd \in pending /\ executions[running.cmd] = 1

\* Everything pending is with the reader, in the queue or with the worker.
PendingHeld ==
  /\ Len(queue) <= QueueCapacity
  /\ \A c \in pending :
       \/ \E i \in DOMAIN queue : queue[i].cmd = c
       \/ reader = [step |-> "owned", cmd |-> c]
       \/ running # Nothing /\ running.cmd = c

\* completed and order of the Go struct agree, in memory and on disk.
CacheShape ==
  /\ Elements(order) = {c \in Commands : completed[c] # NoResult}
  /\ Elements(disk.order) = {c \in Commands : disk.completed[c] # NoResult}
  /\ \A c \in pending : completed[c] = NoResult

\* The file never holds more accepted ids than can be retained.
DiskBound == Cardinality(disk.accepted) <= QueueCapacity + 2

\* A command that may come back after the agent owned it is remembered, in
\* memory and, for a new process, on disk.
RememberedInMemory == \A c \in Mine : Redeliverable(c) => Remembered(order, pending, c)
RememberedOnDisk ==
  \A c \in Mine : Redeliverable(c) => Remembered(disk.order, disk.accepted, c)

\* Inductive: no step of the agent, the panel or the network breaks it, and
\* with it a redelivered command is always recognised.
Inv ==
  /\ TypeOK
  /\ SessionsInUse
  /\ RowsCreated
  /\ TouchedInOrder
  /\ IncomingInOrder
  /\ OwnedOnce
  /\ PendingHeld
  /\ CacheShape
  /\ DiskBound
  /\ RememberedInMemory
  /\ RememberedOnDisk
  /\ AtMostOnce
-----------------------------------------------------------------------------
\* A message is on its way to the panel.
OnWire(m) == \E s \in Sessions : \E i \in DOMAIN up[s] : up[s][i] = m

\* Whatever can make the panel report success: the cache in memory and on disk,
\* a goroutine about to replay, a message on its way.
SuccessClaimed(c) ==
  \/ completed[c] = "completed" \/ disk.completed[c] = "completed"
  \/ \E w \in waiters : w.cmd = c /\ w.result = "completed"
  \/ OnWire(ResultOf(c, "completed"))

\* Success is only claimed for a run that ended so, and a run ends once.
ClaimsAreTrue ==
  \A c \in Commands :
    /\ executions[c] = 0 => outcome[c] = NoResult
    /\ running # Nothing /\ running.cmd = c => outcome[c] = NoResult
    /\ SuccessClaimed(c) => outcome[c] = "completed"

\* The queue and the command being admitted are in order, and later than
\* everything that was executed.
QueueInOrder ==
  /\ \A i, j \in DOMAIN queue : i < j => queue[i].cmd < queue[j].cmd
  /\ reader.step = "owned" => \A i \in DOMAIN queue : queue[i].cmd < reader.cmd
  /\ \A c \in Commands : executions[c] > 0 =>
       /\ \A i \in DOMAIN queue : c < queue[i].cmd
       /\ reader.step = "owned" => c < reader.cmd

\* What was answered for a command, or is about to be.
Said(c) ==
  {r \in Results : r \in sent[c] \/ \E w \in waiters : w.cmd = c /\ w.result = r}

\* Commands the agent is done with, as far as it or anyone it told knows.
Answered == Elements(order) \union {c \in Commands : Said(c) # {}}

\* As long as the state file can be written, it says what memory says.
DiskIsCurrent == disk = Snapshot(order, completed, pending)

\* A goroutine only waits for a command the queue or the worker holds.
WaitersHaveOwner ==
  \A w \in waiters : w.result = NoResult =>
    w.cmd \in pending /\ reader # [step |-> "owned", cmd |-> w.cmd]

\* An answered command is not in flight, and has one result at most.
OneResult ==
  \A c \in Commands : \A r \in Said(c) :
    /\ c \notin pending
    /\ completed[c] \in {r, NoResult}
    /\ Said(c) = {r}

\* What was answered is not younger than what comes in, and has no unfinished
\* predecessor; if it may come in again, it is remembered.
AnsweredInOrder ==
  \A c \in Answered :
    /\ status[c] # "absent"
    /\ \A d \in Commands : d < c => status[d] \in Terminal
    /\ \A d \in Incoming : c <= d
    /\ Redeliverable(c) => Remembered(order, pending, c)

\* The inductive invariant behind OneAnswer.
AnswersAgree == DiskIsCurrent /\ WaitersHaveOwner /\ OneResult /\ AnsweredInOrder

\* Everything that is inductive about commands, proved together with Inv.
HistoryInv ==
  /\ Inv
  /\ QueueInOrder
  /\ ClaimsAreTrue
  /\ "disk" \notin Faults => AnswersAgree
=============================================================================
