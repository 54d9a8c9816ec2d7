-------------------------------- MODULE JobProofs --------------------------------
(***************************************************************************)
(* Background jobs, for any number of jobs, queues, log events and restarts.  *)
(* The argument: where the runJob call of a job is determines its status, its *)
(* signal and its cancellation mark (Agrees), all entries of a queue but the  *)
(* first wait (FollowersWait), and the first is where drainQueue believes it  *)
(* to be (HeadsAreRun).                                                        *)
(*                                                                            *)
(* And the page that follows a job, for any number of calls and faults and    *)
(* any length of the history.  The frames on the wire are runs of events,     *)
(* each the continuation of the one before, and the first continues what is   *)
(* shown or replaces it (FramesFit); a live connection has the newest event   *)
(* shown or in its last frame (NewestComes); and a record with a terminal     *)
(* status is the job's last one (CallsAreTrue), because no status follows a   *)
(* terminal one.                                                              *)
(***************************************************************************)
EXTENDS JobLogStream, FiniteSetTheorems, SequenceTheorems, TLAPS

Busy == {"task", "returned", "threw"}

\* What the place of a job's call tells of its row and of the registries.
Agrees(j) ==
  /\ at[j] \in {"none", "settled"} =>
       /\ status[j] \in Terminal \/ (status[j] = "absent" /\ at[j] = "none")
       /\ running[j] = "no" /\ j \notin cancelled
  /\ at[j] \in {"microtask", "waiting"} =>
       /\ status[j] = IF j \in cancelled THEN "cancelled" ELSE "queued"
       /\ running[j] = "no"
  /\ at[j] \in Busy =>
       /\ status[j] = "running"
       /\ running[j] = IF j \in cancelled THEN "aborted" ELSE "live"
  /\ j \in requested => status[j] = "cancelled" \/ (status[j] = "running" /\ j \in cancelled)

\* What its log tells.
Logged(j) ==
  /\ \A i \in 1 .. Len(events[j]) :
       events[j][i] \in TerminalEvents =>
         i = Len(events[j]) /\ status[j] \in Terminal /\ events[j][i] = EventOf(status[j])
  /\ status[j] \in Terminal /\ restarts = 0 =>
       Len(events[j]) > 0 /\ events[j][Len(events[j])] = EventOf(status[j])

InOrder == \A j \in Jobs : status[j] = "absent" <=> j > made

\* A job is at one place of one queue.
EntriesApart ==
  \A k, l \in Keys : \A i \in 1 .. Len(queues[k]), m \in 1 .. Len(queues[l]) :
    queues[k][i] = queues[l][m] => k = l /\ i = m

FollowersWait ==
  \A k \in Keys : \A i \in 1 .. Len(queues[k]) : i > 1 => at[queues[k][i]] = "waiting"

HeadsAreRun ==
  \A k \in Keys :
    /\ drain[k] = "none" <=> Len(queues[k]) = 0
    /\ drain[k] = "microtask" => at[queues[k][1]] = "waiting"
    /\ drain[k] = "awaiting" => at[queues[k][1]] \in Busy \union {"settled"}

\* A step may give a job its last status, and never another one.
StatusesStay == \A j \in Jobs : status[j] \in Terminal => status'[j] = status[j]

RunnerInv ==
  /\ JobTypeOK /\ InOrder /\ EntriesApart /\ FollowersWait /\ HeadsAreRun
  /\ \A j \in Jobs : Agrees(j) /\ Logged(j)

-----------------------------------------------------------------------------
\* The invariant implies what the runs check of every state.
LEMMA RunnerInvSuffices == RunnerInv => JobInv /\ LogTellsStatus
<1> SUFFICES ASSUME RunnerInv PROVE JobInv /\ LogTellsStatus
  OBVIOUS
<1>1. \A j \in Jobs : /\ Agrees(j) /\ Logged(j) /\ at[j] \in Places
                    /\ running[j] \in {"no", "live", "aborted"}
  BY DEF RunnerInv, JobTypeOK
<1>2. CancelWins
  BY <1>1 DEF CancelWins, Agrees, RunnerInv, JobTypeOK
<1>3. NothingLeaks
  BY <1>1 DEF NothingLeaks, Agrees, Places, Busy
<1>4. \A k \in Keys : queues[k] \in Seq(Jobs) /\ DOMAIN queues[k] = 1 .. Len(queues[k])
  BY LenProperties DEF RunnerInv, JobTypeOK
<1>5. OneAtATime
  <2> SUFFICES ASSUME NEW k \in Keys, NEW i \in 1 .. Len(queues[k]), i > 1
      PROVE  running[queues[k][i]] = "no" /\ at[queues[k][i]] = "waiting"
    BY <1>4 DEF OneAtATime
  <2>1. queues[k][i] \in Jobs /\ at[queues[k][i]] = "waiting"
    BY <1>4, ElementOfSeq DEF RunnerInv, FollowersWait
  <2> QED
    BY <1>1, <2>1 DEF Agrees
<1>6. QueueIsDrained
  BY <1>4, EmptySeq DEF RunnerInv, HeadsAreRun, QueueIsDrained
<1>7. LogTellsStatus
  <2> SUFFICES ASSUME NEW j \in Jobs
      PROVE  /\ \A i \in DOMAIN events[j] :
                  events[j][i] \in TerminalEvents =>
                    /\ i = Len(events[j])
                    /\ status[j] \in Terminal
                    /\ events[j][i] = EventOf(status[j])
             /\ status[j] \in Terminal /\ restarts = 0 =>
                  events[j] # <<>> /\ events[j][Len(events[j])] = EventOf(status[j])
    BY DEF LogTellsStatus
  <2>1. events[j] \in Seq(EventTypes)
    BY DEF RunnerInv, JobTypeOK
  <2>2. DOMAIN events[j] = 1 .. Len(events[j]) /\ (Len(events[j]) > 0 => events[j] # <<>>)
    BY <2>1, LenProperties, EmptySeq
  <2> QED
    BY <1>1, <2>2 DEF Logged
<1> QED
  BY <1>2, <1>3, <1>5, <1>6, <1>7 DEF JobInv, RunnerInv

\* A panel with an empty database runs nothing.
LEMMA RunnerStarts == JobInit => RunnerInv
<1> SUFFICES ASSUME JobInit PROVE RunnerInv
  OBVIOUS
<1>1. \A j \in Jobs : events[j] = <<>> /\ Len(events[j]) = 0
  BY DEF JobInit
<1>2. \A k \in Keys : queues[k] = <<>> /\ Len(queues[k]) = 0
  BY DEF JobInit
<1>3. JobTypeOK
  <2>1. events \in [Jobs -> Seq(EventTypes)] /\ queues \in [Keys -> Seq(Jobs)]
    BY EmptySeq DEF JobInit
  <2>2. made \in 0 .. NumJobs
    BY NumJobsAssumption DEF JobInit
  <2> QED
    BY <2>1, <2>2 DEF JobInit, JobTypeOK, Statuses, Places
<1>4. \A j \in Jobs : Agrees(j) /\ Logged(j)
  BY <1>1 DEF JobInit, Agrees, Logged, Busy, Terminal
<1>5. InOrder
  BY DEF JobInit, InOrder, Jobs
<1>6. EntriesApart /\ FollowersWait /\ HeadsAreRun
  BY <1>2 DEF JobInit, EntriesApart, FollowersWait, HeadsAreRun
<1> QED
  BY <1>3, <1>4, <1>5, <1>6 DEF RunnerInv

\* One event more: a log that had no terminal event yet stays true.
LEMMA AppendTells ==
  ASSUME NEW j \in Jobs, JobTypeOK, Logged(j), status[j] \notin Terminal, NEW e \in EventTypes,
         events'[j] = Append(events[j], e), status'[j] \in Statuses,
         IF status'[j] \in Terminal THEN e = EventOf(status'[j]) ELSE e \notin TerminalEvents
  PROVE  Logged(j)'
<1>1. events[j] \in Seq(EventTypes)
  BY DEF JobTypeOK
<1>2. /\ Len(events[j]) \in Nat /\ Len(events'[j]) = Len(events[j]) + 1
      /\ events'[j][Len(events[j]) + 1] = e
      /\ \A i \in 1 .. Len(events[j]) : events'[j][i] = events[j][i]
  BY <1>1, AppendProperties, LenProperties
<1>3. \A i \in 1 .. Len(events[j]) : events[j][i] \notin TerminalEvents
  BY DEF Logged
<1>4. ASSUME NEW i \in 1 .. Len(events'[j]), events'[j][i] \in TerminalEvents
      PROVE  i = Len(events'[j]) /\ status'[j] \in Terminal /\ events'[j][i] = EventOf(status'[j])
  <2>1. i = Len(events[j]) + 1
    BY <1>2, <1>3, <1>4
  <2> QED
    BY <1>2, <1>4, <2>1
<1>5. status'[j] \in Terminal =>
        Len(events'[j]) > 0 /\ events'[j][Len(events'[j])] = EventOf(status'[j])
  BY <1>2
<1> QED
  BY <1>4, <1>5 DEF Logged, EventOf

\* A step that moves one job, and lets another leave its queue, keeps what holds of all.
LEMMA OneJobMoves ==
  ASSUME RunnerInv, NEW j \in Jobs, made' = made, restarts' = restarts,
         \A i \in Jobs : i # j =>
            /\ at'[i] = at[i] \/ (at[i] = "settled" /\ at'[i] = "none")
            /\ status'[i] = status[i] /\ events'[i] = events[i] /\ running'[i] = running[i]
            /\ (i \in cancelled' <=> i \in cancelled) /\ (i \in requested' <=> i \in requested),
         status[j] # "absent", status'[j] # "absent", Agrees(j)', Logged(j)'
  PROVE  InOrder' /\ \A i \in Jobs : Agrees(i)' /\ Logged(i)'
<1>1. InOrder'
  BY DEF RunnerInv, InOrder
<1>2. ASSUME NEW i \in Jobs, i # j PROVE Agrees(i)' /\ Logged(i)'
  <2>1. Agrees(i) /\ Logged(i)
    BY DEF RunnerInv
  <2>2. Agrees(i)'
    BY <1>2, <2>1 DEF Agrees, Busy
  <2>3. Logged(i)'
    BY <1>2, <2>1 DEF Logged, EventOf
  <2> QED
    BY <2>2, <2>3
<1> QED
  BY <1>1, <1>2

\* runJob up to its first await: the call of a job that waited for its turn, cancelled or not.
LEMMA Entered ==
  ASSUME RunnerInv, NEW j \in Jobs, at[j] \in {"microtask", "waiting"},
         NEW nextAt \in [Jobs -> Places], nextAt[j] \in {"none", "settled"},
         \A i \in Jobs : i # j => nextAt[i] = at[i] \/ (at[i] = "settled" /\ nextAt[i] = "none"),
         Enter(j, nextAt), made' = made, restarts' = restarts, requested' = requested
  PROVE  /\ InOrder' /\ \A i \in Jobs : Agrees(i)' /\ Logged(i)'
         /\ status' \in [Jobs -> Statuses] /\ events' \in [Jobs -> Seq(EventTypes)]
         /\ running' \in [Jobs -> {"no", "live", "aborted"}] /\ cancelled' \subseteq Jobs
         /\ at' \in [Jobs -> Places] /\ at'[j] \in {"task", nextAt[j]}
         /\ \A i \in Jobs : i # j => at'[i] = nextAt[i]
         /\ StatusesStay
<1>1. JobTypeOK /\ Agrees(j) /\ Logged(j)
  BY DEF RunnerInv
<1>2. CASE j \in cancelled
  <2>1. /\ cancelled' = cancelled \ {j} /\ at' = nextAt
        /\ status' = status /\ events' = events /\ running' = running
    BY <1>2 DEF Enter
  <2>2. status[j] = "cancelled" /\ running[j] = "no"
    BY <1>1, <1>2 DEF Agrees
  <2>3. Agrees(j)'
    BY <2>1, <2>2 DEF Agrees, Busy, Terminal
  <2>4. Logged(j)'
    BY <1>1, <2>1 DEF Logged, EventOf
  <2>5. InOrder' /\ \A i \in Jobs : Agrees(i)' /\ Logged(i)'
    BY <2>1, <2>2, <2>3, <2>4, OneJobMoves
  <2> QED
    BY <1>1, <2>1, <2>5 DEF JobTypeOK, StatusesStay
<1>3. CASE j \notin cancelled
  <2>1. /\ running' = [running EXCEPT ![j] = "live"] /\ cancelled' = cancelled
        /\ status' = [status EXCEPT ![j] = "running"]
        /\ events' = [events EXCEPT ![j] = Append(events[j], "started")]
        /\ at' = [nextAt EXCEPT ![j] = "task"]
    BY <1>1, <1>3 DEF Enter, Update, JobTypeOK
  <2>2. status[j] = "queued" /\ j \notin requested
    BY <1>1, <1>3 DEF Agrees
  <2>3. /\ status' \in [Jobs -> Statuses] /\ running' \in [Jobs -> {"no", "live", "aborted"}]
        /\ at' \in [Jobs -> Places] /\ events'[j] = Append(events[j], "started")
        /\ status'[j] = "running" /\ running'[j] = "live" /\ at'[j] = "task"
    BY <1>1, <2>1 DEF JobTypeOK, Statuses, Places
  <2>4. /\ \A i \in Jobs : i # j => /\ status'[i] = status[i] /\ running'[i] = running[i]
                                    /\ events'[i] = events[i] /\ at'[i] = nextAt[i]
    BY <1>1, <2>1 DEF JobTypeOK
  <2>5. events' \in [Jobs -> Seq(EventTypes)]
    <3>1. Append(events[j], "started") \in Seq(EventTypes)
      BY <1>1, AppendProperties DEF JobTypeOK, EventTypes
    <3> QED
      BY <1>1, <2>1, <3>1 DEF JobTypeOK
  <2>6. Agrees(j)'
    BY <1>3, <2>1, <2>2, <2>3 DEF Agrees, Busy
  <2>7. Logged(j)'
    <3>1. "started" \in EventTypes /\ "started" \notin TerminalEvents /\ "running" \notin Terminal
          /\ status[j] \notin Terminal /\ "running" \in Statuses
      BY <2>2 DEF EventTypes, TerminalEvents, Terminal, Statuses
    <3> QED
      BY <1>1, <2>3, <3>1, AppendTells
  <2>8. InOrder' /\ \A i \in Jobs : Agrees(i)' /\ Logged(i)'
    BY <2>1, <2>2, <2>3, <2>4, <2>6, <2>7, OneJobMoves
  <2>9. StatusesStay
    BY <2>2, <2>4 DEF StatusesStay, Terminal
  <2> QED
    BY <1>1, <2>1, <2>3, <2>4, <2>5, <2>8, <2>9 DEF JobTypeOK
<1> QED
  BY <1>2, <1>3

\* A step that changes no queue keeps them, unless it takes their first job where it may not be.
LEMMA QueuesStand ==
  ASSUME RunnerInv, queues' = queues, drain' = drain, NEW j \in Jobs, at[j] # "waiting",
         \A i \in Jobs : i # j => at'[i] = at[i], Queued(j) => at'[j] \in Busy \union {"settled"}
  PROVE  EntriesApart' /\ FollowersWait' /\ HeadsAreRun'
<1>1. \A k \in Keys : queues[k] \in Seq(Jobs) /\ DOMAIN queues[k] = 1 .. Len(queues[k])
                      /\ Len(queues[k]) \in Nat
  BY LenProperties DEF RunnerInv, JobTypeOK
<1>2. ASSUME NEW k \in Keys, NEW i \in 1 .. Len(queues[k])
      PROVE  /\ queues[k][i] \in Jobs /\ (queues[k][i] = j => Queued(j))
             /\ at[queues[k][i]] = "waiting" => at'[queues[k][i]] = "waiting"
  BY <1>1, ElementOfSeq DEF Queued
<1>3. EntriesApart'
  BY DEF RunnerInv, EntriesApart
<1>4. FollowersWait'
  BY <1>2 DEF RunnerInv, FollowersWait
<1>5. ASSUME NEW k \in Keys
      PROVE  /\ drain[k] = "none" <=> Len(queues[k]) = 0
             /\ drain[k] = "microtask" => at'[queues[k][1]] = "waiting"
             /\ drain[k] = "awaiting" => at'[queues[k][1]] \in Busy \union {"settled"}
  <2>1. /\ drain[k] = "none" <=> Len(queues[k]) = 0
        /\ drain[k] = "microtask" => at[queues[k][1]] = "waiting"
        /\ drain[k] = "awaiting" => at[queues[k][1]] \in Busy \union {"settled"}
    BY DEF RunnerInv, HeadsAreRun
  <2>2. drain[k] # "none" => 1 \in 1 .. Len(queues[k])
    BY <1>1, <2>1
  <2> QED
    BY <1>2, <2>1, <2>2
<1> QED
  BY <1>3, <1>4, <1>5 DEF HeadsAreRun

\* A queue and its drainQueue call do not look at a step that leaves both and every place alone.
LEMMA QueuesAlone ==
  ASSUME RunnerInv, queues' = queues, drain' = drain, at' = at
  PROVE  EntriesApart' /\ FollowersWait' /\ HeadsAreRun'
BY DEF RunnerInv, EntriesApart, FollowersWait, HeadsAreRun

\* What is in a queue waits, runs or has just ended.
LEMMA MembersArePlaced ==
  ASSUME RunnerInv, NEW k \in Keys, NEW i \in 1 .. Len(queues[k])
  PROVE  queues[k][i] \in Jobs /\ at[queues[k][i]] \in Busy \union {"waiting", "settled"}
<1>1. queues[k] \in Seq(Jobs) /\ Len(queues[k]) \in Nat
  BY LenProperties DEF RunnerInv, JobTypeOK
<1>2. queues[k][i] \in Jobs
  BY <1>1, ElementOfSeq
<1>3. drain[k] # "none" => drain[k] \in {"microtask", "awaiting"}
  BY DEF RunnerInv, JobTypeOK
<1>4. CASE i = 1
  BY <1>1, <1>2, <1>3, <1>4 DEF RunnerInv, HeadsAreRun
<1>5. CASE i > 1
  BY <1>2, <1>5 DEF RunnerInv, FollowersWait
<1> QED
  BY <1>1, <1>4, <1>5

\* A job that is to run by itself, or was never made, is in no queue.
LEMMA OthersAreAlone ==
  ASSUME RunnerInv, NEW j \in Jobs, at[j] \in {"none", "microtask"}
  PROVE  /\ ~Queued(j)
         /\ \A k \in Keys : \A i \in 1 .. Len(queues[k]) : queues[k][i] # j
<1>1. \A k \in Keys : \A i \in 1 .. Len(queues[k]) : queues[k][i] # j
  BY MembersArePlaced DEF Busy
<1>2. \A k \in Keys : DOMAIN queues[k] = 1 .. Len(queues[k])
  BY LenProperties DEF RunnerInv, JobTypeOK
<1> QED
  BY <1>1, <1>2 DEF Queued

-----------------------------------------------------------------------------
\* cancel of a running job.
LEMMA CancelRunningKeeps == ASSUME RunnerInv, NEW j \in Jobs, CancelRunning(j)
  PROVE  RunnerInv' /\ StatusesStay
<1>1. JobTypeOK /\ Agrees(j) /\ Logged(j) /\ status[j] = "running" /\ j \notin cancelled
  BY DEF RunnerInv, CancelRunning
<1>2. /\ at[j] \in Busy /\ running[j] = "live"
  BY <1>1 DEF Agrees, JobTypeOK, Places, Terminal, Busy
<1>3. /\ cancelled' = cancelled \union {j} /\ requested' = requested \union {j}
      /\ running' = [running EXCEPT ![j] = "aborted"]
      /\ status' = [status EXCEPT ![j] = "running"]
      /\ events' = [events EXCEPT ![j] = Append(events[j], "log")]
      /\ made' = made /\ queues' = queues /\ at' = at /\ drain' = drain /\ restarts' = restarts
  BY <1>1, <1>2 DEF CancelRunning, Update, JobTypeOK
<1>4. /\ running'[j] = "aborted" /\ status'[j] = "running" /\ events'[j] = Append(events[j], "log")
      /\ \A i \in Jobs : i # j => /\ status'[i] = status[i] /\ running'[i] = running[i]
                                  /\ events'[i] = events[i]
  BY <1>1, <1>3 DEF JobTypeOK
<1>5. JobTypeOK'
  <2>1. Append(events[j], "log") \in Seq(EventTypes)
    BY <1>1, AppendProperties DEF JobTypeOK, EventTypes
  <2>2. events' \in [Jobs -> Seq(EventTypes)]
    BY <1>1, <1>3, <2>1 DEF JobTypeOK
  <2>3. status' \in [Jobs -> Statuses] /\ running' \in [Jobs -> {"no", "live", "aborted"}]
    BY <1>1, <1>3 DEF JobTypeOK, Statuses
  <2> QED
    BY <1>1, <1>3, <2>2, <2>3 DEF JobTypeOK
<1>6. Agrees(j)'
  BY <1>2, <1>3, <1>4 DEF Agrees, Busy
<1>7. Logged(j)'
  <2>1. "log" \in EventTypes /\ "log" \notin TerminalEvents /\ "running" \notin Terminal
        /\ "running" \in Statuses
    BY DEF EventTypes, TerminalEvents, Terminal, Statuses
  <2> QED
    BY <1>1, <1>4, <2>1, AppendTells
<1>8. InOrder' /\ \A i \in Jobs : Agrees(i)' /\ Logged(i)'
  BY <1>1, <1>3, <1>4, <1>6, <1>7, OneJobMoves
<1>9. StatusesStay
  BY <1>1, <1>4 DEF StatusesStay, Terminal
<1> QED
  BY <1>3, <1>5, <1>8, <1>9, QueuesAlone DEF RunnerInv

\* cancel of a queued job.
LEMMA CancelQueuedKeeps == ASSUME RunnerInv, NEW j \in Jobs, CancelQueued(j)
  PROVE  RunnerInv' /\ StatusesStay
<1>1. JobTypeOK /\ Agrees(j) /\ Logged(j) /\ status[j] = "queued" /\ j \notin cancelled
  BY DEF RunnerInv, CancelQueued
<1>2. /\ at[j] \in {"microtask", "waiting"} /\ running[j] = "no"
  BY <1>1 DEF Agrees, JobTypeOK, Places, Terminal, Busy
<1>3. /\ cancelled' = cancelled \union {j} /\ requested' = requested \union {j}
      /\ status' = [status EXCEPT ![j] = "cancelled"]
      /\ events' = [events EXCEPT ![j] = Append(events[j], "cancelled")]
      /\ made' = made /\ queues' = queues /\ at' = at /\ drain' = drain /\ restarts' = restarts
      /\ running' = running
  BY DEF CancelQueued, Update
<1>4. /\ status'[j] = "cancelled" /\ events'[j] = Append(events[j], "cancelled")
      /\ \A i \in Jobs : i # j => status'[i] = status[i] /\ events'[i] = events[i]
  BY <1>1, <1>3 DEF JobTypeOK
<1>5. JobTypeOK'
  <2>1. Append(events[j], "cancelled") \in Seq(EventTypes)
    BY <1>1, AppendProperties DEF JobTypeOK, EventTypes, TerminalEvents
  <2>2. events' \in [Jobs -> Seq(EventTypes)]
    BY <1>1, <1>3, <2>1 DEF JobTypeOK
  <2>3. status' \in [Jobs -> Statuses]
    BY <1>1, <1>3 DEF JobTypeOK, Statuses, Terminal
  <2> QED
    BY <1>1, <1>3, <2>2, <2>3 DEF JobTypeOK
<1>6. Agrees(j)'
  BY <1>2, <1>3, <1>4 DEF Agrees, Busy
<1>7. Logged(j)'
  <2>1. /\ "cancelled" \in EventTypes /\ "cancelled" \in Terminal /\ "cancelled" \in Statuses
        /\ EventOf("cancelled") = "cancelled" /\ status[j] \notin Terminal
    BY <1>1 DEF EventTypes, TerminalEvents, Terminal, Statuses, EventOf
  <2> QED
    BY <1>1, <1>4, <2>1, AppendTells
<1>8. InOrder' /\ \A i \in Jobs : Agrees(i)' /\ Logged(i)'
  BY <1>1, <1>3, <1>4, <1>6, <1>7, OneJobMoves
<1>9. StatusesStay
  BY <1>1, <1>4 DEF StatusesStay, Terminal
<1> QED
  BY <1>3, <1>5, <1>8, <1>9, QueuesAlone DEF RunnerInv

\* A task that reports.
LEMMA LogKeeps == ASSUME RunnerInv, NEW j \in Jobs, TaskLog(j) PROVE RunnerInv' /\ StatusesStay
<1>1. JobTypeOK /\ Agrees(j) /\ Logged(j) /\ at[j] = "task"
  BY DEF RunnerInv, TaskLog
<1>2. status[j] = "running"
  BY <1>1 DEF Agrees, Busy
<1>3. /\ events' = [events EXCEPT ![j] = Append(events[j], "log")]
      /\ UNCHANGED <<made, status, cancelled, running, queues, at, drain, restarts, requested>>
  BY DEF TaskLog
<1>4. /\ events'[j] = Append(events[j], "log")
      /\ \A i \in Jobs : i # j => events'[i] = events[i]
  BY <1>1, <1>3 DEF JobTypeOK
<1>5. JobTypeOK'
  <2>1. Append(events[j], "log") \in Seq(EventTypes)
    BY <1>1, AppendProperties DEF JobTypeOK, EventTypes
  <2> QED
    BY <1>1, <1>3, <2>1 DEF JobTypeOK
<1>6. Agrees(j)'
  BY <1>1, <1>3 DEF Agrees
<1>7. Logged(j)'
  <2>1. "log" \in EventTypes /\ "log" \notin TerminalEvents /\ "running" \notin Terminal
        /\ "running" \in Statuses /\ status'[j] = "running"
    BY <1>2, <1>3 DEF EventTypes, TerminalEvents, Terminal, Statuses
  <2> QED
    BY <1>1, <1>2, <1>4, <2>1, AppendTells
<1>8. InOrder' /\ \A i \in Jobs : Agrees(i)' /\ Logged(i)'
  BY <1>2, <1>3, <1>4, <1>6, <1>7, OneJobMoves
<1> QED
  BY <1>3, <1>5, <1>8, QueuesAlone DEF RunnerInv, StatusesStay

\* A task that ends, with or without regard to its signal.
LEMMA EndKeeps == ASSUME RunnerInv, NEW j \in Jobs, TaskEnds(j) PROVE RunnerInv' /\ StatusesStay
<1>1. JobTypeOK /\ Agrees(j) /\ Logged(j) /\ at[j] = "task"
  BY DEF RunnerInv, TaskEnds
<1>2. PICK end \in {"returned", "threw"} : at' = [at EXCEPT ![j] = end]
  BY DEF TaskEnds
<1>3. UNCHANGED <<made, status, events, cancelled, running, queues, drain, restarts, requested>>
  BY DEF TaskEnds
<1>4. at'[j] \in {"returned", "threw"} /\ \A i \in Jobs : i # j => at'[i] = at[i]
  BY <1>1, <1>2 DEF JobTypeOK
<1>5. JobTypeOK'
  BY <1>1, <1>2, <1>3 DEF JobTypeOK, Places
<1>6. Agrees(j)' /\ status[j] = "running"
  BY <1>1, <1>3, <1>4 DEF Agrees, Busy
<1>7. Logged(j)'
  BY <1>1, <1>3 DEF Logged, EventOf
<1>8. InOrder' /\ \A i \in Jobs : Agrees(i)' /\ Logged(i)'
  BY <1>3, <1>4, <1>6, <1>7, OneJobMoves
<1>9. EntriesApart' /\ FollowersWait' /\ HeadsAreRun'
  BY <1>1, <1>3, <1>4, QueuesStand DEF Busy
<1> QED
  BY <1>3, <1>5, <1>8, <1>9 DEF RunnerInv, StatusesStay

\* The end of a runJob call: a cancelled job is never one that succeeded or failed.
LEMMA FinishKeeps == ASSUME RunnerInv, NEW j \in Jobs, Finish(j) PROVE RunnerInv' /\ StatusesStay
<1>1. JobTypeOK /\ Agrees(j) /\ Logged(j) /\ at[j] \in {"returned", "threw"}
  BY DEF RunnerInv, Finish
<1>2. status[j] = "running" /\ running[j] = IF j \in cancelled THEN "aborted" ELSE "live"
  BY <1>1 DEF Agrees, Busy
<1> DEFINE end == Outcome(j)
<1>3. end \in Terminal /\ (j \in cancelled => end = "cancelled")
  BY <1>1, <1>2 DEF Outcome, Terminal
<1>4. /\ running' = [running EXCEPT ![j] = "no"] /\ cancelled' = cancelled \ {j}
      /\ at' = [at EXCEPT ![j] = IF Queued(j) THEN "settled" ELSE "none"]
      /\ UNCHANGED <<made, queues, drain, restarts, requested>>
      /\ status' = [status EXCEPT ![j] = end]
      /\ events' = [events EXCEPT ![j] = Append(events[j], EventOf(end))]
  BY <1>2 DEF Finish, Update
<1>5. EventOf(end) \in EventTypes /\ end \in Statuses
  BY <1>3 DEF EventOf, EventTypes, TerminalEvents, Terminal, Statuses
<1> HIDE DEF end
<1>6. /\ status'[j] = end /\ running'[j] = "no" /\ events'[j] = Append(events[j], EventOf(end))
      /\ at'[j] = IF Queued(j) THEN "settled" ELSE "none"
      /\ \A i \in Jobs : i # j => /\ status'[i] = status[i] /\ running'[i] = running[i]
                                  /\ events'[i] = events[i] /\ at'[i] = at[i]
  BY <1>1, <1>4 DEF JobTypeOK
<1>7. JobTypeOK'
  <2>1. Append(events[j], EventOf(end)) \in Seq(EventTypes)
    BY <1>1, <1>5, AppendProperties DEF JobTypeOK
  <2>2. events' \in [Jobs -> Seq(EventTypes)]
    BY <1>1, <1>4, <2>1 DEF JobTypeOK
  <2>3. status' \in [Jobs -> Statuses] /\ running' \in [Jobs -> {"no", "live", "aborted"}]
    BY <1>1, <1>4, <1>5 DEF JobTypeOK
  <2>4. at' \in [Jobs -> Places]
    BY <1>1, <1>4 DEF JobTypeOK, Places
  <2> QED
    BY <1>1, <1>4, <2>2, <2>3, <2>4 DEF JobTypeOK
<1>8. Agrees(j)'
  <2>1. j \in requested' => end = "cancelled"
    BY <1>1, <1>2, <1>3, <1>4 DEF Agrees
  <2> QED
    BY <1>3, <1>4, <1>6, <2>1 DEF Agrees, Busy
<1>9. Logged(j)'
  <2>1. status[j] \notin Terminal
    BY <1>2 DEF Terminal
  <2> QED
    BY <1>1, <1>3, <1>5, <1>6, <2>1, AppendTells
<1>10. InOrder' /\ \A i \in Jobs : Agrees(i)' /\ Logged(i)'
  <2>1. "absent" \notin Terminal
    BY DEF Terminal
  <2> QED
    BY <1>2, <1>3, <1>4, <1>6, <1>8, <1>9, <2>1, OneJobMoves
<1>11. EntriesApart' /\ FollowersWait' /\ HeadsAreRun'
  BY <1>1, <1>4, <1>6, QueuesStand
<1>12. StatusesStay
  BY <1>2, <1>6 DEF StatusesStay, Terminal
<1> QED
  BY <1>7, <1>10, <1>11, <1>12 DEF RunnerInv

\* The microtask of create.
LEMMA RunCreatedKeeps == ASSUME RunnerInv, NEW j \in Jobs, RunCreated(j)
  PROVE  RunnerInv' /\ StatusesStay
<1> DEFINE nextAt == [at EXCEPT ![j] = "none"]
<1>1. /\ at[j] = "microtask" /\ JobTypeOK /\ Enter(j, nextAt)
      /\ UNCHANGED <<made, queues, drain, restarts, requested>>
  BY DEF RunCreated, RunnerInv
<1>2. /\ nextAt \in [Jobs -> Places] /\ nextAt[j] = "none"
      /\ \A i \in Jobs : i # j => nextAt[i] = at[i]
  BY <1>1 DEF JobTypeOK, Places
<1> HIDE DEF nextAt
<1>3. /\ InOrder' /\ \A i \in Jobs : Agrees(i)' /\ Logged(i)'
      /\ status' \in [Jobs -> Statuses] /\ events' \in [Jobs -> Seq(EventTypes)]
      /\ running' \in [Jobs -> {"no", "live", "aborted"}] /\ cancelled' \subseteq Jobs
      /\ at' \in [Jobs -> Places] /\ at'[j] \in {"task", "none"}
      /\ \A i \in Jobs : i # j => at'[i] = at[i]
      /\ StatusesStay
  BY <1>1, <1>2, Entered
<1>4. JobTypeOK'
  BY <1>1, <1>3 DEF JobTypeOK
<1>5. EntriesApart' /\ FollowersWait' /\ HeadsAreRun'
  BY <1>1, <1>3, OthersAreAlone, QueuesStand
<1> QED
  BY <1>3, <1>4, <1>5 DEF RunnerInv

\* create and createQueued: the new job is in no queue and has no call yet.
LEMMA Created ==
  ASSUME RunnerInv, NEW j, j = made + 1, made < NumJobs, made' = j, Update(j, "queued", "queued"),
         NEW p \in {"microtask", "waiting"}, at' = [at EXCEPT ![j] = p],
         UNCHANGED <<cancelled, running, restarts, requested>>
  PROVE  /\ j \in Jobs /\ j \in 0 .. NumJobs /\ at[j] = "none" /\ at'[j] = p
         /\ \A i \in Jobs : i # j => at'[i] = at[i]
         /\ status' \in [Jobs -> Statuses] /\ events' \in [Jobs -> Seq(EventTypes)]
         /\ at' \in [Jobs -> Places]
         /\ InOrder' /\ \A i \in Jobs : Agrees(i)' /\ Logged(i)'
         /\ StatusesStay
<1>1. JobTypeOK /\ made \in 0 .. NumJobs /\ made \in Nat
  BY NumJobsAssumption DEF RunnerInv, JobTypeOK
<1>2. j \in Jobs /\ j \in 0 .. NumJobs /\ j > made
  BY <1>1, NumJobsAssumption DEF Jobs
<1>3. status[j] = "absent" /\ Agrees(j) /\ Logged(j)
  BY <1>2 DEF RunnerInv, InOrder
<1>4. at[j] = "none" /\ running[j] = "no" /\ j \notin cancelled /\ j \notin requested
  BY <1>1, <1>2, <1>3 DEF Agrees, Busy, Places, Terminal, JobTypeOK
<1>5. /\ status' = [status EXCEPT ![j] = "queued"]
      /\ events' = [events EXCEPT ![j] = Append(events[j], "queued")]
      /\ at' = [at EXCEPT ![j] = p]
  BY DEF Update
<1>6. /\ status'[j] = "queued" /\ events'[j] = Append(events[j], "queued") /\ at'[j] = p
      /\ \A i \in Jobs : i # j => /\ status'[i] = status[i] /\ events'[i] = events[i]
                                  /\ at'[i] = at[i]
  BY <1>1, <1>2, <1>5 DEF JobTypeOK
<1>7. status' \in [Jobs -> Statuses] /\ at' \in [Jobs -> Places]
  <2>1. "queued" \in Statuses /\ p \in Places
    BY DEF Statuses, Places
  <2>2. status' \in [Jobs -> Statuses]
    BY <1>1, <1>5, <2>1 DEF JobTypeOK
  <2>3. at' \in [Jobs -> Places]
    BY <1>1, <1>5, <2>1 DEF JobTypeOK
  <2> QED
    BY <2>2, <2>3
<1>8. events' \in [Jobs -> Seq(EventTypes)]
  <2>1. Append(events[j], "queued") \in Seq(EventTypes)
    BY <1>1, <1>2, AppendProperties DEF JobTypeOK, EventTypes
  <2> QED
    BY <1>1, <1>5, <2>1 DEF JobTypeOK
<1>9. Agrees(j)'
  BY <1>4, <1>6 DEF Agrees, Busy
<1>10. Logged(j)'
  <2>1. "queued" \in EventTypes /\ "queued" \notin TerminalEvents /\ "queued" \notin Terminal
        /\ "queued" \in Statuses /\ status[j] \notin Terminal
    BY <1>3 DEF EventTypes, TerminalEvents, Terminal, Statuses
  <2> QED
    BY <1>1, <1>2, <1>3, <1>6, <2>1, AppendTells
<1>11. ASSUME NEW i \in Jobs, i # j PROVE Agrees(i)' /\ Logged(i)'
  <2>1. Agrees(i) /\ Logged(i)
    BY DEF RunnerInv
  <2> QED
    BY <1>6, <1>11, <2>1 DEF Agrees, Logged, EventOf
<1>12. InOrder'
  <2>1. \A i \in Jobs : status[i] = "absent" <=> i > made
    BY DEF RunnerInv, InOrder
  <2>2. \A i \in Jobs : i \in Int /\ (i > made' <=> i > made /\ i # j)
    BY <1>1 DEF Jobs
  <2> QED
    BY <1>6, <2>1, <2>2 DEF InOrder
<1>13. StatusesStay
  BY <1>3, <1>6 DEF StatusesStay, Terminal
<1> QED
  BY <1>2, <1>4, <1>6, <1>7, <1>8, <1>9, <1>10, <1>11, <1>12, <1>13

\* create keeps the invariant.
LEMMA CreateKeeps == ASSUME RunnerInv, Create PROVE RunnerInv' /\ StatusesStay
<1>1. PICK j : j = made + 1
  OBVIOUS
<1>2. /\ made < NumJobs /\ made' = j /\ Update(j, "queued", "queued")
      /\ at' = [at EXCEPT ![j] = "microtask"]
      /\ UNCHANGED <<cancelled, running, queues, drain, restarts, requested>>
  BY <1>1 DEF Create
<1>3. /\ j \in Jobs /\ j \in 0 .. NumJobs /\ at[j] = "none"
      /\ \A i \in Jobs : i # j => at'[i] = at[i]
      /\ status' \in [Jobs -> Statuses] /\ events' \in [Jobs -> Seq(EventTypes)]
      /\ at' \in [Jobs -> Places]
      /\ InOrder' /\ \A i \in Jobs : Agrees(i)' /\ Logged(i)'
      /\ StatusesStay
  BY <1>1, <1>2, Created
<1>4. JobTypeOK'
  BY <1>2, <1>3 DEF RunnerInv, JobTypeOK
<1>5. EntriesApart' /\ FollowersWait' /\ HeadsAreRun'
  <2>1. ~Queued(j)
    BY <1>3, OthersAreAlone
  <2> QED
    BY <1>2, <1>3, <2>1, QueuesStand
<1> QED
  BY <1>3, <1>4, <1>5 DEF RunnerInv

\* createQueued keeps the invariant: the new entry is the last of its queue.
LEMMA CreateQueuedKeeps ==
  ASSUME RunnerInv, NEW k \in Keys, CreateQueued(k) PROVE RunnerInv' /\ StatusesStay
<1> DEFINE q == queues[k]
<1>0. PICK j : j = made + 1
  OBVIOUS
<1>1. /\ made < NumJobs /\ made' = j /\ Update(j, "queued", "queued")
      /\ at' = [at EXCEPT ![j] = "waiting"]
      /\ queues' = [queues EXCEPT ![k] = Append(q, j)]
      /\ drain' = IF Len(q) = 0 THEN [drain EXCEPT ![k] = "microtask"] ELSE drain
      /\ UNCHANGED <<cancelled, running, restarts, requested>>
  BY <1>0 DEF CreateQueued
<1>2. /\ j \in Jobs /\ j \in 0 .. NumJobs /\ at[j] = "none" /\ at'[j] = "waiting"
      /\ \A i \in Jobs : i # j => at'[i] = at[i]
      /\ status' \in [Jobs -> Statuses] /\ events' \in [Jobs -> Seq(EventTypes)]
      /\ at' \in [Jobs -> Places]
      /\ InOrder' /\ \A i \in Jobs : Agrees(i)' /\ Logged(i)'
      /\ StatusesStay
  BY <1>0, <1>1, Created
<1>3. JobTypeOK /\ q \in Seq(Jobs) /\ \A l \in Keys : Len(queues[l]) \in Nat
  BY LenProperties DEF RunnerInv, JobTypeOK
<1>4. /\ Append(q, j) \in Seq(Jobs) /\ Len(Append(q, j)) = Len(q) + 1
      /\ Append(q, j)[Len(q) + 1] = j
      /\ \A i \in 1 .. Len(q) : Append(q, j)[i] = q[i]
  BY <1>2, <1>3, AppendProperties
<1>5. queues'[k] = Append(q, j) /\ \A l \in Keys : l # k => queues'[l] = queues[l]
  BY <1>1, <1>3 DEF JobTypeOK
<1>6. JobTypeOK'
  <2>1. queues' \in [Keys -> Seq(Jobs)]
    BY <1>1, <1>3, <1>4 DEF JobTypeOK
  <2>2. drain' \in [Keys -> {"none", "microtask", "awaiting"}]
    BY <1>1, <1>3 DEF JobTypeOK
  <2> QED
    BY <1>1, <1>2, <1>3, <2>1, <2>2 DEF JobTypeOK
<1>7. \A l \in Keys : \A i \in 1 .. Len(queues[l]) :
        queues[l][i] # j /\ queues[l][i] \in Jobs /\ at'[queues[l][i]] = at[queues[l][i]]
  <2>1. \A l \in Keys : \A i \in 1 .. Len(queues[l]) : queues[l][i] \in Jobs
    BY MembersArePlaced
  <2>2. \A l \in Keys : \A i \in 1 .. Len(queues[l]) : queues[l][i] # j
    BY <1>2, OthersAreAlone
  <2> QED
    BY <1>2, <2>1, <2>2
<1>8. ASSUME NEW l \in Keys, NEW i \in 1 .. Len(queues'[l])
      PROVE  \/ l = k /\ i = Len(q) + 1 /\ queues'[l][i] = j
             \/ i \in 1 .. Len(queues[l]) /\ queues'[l][i] = queues[l][i]
  <2>1. CASE l # k
    BY <1>5, <2>1
  <2>2. CASE l = k
    <3>1. queues'[l] = Append(q, j) /\ Len(queues'[l]) = Len(q) + 1 /\ Len(q) \in Nat
      BY <1>3, <1>4, <1>5, <2>2
    <3>2. i = Len(q) + 1 \/ i \in 1 .. Len(q)
      BY <3>1
    <3> QED
      BY <1>4, <2>2, <3>1, <3>2
  <2> QED
    BY <2>1, <2>2
<1>9. EntriesApart'
  <2> SUFFICES ASSUME NEW l \in Keys, NEW m \in Keys, NEW i \in 1 .. Len(queues'[l]),
                      NEW n \in 1 .. Len(queues'[m]), queues'[l][i] = queues'[m][n]
      PROVE  l = m /\ i = n
    BY DEF EntriesApart
  <2>1. CASE i \in 1 .. Len(queues[l]) /\ queues'[l][i] = queues[l][i]
    <3>1. queues'[l][i] # j
      BY <1>7, <2>1
    <3>2. n \in 1 .. Len(queues[m]) /\ queues'[m][n] = queues[m][n]
      BY <1>8, <3>1
    <3>3. queues[l][i] = queues[m][n]
      BY <2>1, <3>2
    <3>4. EntriesApart
      BY DEF RunnerInv
    <3> QED
      BY <2>1, <3>2, <3>3, <3>4 DEF EntriesApart
  <2>2. CASE l = k /\ i = Len(q) + 1 /\ queues'[l][i] = j
    <3>1. queues'[m][n] = j
      BY <2>2
    <3>2. ~(n \in 1 .. Len(queues[m]) /\ queues'[m][n] = queues[m][n])
      BY <1>7, <3>1
    <3>3. m = k /\ n = Len(q) + 1
      BY <1>8, <3>2
    <3> QED
      BY <2>2, <3>3
  <2> QED
    BY <1>8, <2>1, <2>2
<1>10. FollowersWait'
  <2> SUFFICES ASSUME NEW l \in Keys, NEW i \in 1 .. Len(queues'[l]), i > 1
      PROVE  at'[queues'[l][i]] = "waiting"
    BY DEF FollowersWait
  <2>1. CASE l = k /\ i = Len(q) + 1 /\ queues'[l][i] = j
    BY <1>2, <2>1
  <2>2. CASE i \in 1 .. Len(queues[l]) /\ queues'[l][i] = queues[l][i]
    <3>1. at[queues[l][i]] = "waiting"
      BY <2>2 DEF RunnerInv, FollowersWait
    <3> QED
      BY <1>7, <2>2, <3>1
  <2> QED
    BY <1>8, <2>1, <2>2
<1>11. HeadsAreRun'
  <2> SUFFICES ASSUME NEW l \in Keys
      PROVE  /\ drain'[l] = "none" <=> Len(queues'[l]) = 0
             /\ drain'[l] = "microtask" => at'[queues'[l][1]] = "waiting"
             /\ drain'[l] = "awaiting" => at'[queues'[l][1]] \in Busy \union {"settled"}
    BY DEF HeadsAreRun
  <2>1. /\ drain[l] = "none" <=> Len(queues[l]) = 0
        /\ drain[l] = "microtask" => at[queues[l][1]] = "waiting"
        /\ drain[l] = "awaiting" => at[queues[l][1]] \in Busy \union {"settled"}
    BY DEF RunnerInv, HeadsAreRun
  <2>2. CASE l = k /\ Len(q) = 0
    <3>1. Len(q) + 1 = 1
      BY <2>2
    <3>2. Len(queues'[l]) = 1 /\ queues'[l][1] = j
      BY <1>4, <1>5, <2>2, <3>1
    <3>3. drain'[l] = "microtask"
      BY <1>1, <1>3, <2>2 DEF JobTypeOK
    <3> QED
      BY <1>2, <3>2, <3>3
  <2>3. CASE l = k /\ Len(q) # 0
    <3>1. Len(q) \in Nat /\ 1 \in 1 .. Len(q)
      BY <1>3, <2>3
    <3>2. /\ Len(queues'[l]) # 0 /\ queues'[l][1] = queues[l][1] /\ drain'[l] = drain[l]
          /\ at'[queues[l][1]] = at[queues[l][1]]
      BY <1>1, <1>4, <1>5, <1>7, <2>3, <3>1
    <3> QED
      BY <2>1, <2>3, <3>2
  <2>4. CASE l # k
    <3>1. queues'[l] = queues[l] /\ drain'[l] = drain[l]
      BY <1>1, <1>3, <1>5, <2>4 DEF JobTypeOK
    <3>2. drain[l] # "none" => 1 \in 1 .. Len(queues[l])
      BY <1>3, <2>1
    <3> QED
      BY <1>7, <2>1, <3>1, <3>2
  <2> QED
    BY <2>2, <2>3, <2>4
<1> QED
  BY <1>2, <1>6, <1>9, <1>10, <1>11 DEF RunnerInv

-----------------------------------------------------------------------------
\* drainQueue starts: the first entry leaves its place, and no other does.
LEMMA DrainStartKeeps ==
  ASSUME RunnerInv, NEW k \in Keys, DrainStart(k) PROVE RunnerInv' /\ StatusesStay
<1> DEFINE h == queues[k][1]
           nextAt == [at EXCEPT ![h] = "settled"]
<1>1. \A l \in Keys : queues[l] \in Seq(Jobs) /\ Len(queues[l]) \in Nat
  BY LenProperties DEF RunnerInv, JobTypeOK
<1>2. drain[k] = "microtask" /\ 1 \in 1 .. Len(queues[k]) /\ at[h] = "waiting"
  BY <1>1 DEF DrainStart, RunnerInv, HeadsAreRun
<1>3. Head(queues[k]) = h /\ h \in Jobs
  BY <1>1, <1>2, MembersArePlaced, HeadTailProperties, EmptySeq
<1>4. /\ drain' = [drain EXCEPT ![k] = "awaiting"] /\ Enter(h, nextAt)
      /\ UNCHANGED <<made, queues, restarts, requested>>
  BY <1>3 DEF DrainStart
<1>5. /\ nextAt \in [Jobs -> Places] /\ nextAt[h] = "settled"
      /\ \A i \in Jobs : i # h => nextAt[i] = at[i]
  BY <1>3 DEF RunnerInv, JobTypeOK, Places
<1>6. EntriesApart /\ FollowersWait /\ JobTypeOK
  BY DEF RunnerInv
<1>7. \A l \in Keys : \A i \in 1 .. Len(queues[l]) :
        queues[l][i] \in Jobs /\ (queues[l][i] = h => l = k /\ i = 1)
  BY <1>2, <1>6, MembersArePlaced DEF EntriesApart
<1> HIDE DEF nextAt, h
<1>8. /\ InOrder' /\ \A i \in Jobs : Agrees(i)' /\ Logged(i)'
      /\ status' \in [Jobs -> Statuses] /\ events' \in [Jobs -> Seq(EventTypes)]
      /\ running' \in [Jobs -> {"no", "live", "aborted"}] /\ cancelled' \subseteq Jobs
      /\ at' \in [Jobs -> Places] /\ at'[h] \in {"task", "settled"}
      /\ \A i \in Jobs : i # h => at'[i] = at[i]
      /\ StatusesStay
  BY <1>2, <1>3, <1>4, <1>5, Entered
<1>9. JobTypeOK'
  BY <1>4, <1>6, <1>8 DEF JobTypeOK
<1>10. EntriesApart'
  BY <1>4, <1>6 DEF EntriesApart
<1>11. FollowersWait'
  <2> SUFFICES ASSUME NEW l \in Keys, NEW i \in 1 .. Len(queues[l]), i > 1
      PROVE  at'[queues[l][i]] = "waiting"
    BY <1>4 DEF FollowersWait
  <2>1. queues[l][i] \in Jobs /\ queues[l][i] # h
    BY <1>7
  <2>2. at[queues[l][i]] = "waiting"
    BY <1>6 DEF FollowersWait
  <2> QED
    BY <1>8, <2>1, <2>2
<1>12. ASSUME NEW l \in Keys
       PROVE  /\ drain'[l] = "none" <=> Len(queues[l]) = 0
              /\ drain'[l] = "microtask" => at'[queues[l][1]] = "waiting"
              /\ drain'[l] = "awaiting" => at'[queues[l][1]] \in Busy \union {"settled"}
  <2>1. /\ drain[l] = "none" <=> Len(queues[l]) = 0
        /\ drain[l] = "microtask" => at[queues[l][1]] = "waiting"
        /\ drain[l] = "awaiting" => at[queues[l][1]] \in Busy \union {"settled"}
    BY DEF RunnerInv, HeadsAreRun
  <2>2. CASE l = k
    <3>1. drain'[l] = "awaiting" /\ Len(queues[l]) # 0
      BY <1>1, <1>2, <1>4, <1>6, <2>2 DEF JobTypeOK
    <3>2. queues[l][1] = h
      BY <2>2 DEF h
    <3> QED
      BY <1>8, <3>1, <3>2 DEF Busy
  <2>3. CASE l # k
    <3>1. drain'[l] = drain[l] /\ (drain[l] # "none" => 1 \in 1 .. Len(queues[l]))
      BY <1>1, <1>4, <1>6, <2>1, <2>3 DEF JobTypeOK
    <3> QED
      BY <1>7, <1>8, <2>1, <2>3, <3>1
  <2> QED
    BY <2>2, <2>3
<1> QED
  BY <1>4, <1>8, <1>9, <1>10, <1>11, <1>12 DEF RunnerInv, HeadsAreRun

\* drainQueue goes on: the entry that ended leaves its queue, the next one starts.
LEMMA DrainNextKeeps ==
  ASSUME RunnerInv, NEW k \in Keys, DrainNext(k) PROVE RunnerInv' /\ StatusesStay
<1>1. \A l \in Keys : queues[l] \in Seq(Jobs) /\ Len(queues[l]) \in Nat
  BY LenProperties DEF RunnerInv, JobTypeOK
<1>2. JobTypeOK /\ EntriesApart /\ FollowersWait /\ HeadsAreRun
  BY DEF RunnerInv
<1>3. drain[k] = "awaiting" /\ 1 \in 1 .. Len(queues[k])
  BY <1>1, <1>2 DEF DrainNext, HeadsAreRun
<1>4. PICK h : h = queues[k][1]
  OBVIOUS
<1>5. PICK rest : rest = Tail(queues[k])
  OBVIOUS
<1>6. Head(queues[k]) = h /\ h \in Jobs /\ at[h] = "settled"
  BY <1>1, <1>3, <1>4, MembersArePlaced, HeadTailProperties, EmptySeq DEF DrainNext
<1>7. /\ rest \in Seq(Jobs) /\ Len(rest) = Len(queues[k]) - 1 /\ Len(rest) \in Nat
      /\ \A i \in 1 .. Len(rest) : i + 1 \in 1 .. Len(queues[k]) /\ rest[i] = queues[k][i + 1]
  <2>1. queues[k] # <<>>
    BY <1>1, <1>3, EmptySeq
  <2>2. /\ rest \in Seq(Jobs) /\ Len(rest) = Len(queues[k]) - 1
        /\ \A i \in 1 .. Len(rest) : rest[i] = queues[k][i + 1]
    BY <1>1, <1>5, <2>1, HeadTailProperties
  <2> QED
    BY <1>1, <1>3, <2>2
<1>8. /\ queues' = [queues EXCEPT ![k] = rest] /\ queues'[k] = rest
      /\ \A l \in Keys : l # k => queues'[l] = queues[l]
      /\ queues' \in [Keys -> Seq(Jobs)]
  BY <1>2, <1>5, <1>7 DEF DrainNext, JobTypeOK
\* Every entry of the queues was one before.
<1>9. ASSUME NEW l \in Keys, NEW i \in 1 .. Len(queues'[l])
      PROVE  \/ l = k /\ i + 1 \in 1 .. Len(queues[l]) /\ queues'[l][i] = queues[l][i + 1]
             \/ l # k /\ i \in 1 .. Len(queues[l]) /\ queues'[l][i] = queues[l][i]
  BY <1>7, <1>8
<1>10. EntriesApart'
  <2> SUFFICES ASSUME NEW l \in Keys, NEW m \in Keys, NEW i \in 1 .. Len(queues'[l]),
                      NEW n \in 1 .. Len(queues'[m]), queues'[l][i] = queues'[m][n]
      PROVE  l = m /\ i = n
    BY DEF EntriesApart
  <2> QED
    BY <1>2, <1>9 DEF EntriesApart
<1>11. \A l \in Keys : \A i \in 1 .. Len(queues[l]) :
         queues[l][i] \in Jobs /\ (queues[l][i] = h => l = k /\ i = 1)
  BY <1>2, <1>3, <1>4, MembersArePlaced DEF EntriesApart
<1>12. made' = made /\ restarts' = restarts /\ requested' = requested
  BY DEF DrainNext
<1> DEFINE left == [at EXCEPT ![h] = "none"]
<1>13. left \in [Jobs -> Places] /\ left[h] = "none" /\ \A i \in Jobs : i # h => left[i] = at[i]
  BY <1>2, <1>6 DEF JobTypeOK, Places
<1>14. CASE rest = <<>>
  <2>1. /\ drain' = [drain EXCEPT ![k] = "none"] /\ at' = left
        /\ UNCHANGED <<status, events, cancelled, running>>
    BY <1>5, <1>6, <1>14 DEF DrainNext
  <2> HIDE DEF left
  <2>2. Agrees(h) /\ Logged(h)
    BY <1>6 DEF RunnerInv
  <2>3. Agrees(h)'
    BY <1>6, <1>12, <1>13, <2>1, <2>2 DEF Agrees, Busy
  <2>4. Logged(h)'
    BY <1>12, <2>1, <2>2 DEF Logged, EventOf
  <2>5. status[h] # "absent"
    BY <1>6, <2>2 DEF Agrees, Terminal
  <2>6. InOrder' /\ \A i \in Jobs : Agrees(i)' /\ Logged(i)'
    BY <1>6, <1>12, <1>13, <2>1, <2>3, <2>4, <2>5, OneJobMoves
  <2>7. JobTypeOK'
    BY <1>2, <1>8, <1>12, <1>13, <2>1 DEF JobTypeOK
  <2>8. FollowersWait'
    <3> SUFFICES ASSUME NEW l \in Keys, NEW i \in 1 .. Len(queues'[l]), i > 1
        PROVE  at'[queues'[l][i]] = "waiting"
      BY DEF FollowersWait
    <3>1. Len(rest) = 0
      BY <1>14
    <3>2. l # k /\ i \in 1 .. Len(queues[l]) /\ queues'[l][i] = queues[l][i]
      BY <1>8, <1>9, <3>1
    <3>3. queues[l][i] # h /\ queues[l][i] \in Jobs
      BY <1>11, <3>2
    <3> QED
      BY <1>2, <1>13, <2>1, <3>2, <3>3 DEF FollowersWait
  <2>9. ASSUME NEW l \in Keys
        PROVE  /\ drain'[l] = "none" <=> Len(queues'[l]) = 0
               /\ drain'[l] = "microtask" => at'[queues'[l][1]] = "waiting"
               /\ drain'[l] = "awaiting" => at'[queues'[l][1]] \in Busy \union {"settled"}
    <3>1. CASE l = k
      <4>1. drain'[l] = "none" /\ Len(queues'[l]) = 0
        BY <1>2, <1>8, <1>14, <2>1, <3>1 DEF JobTypeOK
      <4> QED
        BY <4>1
    <3>2. CASE l # k
      <4>1. drain'[l] = drain[l] /\ queues'[l] = queues[l]
        BY <1>2, <1>8, <2>1, <3>2 DEF JobTypeOK
      <4>2. /\ drain[l] = "none" <=> Len(queues[l]) = 0
            /\ drain[l] = "microtask" => at[queues[l][1]] = "waiting"
            /\ drain[l] = "awaiting" => at[queues[l][1]] \in Busy \union {"settled"}
        BY <1>2 DEF HeadsAreRun
      <4>3. drain[l] # "none" => 1 \in 1 .. Len(queues[l])
        BY <1>1, <4>2
      <4>4. drain[l] # "none" => queues[l][1] # h /\ queues[l][1] \in Jobs
        BY <1>11, <3>2, <4>3
      <4> QED
        BY <1>13, <2>1, <4>1, <4>2, <4>4
    <3> QED
      BY <3>1, <3>2
  <2> QED
    BY <1>10, <2>1, <2>6, <2>7, <2>8, <2>9 DEF RunnerInv, HeadsAreRun, StatusesStay
<1>15. CASE rest # <<>>
  <2>1. PICK n : n = rest[1]
    OBVIOUS
  <2>2. Head(rest) = n /\ 1 \in 1 .. Len(rest) /\ 2 \in 1 .. Len(queues[k]) /\ n = queues[k][2]
    <3>1. Len(rest) > 0 /\ Head(rest) = n
      BY <1>7, <1>15, <2>1, EmptySeq, HeadTailProperties
    <3> QED
      BY <1>1, <1>7, <2>1, <3>1
  <2>3. n \in Jobs /\ n # h /\ at[n] = "waiting"
    BY <1>2, <1>11, <2>2 DEF FollowersWait
  <2> DEFINE nextAt == [left EXCEPT ![n] = "settled"]
  <2>4. Enter(n, nextAt) /\ drain' = drain
    BY <1>5, <1>6, <1>15, <2>2 DEF DrainNext
  <2> HIDE DEF left
  <2>5. /\ nextAt \in [Jobs -> Places] /\ nextAt[n] = "settled"
        /\ \A i \in Jobs : i # n => nextAt[i] = left[i]
    BY <1>13, <2>3 DEF Places
  <2> HIDE DEF nextAt
  <2>6. \A i \in Jobs : i # n => nextAt[i] = at[i] \/ (at[i] = "settled" /\ nextAt[i] = "none")
    BY <1>6, <1>13, <2>5
  <2>7. /\ InOrder' /\ \A i \in Jobs : Agrees(i)' /\ Logged(i)'
        /\ status' \in [Jobs -> Statuses] /\ events' \in [Jobs -> Seq(EventTypes)]
        /\ running' \in [Jobs -> {"no", "live", "aborted"}] /\ cancelled' \subseteq Jobs
        /\ at' \in [Jobs -> Places] /\ at'[n] \in {"task", nextAt[n]}
        /\ \A i \in Jobs : i # n => at'[i] = nextAt[i]
        /\ StatusesStay
    BY <1>12, <2>3, <2>4, <2>5, <2>6, Entered
  <2>8. JobTypeOK'
    BY <1>2, <1>8, <1>12, <2>4, <2>7 DEF JobTypeOK
  <2>9. \A i \in Jobs : i # n /\ i # h => at'[i] = at[i]
    BY <1>13, <2>5, <2>7
  <2>10. \A l \in Keys : \A i \in 1 .. Len(queues[l]) : queues[l][i] = n => l = k /\ i = 2
    BY <1>2, <2>2 DEF EntriesApart
  <2>11. FollowersWait'
    <3> SUFFICES ASSUME NEW l \in Keys, NEW i \in 1 .. Len(queues'[l]), i > 1
        PROVE  at'[queues'[l][i]] = "waiting"
      BY DEF FollowersWait
    <3>1. CASE l = k
      <4>1. i + 1 \in 1 .. Len(queues[k]) /\ i + 1 > 2 /\ queues'[l][i] = queues[k][i + 1]
        BY <1>9, <3>1
      <4>2. queues[k][i + 1] \in Jobs \ {n, h} /\ at[queues[k][i + 1]] = "waiting"
        BY <1>2, <1>11, <2>10, <4>1 DEF FollowersWait
      <4> QED
        BY <2>9, <4>1, <4>2
    <3>2. CASE l # k
      <4>1. i \in 1 .. Len(queues[l]) /\ queues'[l][i] = queues[l][i]
        BY <1>9, <3>2
      <4>2. queues[l][i] \in Jobs \ {n, h} /\ at[queues[l][i]] = "waiting"
        BY <1>2, <1>11, <2>10, <3>2, <4>1 DEF FollowersWait
      <4> QED
        BY <2>9, <4>1, <4>2
    <3> QED
      BY <3>1, <3>2
  <2>12. ASSUME NEW l \in Keys
         PROVE  /\ drain'[l] = "none" <=> Len(queues'[l]) = 0
                /\ drain'[l] = "microtask" => at'[queues'[l][1]] = "waiting"
                /\ drain'[l] = "awaiting" => at'[queues'[l][1]] \in Busy \union {"settled"}
    <3>1. CASE l = k
      <4>1. drain'[l] = "awaiting" /\ Len(queues'[l]) # 0 /\ queues'[l][1] = n
        BY <1>3, <1>7, <1>8, <2>1, <2>2, <2>4, <3>1
      <4> QED
        BY <2>5, <2>7, <4>1 DEF Busy
    <3>2. CASE l # k
      <4>1. /\ drain[l] = "none" <=> Len(queues[l]) = 0
            /\ drain[l] = "microtask" => at[queues[l][1]] = "waiting"
            /\ drain[l] = "awaiting" => at[queues[l][1]] \in Busy \union {"settled"}
        BY <1>2 DEF HeadsAreRun
      <4>2. drain[l] # "none" => 1 \in 1 .. Len(queues[l])
        BY <1>1, <4>1
      <4>3. drain[l] # "none" => queues[l][1] \in Jobs \ {n, h}
        BY <1>11, <2>10, <3>2, <4>2
      <4>4. drain'[l] = drain[l] /\ queues'[l] = queues[l]
        BY <1>8, <2>4, <3>2
      <4> QED
        BY <2>9, <4>1, <4>3, <4>4
    <3> QED
      BY <3>1, <3>2
  <2> QED
    BY <1>10, <2>7, <2>8, <2>11, <2>12 DEF RunnerInv, HeadsAreRun
<1> QED
  BY <1>14, <1>15

-----------------------------------------------------------------------------
\* What a crash may leave of a status: itself, or the last status of a job that had none yet.
LEMMA CrashEndsJobs ==
  ASSUME RunnerInv, NEW left \in StatusesLeft
  PROVE  /\ left \in [Jobs -> Statuses]
         /\ \A j \in Jobs : left[j] = status[j]
                            \/ (status[j] \in {"queued", "running"} /\ left[j] \in Terminal)
<1>1. status \in [Jobs -> Statuses] /\ Terminal \subseteq Statuses
  BY DEF RunnerInv, JobTypeOK, Statuses
<1>2. ASSUME NEW j \in Jobs, NEW s \in Terminal, status[j] \in {"queued", "running"},
             left = [status EXCEPT ![j] = s]
      PROVE  /\ left \in [Jobs -> Statuses]
             /\ \A i \in Jobs : left[i] = status[i]
                                \/ (status[i] \in {"queued", "running"} /\ left[i] \in Terminal)
  BY <1>1, <1>2
<1>3. CASE left = status
  BY <1>1, <1>3
<1>4. ASSUME NEW j \in Jobs, status[j] = "queued", left = [status EXCEPT ![j] = "cancelled"]
      PROVE  \E s \in Terminal : left = [status EXCEPT ![j] = s]
  BY <1>4 DEF Terminal
<1>5. ASSUME NEW j \in Jobs, left = [status EXCEPT ![j] = "failed"]
      PROVE  \E s \in Terminal : left = [status EXCEPT ![j] = s]
  BY <1>5 DEF Terminal
<1>6. ASSUME NEW j \in Jobs, at[j] \in {"returned", "threw"},
             left = [status EXCEPT ![j] = Outcome(j)]
      PROVE  status[j] = "running" /\ \E s \in Terminal : left = [status EXCEPT ![j] = s]
  <2>1. status[j] = "running"
    BY <1>6 DEF RunnerInv, Agrees, Busy
  <2>2. Outcome(j) \in Terminal
    BY <2>1 DEF Outcome, Terminal
  <2> QED
    BY <1>6, <2>1, <2>2
<1>7. \/ left = status
      \/ \E j \in Jobs : status[j] = "queued" /\ left = [status EXCEPT ![j] = "cancelled"]
      \/ \E j \in Jobs : /\ status[j] \in {"queued", "running"}
                         /\ left = [status EXCEPT ![j] = "failed"]
      \/ \E j \in Jobs : /\ at[j] \in {"returned", "threw"}
                         /\ left = [status EXCEPT ![j] = Outcome(j)]
  BY DEF StatusesLeft
<1> QED
  BY <1>2, <1>3, <1>4, <1>5, <1>6, <1>7

\* A restart ends every job that had not ended, and no other.
LEMMA RestartKeeps == ASSUME RunnerInv, Restart PROVE RunnerInv' /\ StatusesStay
<1>1. PICK left \in StatusesLeft :
        LET lost == {j \in Jobs : left[j] \in {"queued", "running"}}
        IN /\ status' = [j \in Jobs |-> IF j \in lost THEN "failed" ELSE left[j]]
           /\ events' = [j \in Jobs |-> IF j \in lost THEN Append(events[j], "failed")
                                        ELSE events[j]]
  BY DEF Restart
<1>2. /\ restarts' = restarts + 1 /\ cancelled' = {} /\ running' = [j \in Jobs |-> "no"]
      /\ queues' = [k \in Keys |-> <<>>] /\ at' = [j \in Jobs |-> "none"]
      /\ drain' = [k \in Keys |-> "none"] /\ requested' = {} /\ made' = made
  BY DEF Restart
<1>3. /\ left \in [Jobs -> Statuses]
      /\ \A j \in Jobs : left[j] = status[j]
                         \/ (status[j] \in {"queued", "running"} /\ left[j] \in Terminal)
  BY CrashEndsJobs
<1>4. JobTypeOK /\ restarts' \in Nat /\ restarts' # 0
  BY <1>2 DEF RunnerInv, JobTypeOK
<1>5. ASSUME NEW j \in Jobs
      PROVE  /\ status'[j] = "absent" <=> status[j] = "absent"
             /\ status'[j] \in Statuses /\ status'[j] \in Terminal \union {"absent"}
             /\ status[j] \in Terminal => status'[j] = status[j]
             /\ \/ events'[j] = events[j] /\ (status[j] \in Terminal \/ status'[j] \in Terminal
                                              \/ status'[j] = status[j])
                \/ events'[j] = Append(events[j], "failed") /\ status'[j] = "failed"
                   /\ status[j] \notin Terminal
             /\ events'[j] \in Seq(EventTypes)
  <2>1. left[j] = status[j] \/ (status[j] \in {"queued", "running"} /\ left[j] \in Terminal)
    BY <1>3
  <2>2. status[j] \in Statuses /\ left[j] \in Statuses
    BY <1>3, <1>4 DEF JobTypeOK
  <2>3. CASE left[j] \in {"queued", "running"}
    <3>1. status'[j] = "failed" /\ events'[j] = Append(events[j], "failed")
      BY <1>1, <2>3
    <3>2. Append(events[j], "failed") \in Seq(EventTypes)
      BY <1>4, AppendProperties DEF JobTypeOK, EventTypes, TerminalEvents
    <3> QED
      BY <2>1, <2>3, <3>1, <3>2 DEF Terminal, Statuses
  <2>4. CASE left[j] \notin {"queued", "running"}
    <3>1. status'[j] = left[j] /\ events'[j] = events[j]
      BY <1>1, <2>4
    <3>2. events[j] \in Seq(EventTypes)
      BY <1>4 DEF JobTypeOK
    <3> QED
      BY <2>1, <2>2, <2>4, <3>1, <3>2 DEF Terminal, Statuses
  <2> QED
    BY <2>3, <2>4
<1>6. JobTypeOK'
  <2>1. status' \in [Jobs -> Statuses]
    BY <1>1, <1>5
  <2>2. events' \in [Jobs -> Seq(EventTypes)]
    BY <1>1, <1>5
  <2>3. queues' \in [Keys -> Seq(Jobs)]
    BY <1>2, EmptySeq
  <2> QED
    BY <1>2, <1>4, <2>1, <2>2, <2>3 DEF JobTypeOK, Places
<1>7. InOrder'
  BY <1>2, <1>5 DEF RunnerInv, InOrder
<1>8. EntriesApart' /\ FollowersWait' /\ HeadsAreRun'
  <2>1. \A k \in Keys : Len(queues'[k]) = 0 /\ drain'[k] = "none"
    BY <1>2
  <2> QED
    BY <2>1 DEF EntriesApart, FollowersWait, HeadsAreRun
<1>9. ASSUME NEW j \in Jobs PROVE Agrees(j)' /\ Logged(j)'
  <2>1. Agrees(j)'
    BY <1>2, <1>5 DEF Agrees, Busy
  <2>2. Logged(j)
    BY DEF RunnerInv
  <2>3. CASE events'[j] = events[j]
    <3>1. \A i \in 1 .. Len(events[j]) :
            events[j][i] \in TerminalEvents =>
              i = Len(events[j]) /\ status'[j] \in Terminal /\ events[j][i] = EventOf(status'[j])
      BY <1>5, <2>2 DEF Logged, EventOf
    <3> QED
      BY <1>4, <2>1, <2>3, <3>1 DEF Logged, EventOf
  <2>4. CASE events'[j] = Append(events[j], "failed") /\ status'[j] = "failed"
             /\ status[j] \notin Terminal
    <3>1. "failed" \in EventTypes /\ "failed" \in Terminal /\ "failed" \in Statuses
          /\ "failed" = EventOf("failed")
      BY DEF EventTypes, TerminalEvents, Terminal, Statuses, EventOf
    <3> QED
      BY <1>4, <2>1, <2>2, <2>4, <3>1, AppendTells
  <2> QED
    BY <1>5, <2>1, <2>3, <2>4
<1> QED
  BY <1>5, <1>6, <1>7, <1>8, <1>9 DEF RunnerInv, StatusesStay

-----------------------------------------------------------------------------
\* Every step keeps the invariant and the last status of every job.
LEMMA RunnerStepKeeps == RunnerInv /\ [JobStep]_jobVars => RunnerInv' /\ StatusesStay
<1> SUFFICES ASSUME RunnerInv, [JobStep]_jobVars PROVE RunnerInv' /\ StatusesStay
  OBVIOUS
<1>1. CASE Create
  BY <1>1, CreateKeeps
<1>2. CASE Restart
  BY <1>2, RestartKeeps
<1>3. ASSUME NEW k \in Keys, CreateQueued(k) \/ DrainStart(k) \/ DrainNext(k)
      PROVE  RunnerInv' /\ StatusesStay
  BY <1>3, CreateQueuedKeeps, DrainStartKeeps, DrainNextKeeps
<1>4. ASSUME NEW j \in Jobs,
             \/ CancelRunning(j) \/ CancelQueued(j) \/ RunCreated(j)
             \/ TaskLog(j) \/ TaskEnds(j) \/ Finish(j)
      PROVE  RunnerInv' /\ StatusesStay
  BY <1>4, CancelRunningKeeps, CancelQueuedKeeps, RunCreatedKeeps, LogKeeps, EndKeeps, FinishKeeps
<1>5. CASE UNCHANGED jobVars
  <2>1. /\ made' = made /\ status' = status /\ events' = events /\ cancelled' = cancelled
        /\ running' = running /\ queues' = queues /\ at' = at /\ drain' = drain
        /\ restarts' = restarts /\ requested' = requested
    BY <1>5 DEF jobVars
  <2>2. JobTypeOK' /\ InOrder'
    BY <2>1 DEF RunnerInv, JobTypeOK, InOrder
  <2>3. \A j \in Jobs : Agrees(j)' /\ Logged(j)'
    BY <2>1 DEF RunnerInv, Agrees, Logged, EventOf
  <2> QED
    BY <2>1, <2>2, <2>3, QueuesAlone DEF RunnerInv, StatusesStay
<1> QED
  BY <1>1, <1>2, <1>3, <1>4, <1>5 DEF JobStep

\* The runner's invariant holds for any number of jobs, queues and restarts.
THEOREM RunnerIsSound == JobSpec => []RunnerInv
<1>1. JobInit => RunnerInv
  BY RunnerStarts
<1>2. RunnerInv /\ [JobStep]_jobVars => RunnerInv'
  BY RunnerStepKeeps
<1> QED
  BY <1>1, <1>2, PTL DEF JobSpec

\* What JobsRunner promises of its rows, queues and registries: a cancellation accepted by cancel
\* wins over a task that returns all the same, one job of a queue runs at a time, a queue with
\* entries is drained, and running and cancelled keep nothing of a job that ended.
THEOREM QueuesAndCancellations == JobSpec => []JobInv
<1>1. RunnerInv => JobInv
  BY RunnerInvSuffices
<1> QED
  BY <1>1, RunnerIsSound, PTL

\* A job has at most one terminal event, the last of its log, and it tells the status of its row.
THEOREM LogsTellTheTruth == JobSpec => []LogTellsStatus
<1>1. RunnerInv => LogTellsStatus
  BY RunnerInvSuffices
<1> QED
  BY <1>1, RunnerIsSound, PTL

\* No handler of JobsRunner and no recovery after a restart replaces a terminal status.
THEOREM StatusesAreFinal == JobSpec => TerminalIsFinal
<1>1. RunnerInv /\ [JobStep]_jobVars =>
        [\A j \in Jobs : status[j] \in Terminal => status'[j] = status[j]]_jobVars
  BY RunnerStepKeeps DEF StatusesStay
<1> QED
  BY <1>1, RunnerIsSound, PTL DEF JobSpec, TerminalIsFinal

-----------------------------------------------------------------------------
(* The page of a job *)

Newest == Len(events[Job])
Numbers == shown \ {Synthesized}

\* A run of consecutive events, and what follows one.
IsRun(s) == \E a, b \in Nat \ {0} : a <= b /\ b <= Newest /\ s = a .. b
Follows(s, t) == (\A m \in s, n \in t : m < n) /\ \E m \in s : m + 1 \in t

\* The history sent to a page: all there was, or as much as the page keeps.
Replaces(t) == \E b \in Nat \ {0} : /\ t = LastOf(1 .. b)
                                    /\ \A n \in Numbers : n <= b

FramesFit ==
  /\ \A i \in 1 .. Len(wire) : IsRun(wire[i].numbers)
  /\ \A i \in 1 .. Len(wire) : i > 1 => Follows(wire[i - 1].numbers, wire[i].numbers)
  /\ Len(wire) > 0 => Follows(Numbers, wire[1].numbers) \/ Replaces(wire[1].numbers)

Live == phase \in {"accepted", "open"}

NewestComes ==
  /\ Live => IF Len(wire) = 0 THEN Newest \in shown ELSE Newest \in wire[Len(wire)].numbers
  /\ Live => subscribed \/ status[Job] \in Terminal
  /\ subscribed => Live
  /\ Len(wire) > 0 => Live \/ phase = "lost"

\* A page that shows no job has done nothing.
NothingBefore ==
  /\ current # "none" => status[Job] # "absent"
  /\ status[Job] # "absent" => Newest > 0
  /\ current = "none" => /\ phase = "none" /\ ~polling /\ finished = "no"
                         /\ \A c \in Calls : calls[c] = Free

CallsAreTrue ==
  \A c \in Calls :
    /\ calls[c] = Free \/ (calls[c].for \in {"poll", "final"} /\ calls[c].seen # "none")
    /\ calls[c].seen # "absent"
    /\ calls[c].seen \in Terminal => calls[c].seen = status[Job]
    /\ calls[c].for = "final" => /\ status[Job] \in Terminal
                                 /\ calls[c].seen \in Terminal \union {"pending"}

FinishedForGood ==
  /\ FinishedOnceAndTrue
  /\ finished = "no" => Synthesized \notin shown
  /\ finished # "no" => stopped /\ ~polling /\ phase \in {"closing", "none"}

PageTypeOK ==
  /\ StreamTypeOK
  /\ wire \in Seq([numbers : SUBSET Nat, terminal : BOOLEAN])
  /\ calls \in [Calls -> [for : {"none", "poll", "final"},
                          seen : {"none", "pending"} \union Statuses]]

StreamInv ==
  /\ RunnerInv
  /\ PageTypeOK /\ LogHasNoHole /\ FramesFit /\ NewestComes /\ NothingBefore /\ CallsAreTrue
  /\ FinishedForGood

-----------------------------------------------------------------------------
(* The logs of the jobs *)

\* What a step of the runner does to the row and the log of a job: one event more at most,
\* none after a terminal status, and a row does not go away or come without an event.
RowMoves(j) ==
  /\ \/ events'[j] = events[j] /\ (status[j] = "absent" <=> status'[j] = "absent")
     \/ /\ status[j] \notin Terminal /\ status'[j] # "absent"
        /\ \E e \in EventTypes : events'[j] = Append(events[j], e)

LEMMA UpdateMoves ==
  ASSUME RunnerInv, NEW h, NEW j \in Jobs, NEW s \in Statuses \ {"absent"}, NEW e \in EventTypes,
         status[h] \notin Terminal, Update(h, s, e)
  PROVE  RowMoves(j)
<1>1. /\ DOMAIN status = Jobs /\ DOMAIN events = Jobs
  BY DEF RunnerInv, JobTypeOK
<1>2. CASE h = j
  BY <1>1, <1>2 DEF Update, RowMoves
<1>3. CASE h # j
  <2>1. events'[j] = events[j] /\ status'[j] = status[j]
    BY <1>1, <1>3 DEF Update
  <2> QED
    BY <2>1 DEF RowMoves
<1> QED
  BY <1>2, <1>3

LEMMA EnterMoves ==
  ASSUME RunnerInv, NEW h, NEW j \in Jobs, NEW nextAt, Enter(h, nextAt), h \notin cancelled => status[h] \notin Terminal
  PROVE  RowMoves(j)
<1>1. CASE h \in cancelled
  BY <1>1 DEF Enter, RowMoves
<1>2. CASE h \notin cancelled
  BY <1>2, UpdateMoves DEF Enter, Statuses, EventTypes
<1> QED
  BY <1>1, <1>2

LEMMA RowsMove ==
  ASSUME RunnerInv, JobStep, NEW j \in Jobs
  PROVE  RowMoves(j)
<1>0. /\ \A i \in Jobs : Agrees(i) /\ Logged(i)
      /\ \A k \in Keys : queues[k] \in Seq(Jobs)
      /\ StatusesStay
  BY RunnerStepKeeps DEF RunnerInv, JobTypeOK
<1>1. ASSUME Create \/ \E k \in Keys : CreateQueued(k)
      PROVE  RowMoves(j)
  <2>1. made < NumJobs /\ Update(made + 1, "queued", "queued")
    BY <1>1 DEF Create, CreateQueued
  <2>2. made + 1 \in Jobs /\ status[made + 1] \notin Terminal
    BY <2>1, NumJobsAssumption DEF RunnerInv, JobTypeOK, InOrder, Jobs, Terminal
  <2> QED
    BY <2>1, <2>2, UpdateMoves DEF Statuses, EventTypes
<1>2. ASSUME NEW k \in Keys, DrainStart(k)
      PROVE  RowMoves(j)
  <2>1. Enter(Head(queues[k]), [at EXCEPT ![Head(queues[k])] = "settled"])
    BY <1>2 DEF DrainStart
  <2>2. at[queues[k][1]] = "waiting" /\ Len(queues[k]) > 0
    BY <1>0, <1>2, LenProperties DEF DrainStart, RunnerInv, HeadsAreRun
  <2>3. Head(queues[k]) = queues[k][1] /\ queues[k][1] \in Jobs
    BY <1>0, <2>2, ElementOfSeq, LenProperties
  <2>4. Head(queues[k]) \notin cancelled => status[Head(queues[k])] \notin Terminal
    BY <1>0, <2>2, <2>3 DEF Agrees, Terminal
  <2> QED
    BY <2>1, <2>4, EnterMoves
<1>3. ASSUME NEW k \in Keys, DrainNext(k)
      PROVE  RowMoves(j)
  <2> DEFINE next == Head(Tail(queues[k]))
  <2>1. CASE Tail(queues[k]) = <<>>
    BY <1>3, <2>1 DEF DrainNext, RowMoves
  <2>2. CASE Tail(queues[k]) # <<>>
    <3>1. PICK nextAt : Enter(next, nextAt)
      BY <1>3, <2>2 DEF DrainNext
    <3>2. queues[k] # <<>> /\ Len(queues[k]) \in Nat
      BY <1>0, <1>3, EmptySeq, LenProperties DEF DrainNext, RunnerInv, HeadsAreRun
    <3>3. Len(queues[k]) > 1 /\ next = queues[k][2]
      BY <1>0, <2>2, <3>2
    <3>4. at[next] = "waiting" /\ next \in Jobs
      BY <1>0, <3>2, <3>3, ElementOfSeq DEF RunnerInv, FollowersWait
    <3>5. next \notin cancelled => status[next] \notin Terminal
      BY <1>0, <3>4 DEF Agrees, Terminal
    <3> QED
      BY <3>1, <3>5, EnterMoves
  <2> QED
    BY <2>1, <2>2
<1>4. ASSUME NEW i \in Jobs, CancelRunning(i) \/ CancelQueued(i)
      PROVE  RowMoves(j)
  <2>1. CASE CancelRunning(i)
    BY <2>1, UpdateMoves DEF CancelRunning, Statuses, EventTypes, Terminal
  <2>2. CASE CancelQueued(i)
    BY <2>2, UpdateMoves DEF CancelQueued, Statuses, EventTypes, Terminal, TerminalEvents
  <2> QED
    BY <1>4, <2>1, <2>2
<1>5. ASSUME NEW i \in Jobs, RunCreated(i)
      PROVE  RowMoves(j)
  <2>1. Enter(i, [at EXCEPT ![i] = "none"]) /\ at[i] = "microtask"
    BY <1>5 DEF RunCreated
  <2>2. i \notin cancelled => status[i] \notin Terminal
    BY <1>0, <2>1 DEF Agrees, Terminal
  <2> QED
    BY <2>1, <2>2, EnterMoves
<1>6. ASSUME NEW i \in Jobs, TaskLog(i)
      PROVE  RowMoves(j)
  <2>1. Update(i, "running", "log")
    <3>1. at[i] = "task" /\ events' = [events EXCEPT ![i] = Append(@, "log")] /\ status' = status
      BY <1>6 DEF TaskLog
    <3>2. status[i] = "running" /\ status \in [Jobs -> Statuses]
      BY <1>0, <3>1 DEF Agrees, Busy, RunnerInv, JobTypeOK
    <3>3. status' = [status EXCEPT ![i] = "running"]
      BY <3>1, <3>2
    <3> QED
      BY <3>1, <3>3 DEF Update
  <2>2. status[i] \notin Terminal
    BY <1>0, <1>6 DEF Agrees, Busy, TaskLog, Terminal
  <2> QED
    BY <2>1, <2>2, UpdateMoves DEF Statuses, EventTypes
<1>7. ASSUME NEW i \in Jobs, TaskEnds(i)
      PROVE  RowMoves(j)
  BY <1>7 DEF TaskEnds, RowMoves
<1>8. ASSUME NEW i \in Jobs, Finish(i)
      PROVE  RowMoves(j)
  <2>1. status[i] = "running" /\ at[i] \in {"returned", "threw"}
    BY <1>0, <1>8 DEF Finish, Agrees, Busy
  <2>2. Update(i, Outcome(i), EventOf(Outcome(i))) /\ status[i] \notin Terminal
    BY <1>8, <2>1 DEF Finish, Terminal
  <2>3. Outcome(i) \in Terminal
    BY DEF Outcome, Terminal
  <2>4. Outcome(i) \in Statuses \ {"absent"} /\ EventOf(Outcome(i)) \in EventTypes
    BY <2>3 DEF Terminal, Statuses, EventTypes, TerminalEvents, EventOf
  <2> QED
    BY <2>2, <2>4, UpdateMoves
<1>9. ASSUME Restart
      PROVE  RowMoves(j)
  <2>1. PICK left \in StatusesLeft :
          LET lost == {i \in Jobs : left[i] \in {"queued", "running"}}
          IN /\ status' = [i \in Jobs |-> IF i \in lost THEN "failed" ELSE left[i]]
             /\ events' = [i \in Jobs |-> IF i \in lost THEN Append(events[i], "failed")
                                          ELSE events[i]]
    BY <1>9 DEF Restart
  <2>2. left[j] = status[j] \/ (status[j] \in {"queued", "running"} /\ left[j] \in Terminal)
    BY CrashEndsJobs
  <2>3. CASE left[j] \in {"queued", "running"}
    <3>1. status'[j] = "failed" /\ events'[j] = Append(events[j], "failed")
      BY <2>1, <2>3
    <3>2. status[j] \notin Terminal
      BY <2>2, <2>3 DEF Terminal
    <3> QED
      BY <3>1, <3>2 DEF RowMoves, EventTypes, TerminalEvents
  <2>4. CASE left[j] \notin {"queued", "running"}
    <3>1. status'[j] = left[j] /\ events'[j] = events[j]
      BY <2>1, <2>4
    <3> QED
      BY <2>2, <3>1 DEF RowMoves, Terminal
  <2> QED
    BY <2>3, <2>4
<1> QED
  BY <1>1, <1>2, <1>3, <1>4, <1>5, <1>6, <1>7, <1>8, <1>9 DEF JobStep

-----------------------------------------------------------------------------
(* The last events *)

LEMMA CountAbove ==
  ASSUME NEW n \in Nat, NEW b \in Nat, NEW S \in SUBSET (1 .. b), (n + 1) .. b \subseteq S, n <= b
  PROVE  Cardinality({m \in S : m > n}) = b - n
<1>1. {m \in S : m > n} = (n + 1) .. b
  <2>1. ASSUME NEW m, m \in S, m > n PROVE m \in (n + 1) .. b
    <3>1. m \in 1 .. b
      BY <2>1
    <3> QED
      BY <2>1, <3>1
  <2>2. ASSUME NEW m, m \in (n + 1) .. b PROVE m \in S /\ m > n
    <3>1. m > n
      BY <2>2
    <3> QED
      BY <2>2, <3>1
  <2> QED
    BY <2>1, <2>2
<1>2. Cardinality((n + 1) .. b) = IF n + 1 > b THEN 0 ELSE b - (n + 1) + 1
  <2>1. n + 1 \in Int /\ b \in Int
    OBVIOUS
  <2> QED
    BY <2>1, FS_Interval
<1>3. Cardinality((n + 1) .. b) = b - n
  BY <1>2
<1> QED
  BY <1>1, <1>3, Zenon

LEMMA SetsOfEventsAreFinite ==
  ASSUME NEW b \in Nat, NEW S \in SUBSET (1 .. b)
  PROVE  IsFiniteSet(S) /\ Cardinality(S) \in Nat
<1>1. IsFiniteSet(1 .. b)
  BY FS_Interval
<1> QED
  BY <1>1, FS_Subset, FS_CardinalityType

\* What LastOf leaves of events up to b without holes, and what it leaves of a set that has the
\* last of 1 .. b.
LEMMA LastOfLeaves ==
  ASSUME NEW b \in Nat, NEW S \in SUBSET (1 .. b), b \in S
  PROVE  /\ LastOf(S) \subseteq S /\ b \in LastOf(S)
         /\ (\A m, n \in S : m .. n \subseteq S) =>
              \A n \in 1 .. b : n \in LastOf(S) <=> n \in S /\ b - n < Limit
         /\ (\A n \in 1 .. b : b - n < Limit => n \in S) =>
              \A n \in 1 .. b : n \in LastOf(S) <=> b - n < Limit
<1>1. Limit \in Nat \ {0}
  BY LimitAssumption
<1>2. LastOf(S) \subseteq S
  BY DEF LastOf
<1>3. ASSUME NEW n \in 1 .. b, (n + 1) .. b \subseteq S
      PROVE  n \in LastOf(S) <=> n \in S /\ b - n < Limit
  <2>1. Cardinality({m \in S : m > n}) = b - n
    BY <1>3, CountAbove
  <2> QED
    BY <2>1 DEF LastOf
<1>4. b \in LastOf(S)
  BY <1>1, <1>3
<1>5. ASSUME \A m, n \in S : m .. n \subseteq S, NEW n \in 1 .. b
      PROVE  n \in LastOf(S) <=> n \in S /\ b - n < Limit
  <2>1. CASE n \in S
    <3>1. (n + 1) .. b \subseteq S
      BY <1>5, <2>1
    <3> QED
      BY <1>3, <3>1
  <2>2. CASE n \notin S
    BY <1>2, <2>2
  <2> QED
    BY <2>1, <2>2
<1>6. ASSUME \A n \in 1 .. b : b - n < Limit => n \in S, NEW n \in 1 .. b
      PROVE  n \in LastOf(S) <=> b - n < Limit
  <2>1. CASE b - n < Limit
    <3>1. (n + 1) .. b \subseteq S
      BY <1>1, <1>6, <2>1
    <3> QED
      BY <1>3, <1>6, <2>1, <3>1
  <2>2. CASE ~(b - n < Limit)
    <3> DEFINE last == (b - Limit + 1) .. b
               above == {m \in S : m > n}
    <3>1. last \subseteq above
      BY <1>1, <1>6, <2>2
    <3>2. Cardinality(last) = Limit
      BY <1>1, FS_Interval
    <3>3. IsFiniteSet(above) /\ Cardinality(above) \in Nat
      BY SetsOfEventsAreFinite
    <3>4. Cardinality(last) <= Cardinality(above)
      BY <3>1, <3>3, FS_Subset
    <3>5. ~(Cardinality(above) < Limit)
      <4> HIDE DEF last, above
      <4> QED
        BY <1>1, <3>2, <3>3, <3>4
    <3>6. n \in LastOf(S) => Cardinality(above) < Limit
      BY DEF LastOf
    <3> QED
      BY <2>2, <3>5, <3>6
  <2> QED
    BY <2>1, <2>2
<1> QED
  BY <1>2, <1>4, <1>5, <1>6

LEMMA AtMostLimit ==
  ASSUME NEW b \in Nat, NEW T \in SUBSET (1 .. b), \A n \in T : b - n < Limit
  PROVE  Cardinality(T) <= Limit
<1> DEFINE last == (b - Limit + 1) .. b
<1>1. Limit \in Nat \ {0}
  BY LimitAssumption
<1>2. IsFiniteSet(last) /\ Cardinality(last) = Limit
  <2>1. b - Limit + 1 \in Int /\ b \in Int /\ ~(b - Limit + 1 > b) /\ b - (b - Limit + 1) + 1 = Limit
    BY <1>1
  <2> QED
    BY <2>1, FS_Interval
<1>3. T \subseteq last
  BY <1>1
<1> HIDE DEF last
<1> QED
  BY <1>2, <1>3, FS_Subset

\* The history is a run that ends at the newest event.
LEMMA HistoryIsRun ==
  ASSUME NEW b \in Nat \ {0}, b <= Newest
  PROVE  /\ b \in LastOf(1 .. b) /\ LastOf(1 .. b) \subseteq 1 .. b
         /\ IsRun(LastOf(1 .. b))
<1>1. Limit \in Nat \ {0} /\ b \in 1 .. b
  BY LimitAssumption
<1>2. /\ LastOf(1 .. b) \subseteq 1 .. b /\ b \in LastOf(1 .. b)
      /\ \A n \in 1 .. b : n \in LastOf(1 .. b) <=> b - n < Limit
  BY <1>1, LastOfLeaves
<1>3. PICK a \in 1 .. b : \A n \in 1 .. b : b - n < Limit <=> n >= a
  <2>1. CASE b <= Limit
    BY <1>1, <2>1
  <2>2. CASE b > Limit
    <3>1. b - Limit + 1 \in 1 .. b
      BY <1>1, <2>2
    <3>2. \A n \in 1 .. b : b - n < Limit <=> n >= b - Limit + 1
      BY <1>1
    <3> QED
      BY <3>1, <3>2
  <2> QED
    BY <1>1, <2>1, <2>2
<1>4. LastOf(1 .. b) = a .. b
  <2>1. ASSUME NEW n, n \in LastOf(1 .. b) PROVE n \in a .. b
    BY <1>2, <1>3, <2>1
  <2>2. ASSUME NEW n, n \in a .. b PROVE n \in LastOf(1 .. b)
    BY <1>2, <1>3, <2>2
  <2> QED
    BY <2>1, <2>2
<1> QED
  BY <1>2, <1>4 DEF IsRun

\* What is shown after the next frame: no hole, not too much, and the newest event of the frame.
LEMMA ShownAfterFrame ==
  ASSUME StreamInv, Len(wire) > 0, Synthesized \notin shown
  PROVE  \E b \in wire[1].numbers :
           LET T == LastOf(shown \union wire[1].numbers)
           IN /\ b <= Newest /\ b \in T /\ T \subseteq 1 .. b
              /\ \A n \in wire[1].numbers : n <= b
              /\ Cardinality(T) <= Limit
              /\ \A m, n \in T : m .. n \subseteq T
<1> DEFINE A == wire[1].numbers
           S == shown \union A
           T == LastOf(S)
<1>0. /\ Limit \in Nat \ {0}
      /\ shown \subseteq 1 .. Newest
      /\ \A m, n \in shown : m .. n \subseteq shown
      /\ Numbers = shown
  <2>1. events[Job] \in Seq(EventTypes) /\ shown \subseteq {Synthesized} \union DOMAIN events[Job]
    BY JobAssumption DEF StreamInv, PageTypeOK, StreamTypeOK, RunnerInv, JobTypeOK
  <2>2. DOMAIN events[Job] = 1 .. Newest
    BY <2>1, LenProperties DEF Newest
  <2> QED
    BY <2>1, <2>2, LimitAssumption DEF StreamInv, LogHasNoHole, Numbers
<1>1. PICK a, b \in Nat \ {0} : a <= b /\ b <= Newest /\ A = a .. b
  <2>1. Len(wire) \in Nat
    BY LenProperties DEF StreamInv, PageTypeOK
  <2>2. IsRun(A)
    BY <2>1 DEF StreamInv, FramesFit
  <2> QED
    BY <2>2 DEF IsRun
<1>2. b \in A /\ b \in Nat /\ \A n \in A : n <= b
  BY <1>1
<1> HIDE DEF A
<1>3. CASE Follows(Numbers, A)
  <2>1. PICK m \in shown : m + 1 = a
    <3>1. PICK m \in shown : m + 1 \in A /\ \A n \in A : m < n
      <4>1. Follows(shown, A)
        BY <1>0, <1>3
      <4> QED
        BY <4>1 DEF Follows
    <3>2. m < a /\ m + 1 >= a
      BY <1>1, <3>1
    <3>3. m \in Nat
      BY <1>0, <3>1
    <3>4. m + 1 = a
      BY <3>2, <3>3
    <3> QED
      BY <3>1, <3>4
  <2>2. \A n \in shown : n \in 1 .. m
    BY <1>0, <1>1, <1>3, <2>1 DEF Follows
  <2>3. S \subseteq 1 .. b /\ b \in S
    BY <1>1, <1>2, <2>1, <2>2
  <2>4. ASSUME NEW x \in S, NEW y \in S, NEW z \in x .. y PROVE z \in S
    <3>1. CASE z <= m
      <4>1. x \in shown
        BY <1>1, <2>1, <2>2, <2>3, <2>4, <3>1
      <4>2. z \in x .. m
        BY <2>1, <2>2, <2>3, <2>4, <3>1
      <4> QED
        BY <1>0, <2>1, <4>1, <4>2
    <3>2. CASE z > m
      BY <1>1, <2>1, <2>2, <2>3, <2>4, <3>2
    <3> QED
      BY <2>1, <2>2, <2>3, <2>4, <3>1, <3>2
  <2>5. \A x, y \in S : x .. y \subseteq S
    BY <2>4
  <2>6. /\ T \subseteq S /\ b \in T
        /\ \A n \in 1 .. b : n \in T <=> n \in S /\ b - n < Limit
    BY <1>2, <2>3, <2>5, LastOfLeaves
  <2>7. T \subseteq 1 .. b /\ \A n \in T : b - n < Limit
    BY <2>3, <2>6
  <2>8. Cardinality(T) <= Limit
    BY <1>2, <2>7, AtMostLimit
  <2>9. ASSUME NEW x \in T, NEW y \in T, NEW z \in x .. y PROVE z \in T
    <3>1. z \in S
      BY <2>4, <2>6, <2>9
    <3>2. z \in 1 .. b /\ b - z < Limit
      <4> HIDE DEF T
      <4>1. x \in 1 .. b /\ y \in 1 .. b /\ b - x < Limit
        BY <2>7, <2>9
      <4> QED
        BY <1>0, <2>9, <4>1
    <3> QED
      BY <2>6, <3>1, <3>2
  <2> QED
    BY <1>1, <1>2, <2>6, <2>7, <2>8, <2>9 DEF A
<1>4. CASE Replaces(A)
  <2>1. /\ A \subseteq 1 .. b
        /\ \A n \in shown : n <= b
        /\ \A n \in 1 .. b : b - n < Limit => n \in A
    <3>1. PICK c \in Nat \ {0} : A = LastOf(1 .. c) /\ \A n \in shown : n <= c
      BY <1>0, <1>4 DEF Replaces
    <3>2. c \in A /\ A \subseteq 1 .. c /\ \A n \in 1 .. c : n \in A <=> c - n < Limit
      BY <3>1, LastOfLeaves
    <3>3. c = b
      BY <1>1, <1>2, <3>1, <3>2
    <3> QED
      BY <3>1, <3>2, <3>3
  <2>2. S \in SUBSET (1 .. b) /\ b \in S /\ \A n \in 1 .. b : b - n < Limit => n \in S
    <3>1. \A n \in shown : n \in 1 .. b
      BY <1>0, <1>2, <2>1
    <3>2. S \in SUBSET (1 .. b)
      BY <2>1, <3>1
    <3>3. b \in S
      BY <1>2
    <3>4. \A n \in 1 .. b : b - n < Limit => n \in S
      BY <2>1
    <3> QED
      BY <3>2, <3>3, <3>4
  <2>3. /\ T \subseteq S /\ b \in T
        /\ \A n \in 1 .. b : n \in T <=> b - n < Limit
    BY <1>2, <2>2, LastOfLeaves
  <2>4. T \subseteq 1 .. b /\ \A n \in T : b - n < Limit
    BY <2>2, <2>3
  <2>5. Cardinality(T) <= Limit
    BY <1>2, <2>4, AtMostLimit
  <2>6. ASSUME NEW x \in T, NEW y \in T, NEW z \in x .. y PROVE z \in T
    <3> HIDE DEF T
    <3>1. x \in 1 .. b /\ y \in 1 .. b /\ b - x < Limit
      BY <2>4, <2>6
    <3>2. z \in 1 .. b /\ b - z < Limit
      BY <1>0, <2>6, <3>1
    <3> QED
      BY <2>3, <3>2
  <2> QED
    BY <1>1, <1>2, <2>3, <2>4, <2>5, <2>6 DEF A
<1> QED
  BY <1>3, <1>4 DEF StreamInv, FramesFit, A

-----------------------------------------------------------------------------
(* The steps of the page *)

LEMMA PageFacts ==
  ASSUME StreamInv
  PROVE  /\ events[Job] \in Seq(EventTypes) /\ status[Job] \in Statuses
         /\ Newest \in Nat /\ DOMAIN events[Job] = 1 .. Newest
         /\ Len(wire) \in Nat /\ DOMAIN wire = 1 .. Len(wire)
         /\ (Len(wire) = 0) = (wire = <<>>)
         /\ Numbers \subseteq 1 .. Newest
         /\ \A n \in Numbers : n # Synthesized
<1>1. events[Job] \in Seq(EventTypes) /\ status[Job] \in Statuses
  BY JobAssumption DEF StreamInv, RunnerInv, JobTypeOK
<1>2. Newest \in Nat /\ DOMAIN events[Job] = 1 .. Newest
  BY <1>1, LenProperties DEF Newest
<1>3. Len(wire) \in Nat /\ DOMAIN wire = 1 .. Len(wire) /\ (Len(wire) = 0) = (wire = <<>>)
  BY LenProperties, EmptySeq DEF StreamInv, PageTypeOK
<1>4. Numbers \subseteq 1 .. Newest /\ \A n \in Numbers : n # Synthesized
  BY <1>2 DEF StreamInv, PageTypeOK, StreamTypeOK, Numbers
<1> QED
  BY <1>1, <1>2, <1>3, <1>4

LEMMA JobsStand ==
  ASSUME StreamInv, UNCHANGED jobVars
  PROVE  RunnerInv' /\ status' = status /\ events' = events
<1>1. [JobStep]_jobVars
  OBVIOUS
<1>2. status' = status /\ events' = events
  BY DEF jobVars
<1> QED
  BY <1>1, <1>2, RunnerStepKeeps DEF StreamInv

\* While the jobs stand, the log of the page depends on what it shows and on the wire only.
LEMMA LogStands ==
  ASSUME StreamInv, events' = events, shown' \ {Synthesized} = shown \ {Synthesized},
         wire' = wire \/ wire' = <<>>
  PROVE  LogHasNoHole' /\ FramesFit'
<1>1. LogHasNoHole'
  BY DEF StreamInv, LogHasNoHole
<1>2. CASE wire' = <<>>
  <2>1. Len(wire') = 0 /\ \A i \in 1 .. Len(wire') : FALSE
    BY <1>2
  <2> QED
    BY <1>1, <2>1 DEF FramesFit
<1>3. CASE wire' = wire
  <2>1. /\ \A i \in 1 .. Len(wire) : IsRun(wire[i].numbers)
        /\ \A i \in 1 .. Len(wire) : i > 1 => Follows(wire[i - 1].numbers, wire[i].numbers)
        /\ Len(wire) > 0 => Follows(Numbers, wire[1].numbers) \/ Replaces(wire[1].numbers)
    BY DEF StreamInv, FramesFit
  <2>2. Newest' = Newest /\ Numbers' = Numbers
    BY DEF Newest, Numbers
  <2>3. (\A i \in 1 .. Len(wire) : IsRun(wire[i].numbers))'
    BY <1>3, <2>1, <2>2 DEF IsRun
  <2>4. (Len(wire) > 0 => Follows(Numbers, wire[1].numbers) \/ Replaces(wire[1].numbers))'
    BY <1>3, <2>1, <2>2 DEF Follows, Replaces, LastOf
  <2>5. (\A i \in 1 .. Len(wire) : i > 1 => Follows(wire[i - 1].numbers, wire[i].numbers))'
    BY <1>3, <2>1 DEF Follows
  <2> QED
    BY <1>1, <2>3, <2>4, <2>5 DEF FramesFit
<1> QED
  BY <1>1, <1>2, <1>3

\* One more call keeps the calls true: the record asked for at a terminal event will be terminal.
LEMMA CalledIsTrue ==
  ASSUME StreamInv, status' = status, NEW why \in {"poll", "final"},
         why = "final" => status[Job] \in Terminal, calls' = Called(calls, why)
  PROVE  /\ CallsAreTrue'
         /\ calls' \in [Calls -> [for : {"none", "poll", "final"},
                                  seen : {"none", "pending"} \union Statuses]]
<1>1. /\ CallsAreTrue
      /\ calls \in [Calls -> [for : {"none", "poll", "final"},
                              seen : {"none", "pending"} \union Statuses]]
  BY DEF StreamInv, PageTypeOK
<1>2. CASE calls' = calls
  BY <1>1, <1>2 DEF CallsAreTrue, Free
<1>3. ASSUME NEW c \in Calls,
             calls' = [calls EXCEPT ![c] = [for |-> why, seen |-> "pending"]]
      PROVE  /\ CallsAreTrue'
             /\ calls' \in [Calls -> [for : {"none", "poll", "final"},
                                      seen : {"none", "pending"} \union Statuses]]
  <2>1. calls' \in [Calls -> [for : {"none", "poll", "final"},
                              seen : {"none", "pending"} \union Statuses]]
    BY <1>1, <1>3
  <2>2. ASSUME NEW d \in Calls
        PROVE  /\ calls'[d] = Free \/ (calls'[d].for \in {"poll", "final"} /\ calls'[d].seen # "none")
               /\ calls'[d].seen # "absent"
               /\ calls'[d].seen \in Terminal => calls'[d].seen = status[Job]
               /\ calls'[d].for = "final" => /\ status[Job] \in Terminal
                                             /\ calls'[d].seen \in Terminal \union {"pending"}
    <3>1. CASE d = c
      <4>1. calls'[d].for = why /\ calls'[d].seen = "pending"
        BY <1>1, <1>3, <3>1
      <4> QED
        BY <4>1 DEF Terminal
    <3>2. CASE d # c
      <4>1. calls'[d] = calls[d]
        BY <1>1, <1>3, <3>2
      <4> QED
        BY <1>1, <4>1 DEF CallsAreTrue
    <3> QED
      BY <3>1, <3>2
  <2> QED
    BY <2>1, <2>2 DEF CallsAreTrue, Free
<1>4. calls' = calls \/ \E c \in Calls : calls' = [calls EXCEPT ![c] = [for |-> why, seen |-> "pending"]]
  BY DEF Called
<1> QED
  BY <1>2, <1>3, <1>4

\* A call that ends is free again.
LEMMA FreedIsTrue ==
  ASSUME StreamInv, status' = status, NEW c \in Calls, calls' = [calls EXCEPT ![c] = Free]
  PROVE  /\ CallsAreTrue'
         /\ calls' \in [Calls -> [for : {"none", "poll", "final"},
                                  seen : {"none", "pending"} \union Statuses]]
<1>1. /\ CallsAreTrue
      /\ calls \in [Calls -> [for : {"none", "poll", "final"},
                              seen : {"none", "pending"} \union Statuses]]
  BY DEF StreamInv, PageTypeOK
<1>2. ASSUME NEW d \in Calls
      PROVE  calls'[d] = Free \/ calls'[d] = calls[d]
  BY <1>1
<1>3. Free.for = "none" /\ Free.seen = "none"
  BY DEF Free
<1>4. calls' \in [Calls -> [for : {"none", "poll", "final"},
                            seen : {"none", "pending"} \union Statuses]]
  BY <1>1 DEF Free
<1>5. Free' = Free
  BY DEF Free
<1>6. ASSUME NEW d \in Calls
      PROVE  /\ calls'[d] = Free \/ (calls'[d].for \in {"poll", "final"} /\ calls'[d].seen # "none")
             /\ calls'[d].seen # "absent"
             /\ calls'[d].seen \in Terminal => calls'[d].seen = status[Job]
             /\ calls'[d].for = "final" => /\ status[Job] \in Terminal
                                           /\ calls'[d].seen \in Terminal \union {"pending"}
  <2>1. CASE calls'[d] = Free
    BY <1>3, <2>1 DEF Terminal
  <2>2. CASE calls'[d] = calls[d]
    BY <1>1, <2>2 DEF CallsAreTrue
  <2> QED
    BY <1>2, <2>1, <2>2
<1> QED
  BY <1>4, <1>5, <1>6 DEF CallsAreTrue

\* The types of frames and of what is shown follow from the log.
LEMMA TypesFollow ==
  ASSUME RunnerInv', FramesFit',
         wire' \in Seq([numbers : SUBSET Nat, terminal : BOOLEAN])
  PROVE  \A i \in DOMAIN wire' : /\ wire'[i].numbers \subseteq DOMAIN events'[Job]
                                 /\ wire'[i].terminal \in BOOLEAN
<1>1. events'[Job] \in Seq(EventTypes)
  BY JobAssumption DEF RunnerInv, JobTypeOK
<1>2. DOMAIN events'[Job] = 1 .. Newest' /\ Newest' \in Nat
  BY <1>1, LenProperties DEF Newest
<1>3. Len(wire') \in Nat /\ DOMAIN wire' = 1 .. Len(wire')
  BY LenProperties
<1>4. ASSUME NEW i \in DOMAIN wire'
      PROVE  wire'[i].numbers \subseteq 1 .. Newest' /\ wire'[i].terminal \in BOOLEAN
  <2>1. IsRun(wire[i].numbers)'
    BY <1>3, <1>4 DEF FramesFit
  <2>2. PICK a, b \in Nat \ {0} : b <= Newest' /\ wire'[i].numbers = a .. b
    BY <2>1 DEF IsRun
  <2>3. wire'[i] \in [numbers : SUBSET Nat, terminal : BOOLEAN]
    BY <1>3, <1>4, ElementOfSeq
  <2> QED
    BY <1>2, <2>2, <2>3
<1> QED
  BY <1>2, <1>4

LEMMA FinishedStands ==
  ASSUME StreamInv, status' = status, events' = events, shown' = shown, finished' = finished,
         notified' = notified,
         finished # "no" => stopped' /\ ~polling' /\ phase' \in {"closing", "none"}
  PROVE  FinishedForGood'
BY DEF StreamInv, FinishedForGood, FinishedOnceAndTrue, TerminalIn, EventOf

LEMMA CallsStand ==
  ASSUME StreamInv, status' = status, calls' = calls
  PROVE  CallsAreTrue'
BY DEF StreamInv, CallsAreTrue, Free

LEMMA ShowJobKeeps == ASSUME StreamInv, ShowJob PROVE StreamInv'
<1>1. /\ current = "none" /\ status[Job] # "absent" /\ phase' = "connecting"
      /\ current' \in {"queued", status[Job]}
      /\ UNCHANGED jobVars
      /\ subscribed' = subscribed /\ wire' = wire /\ stopped' = stopped /\ ended' = ended
      /\ shown' = shown /\ polling' = polling /\ calls' = calls /\ finished' = finished
      /\ notified' = notified /\ faults' = faults
  BY DEF ShowJob
<1>2. RunnerInv' /\ status' = status /\ events' = events
  BY <1>1, JobsStand
<1>3. LogHasNoHole' /\ FramesFit'
  BY <1>1, <1>2, LogStands
<1>4. CallsAreTrue'
  BY <1>1, <1>2, CallsStand
<1>5. phase = "none" /\ finished = "no" /\ current' # "none" /\ current' \in Statuses \ {"absent"}
  BY <1>1, PageFacts DEF StreamInv, NothingBefore, Statuses, Terminal
<1>6. FinishedForGood'
  BY <1>1, <1>2, <1>5, FinishedStands
<1>7. subscribed = FALSE /\ Len(wire) = 0
  BY <1>5, PageFacts DEF StreamInv, NewestComes, Live, PageTypeOK, StreamTypeOK
<1>8. NewestComes' /\ NothingBefore'
  BY <1>1, <1>2, <1>5, <1>7 DEF NewestComes, Live, NothingBefore, StreamInv, Newest
<1>9. PageTypeOK'
  BY <1>1, <1>2, <1>5 DEF StreamInv, PageTypeOK, StreamTypeOK, Phases
<1> QED
  BY <1>2, <1>3, <1>4, <1>6, <1>8, <1>9 DEF StreamInv

LEMMA AcceptKeeps == ASSUME StreamInv, Accept PROVE StreamInv'
<1> DEFINE history == Frame(LastOf(DOMAIN events[Job]), status[Job] \in Terminal)
<1>1. /\ phase = "connecting" /\ phase' = "accepted"
      /\ subscribed' = (status[Job] \notin Terminal)
      /\ wire' = <<history>>
      /\ UNCHANGED jobVars
      /\ stopped' = stopped /\ ended' = ended /\ current' = current
      /\ shown' = shown /\ polling' = polling /\ calls' = calls /\ finished' = finished
      /\ notified' = notified /\ faults' = faults
  BY DEF Accept
<1>2. RunnerInv' /\ status' = status /\ events' = events
  BY <1>1, JobsStand
<1>3. current # "none" /\ Newest \in Nat \ {0} /\ DOMAIN events[Job] = 1 .. Newest
  BY <1>1, PageFacts DEF StreamInv, NothingBefore
<1>4. /\ Newest \in LastOf(1 .. Newest) /\ LastOf(1 .. Newest) \subseteq 1 .. Newest
      /\ IsRun(LastOf(1 .. Newest))
  BY <1>3, HistoryIsRun
<1>5. /\ history.numbers = LastOf(1 .. Newest) /\ history.terminal \in BOOLEAN
      /\ history \in [numbers : SUBSET Nat, terminal : BOOLEAN]
  BY <1>3, <1>4 DEF Frame
<1> HIDE DEF history
<1>6. /\ Len(wire') = 1 /\ wire'[1] = history
      /\ wire' \in Seq([numbers : SUBSET Nat, terminal : BOOLEAN])
  BY <1>1, <1>5
<1>7. LogHasNoHole'
  BY <1>1 DEF StreamInv, LogHasNoHole
<1>8. FramesFit'
  <2>1. IsRun(wire[1].numbers)'
    BY <1>2, <1>4, <1>5, <1>6 DEF IsRun, Newest
  <2>2. Replaces(wire[1].numbers)'
    <3>1. wire'[1].numbers = LastOf(1 .. Newest)
      BY <1>5, <1>6
    <3>2. \A n \in Numbers' : n <= Newest
      BY <1>1, <1>3, PageFacts DEF Numbers
    <3> QED
      BY <1>3, <3>1, <3>2 DEF Replaces, LastOf
  <2>3. \A i \in 1 .. Len(wire') : i = 1
    BY <1>6
  <2> QED
    BY <2>1, <2>2, <2>3 DEF FramesFit
<1>9. CallsAreTrue'
  BY <1>1, <1>2, CallsStand
<1>10. FinishedForGood'
  <2>1. finished = "no"
    BY <1>1 DEF StreamInv, FinishedForGood
  <2> QED
    BY <1>1, <1>2, <2>1, FinishedStands
<1>11. NewestComes' /\ NothingBefore'
  <2>1. Newest' \in wire'[1].numbers
    BY <1>2, <1>4, <1>5, <1>6 DEF Newest
  <2> QED
    <3>1. Live' /\ (subscribed' \/ status'[Job] \in Terminal)
      BY <1>1, <1>2 DEF Live
    <3>2. NewestComes'
      BY <1>6, <2>1, <3>1 DEF NewestComes
    <3>3. NothingBefore'
      BY <1>1, <1>2, <1>3 DEF NothingBefore, StreamInv, Newest
    <3> QED
      BY <3>2, <3>3
<1>12. PageTypeOK'
  BY <1>1, <1>2, <1>6, <1>8, TypesFollow DEF StreamInv, PageTypeOK, StreamTypeOK, Phases
<1> QED
  BY <1>2, <1>7, <1>8, <1>9, <1>10, <1>11, <1>12 DEF StreamInv

LEMMA OpenedKeeps == ASSUME StreamInv, Opened PROVE StreamInv'
<1>1. /\ phase = "accepted" /\ phase' = "open" /\ polling' = FALSE
      /\ UNCHANGED jobVars
      /\ subscribed' = subscribed /\ wire' = wire /\ stopped' = stopped /\ ended' = ended
      /\ shown' = shown /\ current' = current /\ calls' = calls /\ finished' = finished
      /\ notified' = notified /\ faults' = faults
  BY DEF Opened
<1>2. RunnerInv' /\ status' = status /\ events' = events
  BY <1>1, JobsStand
<1>3. LogHasNoHole' /\ FramesFit'
  BY <1>1, <1>2, LogStands
<1>4. CallsAreTrue'
  BY <1>1, <1>2, CallsStand
<1>5. finished = "no"
  BY <1>1 DEF StreamInv, FinishedForGood
<1>6. FinishedForGood'
  BY <1>1, <1>2, <1>5, FinishedStands
<1>7. NewestComes' /\ NothingBefore'
  BY <1>1, <1>2 DEF NewestComes, Live, NothingBefore, StreamInv, Newest, Free
<1>8. PageTypeOK'
  BY <1>1, <1>2 DEF StreamInv, PageTypeOK, StreamTypeOK, Phases
<1> QED
  BY <1>2, <1>3, <1>4, <1>6, <1>7, <1>8 DEF StreamInv

LEMMA CloseEventKeeps == ASSUME StreamInv, CloseEvent PROVE StreamInv'
<1>1. /\ phase = "closing" \/ (phase = "lost" /\ wire = <<>>)
      /\ phase' = IF stopped \/ ended THEN "none" ELSE "waiting"
      /\ subscribed' = FALSE
      /\ UNCHANGED jobVars
      /\ wire' = wire /\ stopped' = stopped /\ ended' = ended
      /\ shown' = shown /\ current' = current /\ finished' = finished
      /\ notified' = notified /\ faults' = faults
  BY DEF CloseEvent
<1>2. RunnerInv' /\ status' = status /\ events' = events
  BY <1>1, JobsStand
<1>3. LogHasNoHole' /\ FramesFit'
  BY <1>1, <1>2, LogStands
<1>4. /\ CallsAreTrue' /\ polling' \in BOOLEAN
      /\ calls' \in [Calls -> [for : {"none", "poll", "final"},
                               seen : {"none", "pending"} \union Statuses]]
      /\ finished # "no" => polling' = polling
  <2>1. CASE polling \/ finished # "no"
    <3>1. polling' = polling /\ calls' = calls
      BY <2>1 DEF CloseEvent, StartPolling
    <3> QED
      BY <1>2, <3>1, CallsStand DEF StreamInv, PageTypeOK, StreamTypeOK
  <2>2. CASE ~(polling \/ finished # "no")
    <3>1. polling' = TRUE /\ calls' = Called(calls, "poll")
      BY <2>2 DEF CloseEvent, StartPolling
    <3> QED
      BY <1>2, <2>2, <3>1, CalledIsTrue
  <2> QED
    BY <2>1, <2>2
<1>5. FinishedForGood'
  <2>1. finished # "no" => phase' = "none" /\ stopped' /\ ~polling'
    BY <1>1, <1>4 DEF StreamInv, FinishedForGood
  <2> QED
    BY <1>1, <1>2, <2>1, FinishedStands
<1>6. Len(wire) = 0 /\ current # "none"
  BY <1>1, PageFacts DEF StreamInv, NewestComes, NothingBefore, Live
<1>7. NewestComes' /\ NothingBefore'
  BY <1>1, <1>2, <1>6 DEF NewestComes, Live, NothingBefore, StreamInv, Newest
<1>8. PageTypeOK'
  BY <1>1, <1>2, <1>4 DEF StreamInv, PageTypeOK, StreamTypeOK, Phases
<1> QED
  BY <1>2, <1>3, <1>4, <1>5, <1>7, <1>8 DEF StreamInv

LEMMA ReconnectKeeps == ASSUME StreamInv, Reconnect PROVE StreamInv'
<1>1. /\ phase = "waiting" /\ phase' = "connecting"
      /\ UNCHANGED jobVars
      /\ subscribed' = subscribed /\ wire' = wire /\ stopped' = stopped /\ ended' = ended
      /\ shown' = shown /\ current' = current /\ calls' = calls /\ finished' = finished
      /\ polling' = polling /\ notified' = notified /\ faults' = faults
  BY DEF Reconnect
<1>2. RunnerInv' /\ status' = status /\ events' = events
  BY <1>1, JobsStand
<1>3. LogHasNoHole' /\ FramesFit'
  BY <1>1, <1>2, LogStands
<1>4. CallsAreTrue'
  BY <1>1, <1>2, CallsStand
<1>5. finished = "no"
  BY <1>1 DEF StreamInv, FinishedForGood
<1>6. FinishedForGood'
  BY <1>1, <1>2, <1>5, FinishedStands
<1>7. NewestComes' /\ NothingBefore'
  BY <1>1, <1>2 DEF NewestComes, Live, NothingBefore, StreamInv, Newest, Free
<1>8. PageTypeOK'
  BY <1>1, <1>2 DEF StreamInv, PageTypeOK, StreamTypeOK, Phases
<1> QED
  BY <1>2, <1>3, <1>4, <1>6, <1>7, <1>8 DEF StreamInv

LEMMA LinkLostKeeps == ASSUME StreamInv, LinkLost PROVE StreamInv'
<1>1. /\ phase \in {"connecting", "accepted", "open"} /\ phase' = "lost"
      /\ faults < MaxFaults /\ faults' = faults + 1 /\ subscribed' = FALSE
      /\ UNCHANGED jobVars
      /\ stopped' = stopped /\ ended' = ended
      /\ shown' = shown /\ current' = current /\ calls' = calls /\ finished' = finished
      /\ polling' = polling /\ notified' = notified
  BY DEF LinkLost
<1>2. RunnerInv' /\ status' = status /\ events' = events
  BY <1>1, JobsStand
<1>3. PICK n \in 0 .. Len(wire) : wire' = SubSeq(wire, 1, n)
  <2>1. Len(wire) \in Nat
    BY PageFacts
  <2> QED
    BY <2>1 DEF LinkLost
<1>4. /\ wire \in Seq([numbers : SUBSET Nat, terminal : BOOLEAN]) /\ Len(wire) \in Nat
      /\ FramesFit
  BY PageFacts DEF StreamInv, PageTypeOK
<1>5. /\ wire' \in Seq([numbers : SUBSET Nat, terminal : BOOLEAN]) /\ Len(wire') = n
      /\ \A i \in 1 .. n : wire'[i] = wire[i]
  <2> DEFINE F == [numbers : SUBSET Nat, terminal : BOOLEAN]
  <2>0. wire \in Seq(F)
    BY <1>4
  <2> HIDE DEF F
  <2>1. \A i \in 1 .. n : wire[i] \in F
    <3>1. \A i \in 1 .. n : i \in 1 .. Len(wire)
      BY <1>4
    <3> QED
      BY <2>0, <3>1, ElementOfSeq
  <2>2. n \in Int /\ n >= 0
    BY <1>4
  <2>3. /\ SubSeq(wire, 1, n) \in Seq(F)
        /\ Len(SubSeq(wire, 1, n)) = IF 1 <= n THEN n - 1 + 1 ELSE 0
        /\ \A i \in 1 .. n - 1 + 1 : SubSeq(wire, 1, n)[i] = wire[1 + i - 1]
    BY <2>1, <2>2, SubSeqProperties
  <2>4. n - 1 + 1 = n /\ \A i \in 1 .. n : 1 + i - 1 = i
    BY <2>2
  <2>5. wire' \in Seq(F) /\ Len(wire') = n
    BY <1>3, <2>2, <2>3
  <2>6. \A i \in 1 .. n : wire'[i] = wire[i]
    BY <1>3, <2>3, <2>4
  <2> QED
    BY <2>5, <2>6 DEF F
<1>6. LogHasNoHole'
  BY <1>1 DEF StreamInv, LogHasNoHole
<1>7. FramesFit'
  <2>1. (\A i \in 1 .. Len(wire) : IsRun(wire[i].numbers))'
    BY <1>2, <1>3, <1>4, <1>5 DEF FramesFit, IsRun, Newest
  <2>2. (\A i \in 1 .. Len(wire) : i > 1 => Follows(wire[i - 1].numbers, wire[i].numbers))'
    <3>1. ASSUME NEW i \in 1 .. n, i > 1
          PROVE  Follows(wire[i - 1].numbers, wire[i].numbers)'
      <4>1. wire'[i] = wire[i] /\ wire'[i - 1] = wire[i - 1] /\ i \in 1 .. Len(wire)
        BY <1>3, <1>4, <1>5, <3>1
      <4> QED
        BY <1>4, <3>1, <4>1 DEF FramesFit, Follows
    <3> QED
      BY <1>5, <3>1
  <2>3. (Len(wire) > 0 => Follows(Numbers, wire[1].numbers) \/ Replaces(wire[1].numbers))'
    <3>1. ASSUME n > 0
          PROVE  wire'[1] = wire[1] /\ Len(wire) > 0
      BY <1>3, <1>4, <1>5, <3>1
    <3> QED
      BY <1>1, <1>4, <1>5, <3>1 DEF FramesFit, Follows, Replaces, LastOf, Numbers
  <2> QED
    BY <2>1, <2>2, <2>3 DEF FramesFit
<1>8. CallsAreTrue'
  BY <1>1, <1>2, CallsStand
<1>9. FinishedForGood'
  <2>1. finished = "no"
    BY <1>1 DEF StreamInv, FinishedForGood
  <2> QED
    BY <1>1, <1>2, <2>1, FinishedStands
<1>10. NewestComes' /\ NothingBefore'
  BY <1>1, <1>2 DEF NewestComes, Live, NothingBefore, StreamInv, Newest, Free
<1>11. PageTypeOK'
  <2>1. faults' \in 0 .. MaxFaults
    BY <1>1, MaxFaultsAssumption DEF StreamInv, PageTypeOK, StreamTypeOK
  <2> QED
    BY <1>1, <1>2, <1>5, <1>7, <2>1, TypesFollow DEF StreamInv, PageTypeOK, StreamTypeOK, Phases
<1> QED
  BY <1>2, <1>6, <1>7, <1>8, <1>9, <1>10, <1>11 DEF StreamInv

\* A step that changes the calls only, and perhaps counts a fault.
LEMMA CallsChange ==
  ASSUME StreamInv, UNCHANGED jobVars, CallsAreTrue', faults' \in 0 .. MaxFaults,
         calls' \in [Calls -> [for : {"none", "poll", "final"},
                               seen : {"none", "pending"} \union Statuses]],
         current = "none" => \A c \in Calls : calls'[c] = Free,
         UNCHANGED <<phase, subscribed, wire, stopped, ended, current, shown, polling, finished,
                     notified>>
  PROVE  StreamInv'
<1>1. RunnerInv' /\ status' = status /\ events' = events
  BY JobsStand
<1>2. LogHasNoHole' /\ FramesFit'
  BY <1>1, LogStands
<1>3. FinishedForGood'
  BY <1>1, FinishedStands DEF StreamInv, FinishedForGood
<1>4. NewestComes' /\ NothingBefore'
  BY <1>1 DEF NewestComes, Live, NothingBefore, StreamInv, Newest, Free
<1>5. PageTypeOK'
  BY <1>1 DEF StreamInv, PageTypeOK, StreamTypeOK
<1> QED
  BY <1>1, <1>2, <1>3, <1>4, <1>5 DEF StreamInv

LEMMA PollKeeps == ASSUME StreamInv, Poll PROVE StreamInv'
<1>1. /\ polling /\ calls' = Called(calls, "poll") /\ UNCHANGED jobVars
      /\ UNCHANGED <<phase, subscribed, wire, stopped, ended, current, shown, polling, finished,
                     notified, faults>>
  BY DEF Poll
<1>2. status' = status
  BY <1>1, JobsStand
<1>3. /\ CallsAreTrue'
      /\ calls' \in [Calls -> [for : {"none", "poll", "final"},
                               seen : {"none", "pending"} \union Statuses]]
  BY <1>1, <1>2, CalledIsTrue
<1>4. current # "none" /\ faults' \in 0 .. MaxFaults
  BY <1>1 DEF StreamInv, NothingBefore, PageTypeOK, StreamTypeOK
<1> QED
  BY <1>1, <1>3, <1>4, CallsChange

LEMMA AnswerKeeps == ASSUME StreamInv, NEW c \in Calls, Answer(c) PROVE StreamInv'
<1>1. /\ calls[c].seen = "pending" /\ calls' = [calls EXCEPT ![c].seen = status[Job]]
      /\ UNCHANGED jobVars
      /\ UNCHANGED <<phase, subscribed, wire, stopped, ended, current, shown, polling, finished,
                     notified, faults>>
  BY DEF Answer
<1>2. status' = status /\ status[Job] \in Statuses
  BY <1>1, JobsStand, PageFacts
<1>3. /\ CallsAreTrue
      /\ calls \in [Calls -> [for : {"none", "poll", "final"},
                              seen : {"none", "pending"} \union Statuses]]
  BY DEF StreamInv, PageTypeOK
<1>4. current # "none" /\ status[Job] # "absent" /\ faults' \in 0 .. MaxFaults
  BY <1>1 DEF StreamInv, NothingBefore, Free, PageTypeOK, StreamTypeOK
<1>5. calls' \in [Calls -> [for : {"none", "poll", "final"},
                            seen : {"none", "pending"} \union Statuses]]
  BY <1>1, <1>2, <1>3
<1>6. CallsAreTrue'
  <2>1. ASSUME NEW d \in Calls
        PROVE  /\ calls'[d] = Free \/ (calls'[d].for \in {"poll", "final"} /\ calls'[d].seen # "none")
               /\ calls'[d].seen # "absent"
               /\ calls'[d].seen \in Terminal => calls'[d].seen = status[Job]
               /\ calls'[d].for = "final" => /\ status[Job] \in Terminal
                                             /\ calls'[d].seen \in Terminal \union {"pending"}
    <3>1. CASE d = c
      <4>1. calls'[d].for = calls[d].for /\ calls'[d].seen = status[Job]
        BY <1>1, <1>3, <3>1
      <4>2. calls[d].for \in {"poll", "final"} /\ status[Job] # "none"
        BY <1>1, <1>2, <1>3, <3>1 DEF CallsAreTrue, Free, Statuses, Terminal
      <4> QED
        BY <1>3, <1>4, <4>1, <4>2 DEF CallsAreTrue
    <3>2. CASE d # c
      <4>1. calls'[d] = calls[d]
        BY <1>1, <1>3, <3>2
      <4> QED
        BY <1>3, <4>1 DEF CallsAreTrue
    <3> QED
      BY <3>1, <3>2
  <2> QED
    BY <1>2, <2>1 DEF CallsAreTrue, Free
<1> QED
  BY <1>1, <1>4, <1>5, <1>6, CallsChange

LEMMA CallFailsKeeps == ASSUME StreamInv, NEW c \in Calls, CallFails(c) PROVE StreamInv'
<1>1. /\ faults < MaxFaults /\ faults' = faults + 1
      /\ calls[c] # Free /\ calls' = [calls EXCEPT ![c] = Free]
      /\ UNCHANGED jobVars
      /\ UNCHANGED <<phase, subscribed, wire, stopped, ended, current, shown, polling, finished,
                     notified>>
  BY DEF CallFails
<1>2. status' = status
  BY <1>1, JobsStand
<1>3. /\ CallsAreTrue'
      /\ calls' \in [Calls -> [for : {"none", "poll", "final"},
                               seen : {"none", "pending"} \union Statuses]]
  BY <1>1, <1>2, FreedIsTrue
<1>4. current # "none" /\ faults' \in 0 .. MaxFaults
  BY <1>1, MaxFaultsAssumption DEF StreamInv, NothingBefore, PageTypeOK, StreamTypeOK
<1> QED
  BY <1>1, <1>3, <1>4, CallsChange

\* A record of terminal status s arrives, and the call is over.
LEMMA FinishKeepsPage ==
  ASSUME StreamInv, NEW c \in Calls, NEW s \in Terminal, s = status[Job], calls[c] # Free,
         FinishJob(s), calls' = [calls EXCEPT ![c] = Free],
         current' \in (Statuses \ {"absent"}) \union {current},
         UNCHANGED jobVars, ended' = ended, faults' = faults
  PROVE  StreamInv'
<1>1. RunnerInv' /\ status' = status /\ events' = events
  BY JobsStand
<1>2. /\ CallsAreTrue'
      /\ calls' \in [Calls -> [for : {"none", "poll", "final"},
                               seen : {"none", "pending"} \union Statuses]]
  BY <1>1, FreedIsTrue
<1>3. /\ current # "none" /\ current' # "none" /\ current' \in Statuses \ {"absent"}
      /\ s # "no" /\ s # "absent"
  BY DEF StreamInv, NothingBefore, PageTypeOK, StreamTypeOK, Statuses, Terminal
<1>4. CASE finished # "no"
  <2>1. UNCHANGED <<finished, notified, polling, stopped, phase, wire, subscribed, shown>>
    BY <1>4 DEF FinishJob
  <2>2. LogHasNoHole' /\ FramesFit'
    BY <1>1, <2>1, LogStands
  <2>3. FinishedForGood'
    BY <1>1, <2>1, FinishedStands DEF StreamInv, FinishedForGood
  <2>4. NewestComes' /\ NothingBefore'
    BY <1>1, <1>3, <2>1 DEF NewestComes, Live, NothingBefore, StreamInv, Newest
  <2>5. PageTypeOK'
    BY <1>1, <1>2, <1>3, <2>1 DEF StreamInv, PageTypeOK, StreamTypeOK
  <2> QED
    BY <1>1, <1>2, <2>2, <2>3, <2>4, <2>5 DEF StreamInv
<1>5. CASE finished = "no"
  <2>1. /\ finished' = s /\ notified' = notified + 1 /\ polling' = FALSE /\ stopped' = TRUE
        /\ phase' = Closed(phase) /\ wire' = <<>> /\ subscribed' = FALSE
        /\ shown' = IF TerminalIn(shown) # {} THEN shown ELSE shown \union {Synthesized}
    BY <1>5 DEF FinishJob
  <2>2. phase' \in {"closing", "none"} /\ Len(wire') = 0
    BY <2>1 DEF Closed
  <2>3. shown' \ {Synthesized} = shown \ {Synthesized}
    BY <2>1
  <2>4. LogHasNoHole' /\ FramesFit'
    BY <1>1, <2>1, <2>3, LogStands
  <2>5. FinishedForGood'
    <3>1. Synthesized \notin shown /\ notified = 0
      BY <1>5 DEF StreamInv, FinishedForGood, FinishedOnceAndTrue
    <3>2. TerminalIn(shown)' = TerminalIn(shown)
      BY <1>1, <2>3 DEF TerminalIn
    <3>3. (Synthesized \in shown') # (TerminalIn(shown) # {})
      BY <2>1, <3>1
    <3>4. \A n \in TerminalIn(shown) : events[Job][n] = EventOf(s)
      <4> SUFFICES ASSUME NEW n \in Numbers, events[Job][n] \in TerminalEvents
                   PROVE  events[Job][n] = EventOf(s)
        BY DEF TerminalIn, Numbers
      <4>1. n \in 1 .. Len(events[Job])
        BY PageFacts DEF Newest
      <4>2. Logged(Job)
        BY JobAssumption DEF StreamInv, RunnerInv
      <4> QED
        BY <4>1, <4>2 DEF Logged
    <3>5. FinishedOnceAndTrue'
      <4>1. notified' = 1 /\ finished' = s /\ status'[Job] = s
        BY <1>1, <2>1, <3>1
      <4>2. (Synthesized \in shown') # (TerminalIn(shown)' # {})
        BY <3>2, <3>3, Zenon
      <4>3. \A n \in TerminalIn(shown)' : events'[Job][n] = EventOf(s)
        BY <1>1, <3>2, <3>4
      <4> QED
        BY <1>3, <4>1, <4>2, <4>3 DEF FinishedOnceAndTrue, EventOf
    <3> QED
      BY <1>3, <2>1, <2>2, <3>5 DEF FinishedForGood
  <2>6. NewestComes' /\ NothingBefore'
    BY <1>1, <1>3, <2>1, <2>2 DEF NewestComes, Live, NothingBefore, StreamInv, Newest
  <2>7. PageTypeOK'
    <3>1. shown' \subseteq {Synthesized} \union DOMAIN events'[Job]
      BY <1>1, <2>1 DEF StreamInv, PageTypeOK, StreamTypeOK
    <3>2. wire' \in Seq([numbers : SUBSET Nat, terminal : BOOLEAN]) /\ DOMAIN wire' = {}
      BY <2>1
    <3>3. phase' \in Phases /\ notified' \in Nat /\ finished' \in {"no"} \union Terminal
      BY <2>1, <2>2 DEF StreamInv, PageTypeOK, StreamTypeOK, Phases
    <3>4. ended' \in BOOLEAN /\ faults' \in 0 .. MaxFaults
      BY DEF StreamInv, PageTypeOK, StreamTypeOK
    <3> QED
      BY <1>2, <1>3, <2>1, <3>1, <3>2, <3>3, <3>4 DEF PageTypeOK, StreamTypeOK
  <2> QED
    BY <1>1, <1>2, <2>4, <2>5, <2>6, <2>7 DEF StreamInv
<1> QED
  BY <1>4, <1>5

LEMMA PollReturnsKeeps == ASSUME StreamInv, NEW c \in Calls, PollReturns(c) PROVE StreamInv'
<1> DEFINE s == calls[c].seen
<1>1. /\ calls[c].for = "poll" /\ s # "pending" /\ current' = s
      /\ calls' = [calls EXCEPT ![c] = Free]
      /\ UNCHANGED jobVars /\ ended' = ended /\ faults' = faults
  BY DEF PollReturns
<1>2. calls[c] # Free /\ s \in Statuses \ {"absent"} /\ (s \in Terminal => s = status[Job])
  BY <1>1 DEF StreamInv, PageTypeOK, CallsAreTrue, Free
<1>3. CASE s \in Terminal
  <2>1. FinishJob(s)
    BY <1>3 DEF PollReturns
  <2> QED
    BY <1>1, <1>2, <1>3, <2>1, FinishKeepsPage
<1>4. CASE s \notin Terminal
  <2>1. UNCHANGED <<finished, notified, polling, stopped, phase, wire, subscribed, shown>>
    BY <1>4 DEF PollReturns
  <2>2. RunnerInv' /\ status' = status /\ events' = events
    BY <1>1, JobsStand
  <2>3. LogHasNoHole' /\ FramesFit'
    BY <2>1, <2>2, LogStands
  <2>4. FinishedForGood'
    BY <2>1, <2>2, FinishedStands DEF StreamInv, FinishedForGood
  <2>5. /\ CallsAreTrue'
        /\ calls' \in [Calls -> [for : {"none", "poll", "final"},
                                 seen : {"none", "pending"} \union Statuses]]
    BY <1>1, <2>2, FreedIsTrue
  <2>6. current' # "none" /\ current # "none"
    BY <1>1, <1>2 DEF Statuses, Terminal, StreamInv, NothingBefore
  <2>7. NewestComes' /\ NothingBefore'
    BY <2>1, <2>2, <2>6 DEF NewestComes, Live, NothingBefore, StreamInv, Newest
  <2>8. PageTypeOK'
    BY <1>1, <1>2, <2>1, <2>2, <2>5 DEF StreamInv, PageTypeOK, StreamTypeOK
  <2> QED
    BY <2>2, <2>3, <2>4, <2>5, <2>7, <2>8 DEF StreamInv
<1> QED
  BY <1>3, <1>4

LEMMA FinalReturnsKeeps == ASSUME StreamInv, NEW c \in Calls, FinalReturns(c) PROVE StreamInv'
<1> DEFINE s == calls[c].seen
<1>1. /\ calls[c].for = "final" /\ s # "pending"
      /\ current' = IF finished = "no" THEN s ELSE current
      /\ FinishJob(s) /\ calls' = [calls EXCEPT ![c] = Free]
      /\ UNCHANGED jobVars /\ ended' = ended /\ faults' = faults
  BY DEF FinalReturns
<1>2. calls[c] # Free /\ s \in Terminal /\ s = status[Job]
  BY <1>1 DEF StreamInv, CallsAreTrue, Free
<1>3. current' \in (Statuses \ {"absent"}) \union {current}
  BY <1>1, <1>2 DEF Statuses, Terminal
<1> QED
  BY <1>1, <1>2, <1>3, FinishKeepsPage

\* A terminal event that the page sees is the last of the job's log.
LEMMA TerminalIsLast ==
  ASSUME StreamInv, NEW s \in SUBSET Nat, s \subseteq 1 .. Newest
  PROVE  /\ TerminalIn(s) = {} \/ TerminalIn(s) = {Newest}
         /\ TerminalIn(s) # {} => /\ status[Job] \in Terminal
                                  /\ events[Job][Newest] = EventOf(status[Job])
<1>1. Logged(Job)
  BY JobAssumption DEF StreamInv, RunnerInv
<1>2. ASSUME NEW n \in TerminalIn(s)
      PROVE  /\ n = Newest /\ status[Job] \in Terminal
             /\ events[Job][Newest] = EventOf(status[Job])
  <2>1. n \in 1 .. Len(events[Job]) /\ events[Job][n] \in TerminalEvents
    BY <1>2 DEF TerminalIn, Newest
  <2> QED
    BY <1>1, <2>1 DEF Logged, Newest
<1> QED
  BY <1>2

LEMMA ReceiveKeeps == ASSUME StreamInv, Receive PROVE StreamInv'
<1> DEFINE A == wire[1].numbers
           last == TerminalIn(A \ shown)
<1>1. /\ phase \in {"open", "lost"} /\ wire # <<>> /\ UNCHANGED jobVars
      /\ polling' = polling /\ finished' = finished /\ notified' = notified /\ faults' = faults
  BY DEF Receive
<1>2. /\ Len(wire) > 0 /\ Len(wire) \in Nat /\ Head(wire) = wire[1]
      /\ wire \in Seq([numbers : SUBSET Nat, terminal : BOOLEAN])
      /\ wire[1].numbers \in SUBSET Nat /\ wire[1].terminal \in BOOLEAN
  <2>1. /\ Len(wire) > 0 /\ Len(wire) \in Nat
        /\ wire \in Seq([numbers : SUBSET Nat, terminal : BOOLEAN])
    BY <1>1, PageFacts DEF StreamInv, PageTypeOK
  <2>2. 1 \in 1 .. Len(wire)
    BY <2>1
  <2>3. wire[1] \in [numbers : SUBSET Nat, terminal : BOOLEAN]
    BY <2>1, <2>2, ElementOfSeq
  <2> QED
    BY <2>1, <2>3
<1>3. /\ shown' = LastOf(shown \union A)
      /\ ended' = (wire[1].terminal \/ TerminalIn(A) # {})
      /\ stopped' = (stopped \/ last # {})
      /\ current' = IF last = {} THEN current
                    ELSE CHOOSE s \in Terminal : EventOf(s) = events[Job][Max(last)]
      /\ calls' = IF last = {} THEN calls ELSE Called(calls, "final")
      /\ phase' = IF ended' THEN "closing" ELSE phase
      /\ wire' = IF ended' THEN <<>> ELSE Tail(wire)
      /\ subscribed' = (subscribed /\ ~ended')
  <2> DEFINE h == Head(wire)
             additions == h.numbers \ shown
             found == TerminalIn(additions)
  <2>1. /\ shown' = LastOf(shown \union additions)
        /\ ended' = (h.terminal \/ TerminalIn(h.numbers) # {})
        /\ stopped' = (stopped \/ found # {})
        /\ current' = IF found = {} THEN current
                      ELSE CHOOSE s \in Terminal : EventOf(s) = events[Job][Max(found)]
        /\ calls' = IF found = {} THEN calls ELSE Called(calls, "final")
        /\ phase' = IF ended' THEN "closing" ELSE phase
        /\ wire' = IF ended' THEN <<>> ELSE Tail(wire)
        /\ subscribed' = (subscribed /\ ~ended')
    BY DEF Receive
  <2>2. shown \union additions = shown \union h.numbers
    OBVIOUS
  <2>3. h = wire[1]
    BY <1>2
  <2> HIDE DEF h
  <2>4. h.numbers = A /\ additions = A \ shown /\ found = last
    BY <2>3
  <2> HIDE DEF additions, found, A, last
  <2>5. shown' = LastOf(shown \union A)
    BY <2>1, <2>2, <2>4
  <2>6. ended' = (wire[1].terminal \/ TerminalIn(A) # {})
    BY <2>1, <2>3, <2>4
  <2>7. /\ stopped' = (stopped \/ last # {})
        /\ current' = IF last = {} THEN current
                      ELSE CHOOSE s \in Terminal : EventOf(s) = events[Job][Max(last)]
        /\ calls' = IF last = {} THEN calls ELSE Called(calls, "final")
    BY <2>1, <2>4
  <2> QED
    BY <2>1, <2>5, <2>6, <2>7, Zenon
<1>4. RunnerInv' /\ status' = status /\ events' = events
  BY <1>1, JobsStand
<1>5. finished = "no" /\ Synthesized \notin shown /\ current # "none"
  BY <1>1 DEF StreamInv, FinishedForGood, NothingBefore
<1>6. PICK b \in A :
        /\ b <= Newest /\ b \in shown' /\ shown' \subseteq 1 .. b /\ \A n \in A : n <= b
        /\ Cardinality(shown') <= Limit
        /\ \A m, n \in shown' : m .. n \subseteq shown'
  BY <1>2, <1>3, <1>5, ShownAfterFrame
<1>7. A \subseteq 1 .. Newest /\ b \in Nat /\ Newest \in Nat
  <2>1. IsRun(A)
    BY <1>2 DEF StreamInv, FramesFit
  <2> QED
    BY <1>2, <1>6, <2>1, PageFacts DEF IsRun
<1>8. /\ last = {} \/ last = {Newest}
      /\ last # {} => status[Job] \in Terminal /\ events[Job][Newest] = EventOf(status[Job])
      /\ TerminalIn(A) # {} => status[Job] \in Terminal
  <2>1. A \ shown \in SUBSET Nat /\ A \ shown \subseteq 1 .. Newest /\ A \in SUBSET Nat
    BY <1>7
  <2> QED
    BY <1>7, <2>1, TerminalIsLast
<1> HIDE DEF A, last
<1>9. current' \in Statuses \ {"absent"}
  <2>1. CASE last = {}
    BY <1>3, <1>5, <2>1 DEF StreamInv, PageTypeOK, StreamTypeOK
  <2>2. CASE last # {}
    <3>1. Max(last) = Newest
      BY <1>7, <1>8, <2>2 DEF Max
    <3>2. current' = CHOOSE s \in Terminal : EventOf(s) = events[Job][Newest]
      BY <1>3, <2>2, <3>1
    <3>3. \E s \in Terminal : EventOf(s) = events[Job][Newest]
      BY <1>8, <2>2
    <3>4. current' \in Terminal
      BY <3>2, <3>3
    <3> QED
      BY <3>4 DEF Terminal, Statuses
  <2> QED
    BY <2>1, <2>2
<1>10. /\ CallsAreTrue'
       /\ calls' \in [Calls -> [for : {"none", "poll", "final"},
                                seen : {"none", "pending"} \union Statuses]]
  <2>1. CASE last = {}
    BY <1>3, <1>4, <2>1, CallsStand DEF StreamInv, PageTypeOK
  <2>2. CASE last # {}
    BY <1>3, <1>4, <1>8, <2>2, CalledIsTrue
  <2> QED
    BY <2>1, <2>2
<1>11. Numbers' = shown' /\ Newest' = Newest /\ Synthesized \notin shown'
  BY <1>4, <1>6 DEF Numbers, Newest, Synthesized
<1>12. LogHasNoHole'
  BY <1>6, <1>11 DEF LogHasNoHole, Numbers
<1>13. FinishedForGood'
  BY <1>1, <1>5, <1>11 DEF StreamInv, FinishedForGood, FinishedOnceAndTrue
<1>14. ended' \in BOOLEAN /\ stopped' \in BOOLEAN
  BY <1>3 DEF StreamInv, PageTypeOK, StreamTypeOK
<1>15. CASE ended'
  <2>1. phase' = "closing" /\ wire' = <<>> /\ Len(wire') = 0 /\ ~subscribed'
    BY <1>3, <1>15
  <2>2. FramesFit'
    <3>1. \A i \in 1 .. Len(wire') : FALSE
      BY <2>1
    <3> QED
      BY <2>1, <3>1 DEF FramesFit
  <2>3. NewestComes' /\ NothingBefore'
    BY <1>1, <1>4, <1>5, <1>9, <2>1
    DEF NewestComes, Live, NothingBefore, StreamInv, Newest, Statuses, Terminal
  <2>4. PageTypeOK'
    <3>1. shown' \subseteq {Synthesized} \union DOMAIN events'[Job]
      BY <1>4, <1>6, <1>7, PageFacts
    <3>2. wire' \in Seq([numbers : SUBSET Nat, terminal : BOOLEAN]) /\ DOMAIN wire' = {}
      BY <2>1
    <3> QED
      BY <1>1, <1>3, <1>9, <1>10, <1>14, <2>1, <3>1, <3>2
      DEF StreamInv, PageTypeOK, StreamTypeOK, Phases
  <2> QED
    BY <1>4, <1>10, <1>12, <1>13, <2>2, <2>3, <2>4 DEF StreamInv
<1>16. CASE ~ended'
  <2>1. /\ phase' = phase /\ wire' = Tail(wire) /\ subscribed' = subscribed
        /\ TerminalIn(A) = {}
    BY <1>3, <1>14, <1>16 DEF StreamInv, PageTypeOK, StreamTypeOK
  <2>2. /\ wire' \in Seq([numbers : SUBSET Nat, terminal : BOOLEAN])
        /\ Len(wire') = Len(wire) - 1
        /\ \A i \in 1 .. Len(wire') : i + 1 \in 1 .. Len(wire) /\ wire'[i] = wire[i + 1]
    BY <1>2, <2>1, HeadTailProperties
  <2>3. FramesFit'
    <3>1. (\A i \in 1 .. Len(wire) : IsRun(wire[i].numbers))'
      <4>1. ASSUME NEW i \in 1 .. Len(wire')
            PROVE  IsRun(wire[i].numbers)'
        <5>1. IsRun(wire[i + 1].numbers) /\ wire'[i] = wire[i + 1]
          BY <2>2 DEF StreamInv, FramesFit
        <5> QED
          BY <1>11, <5>1 DEF IsRun
      <4> QED
        BY <4>1
    <3>2. (\A i \in 1 .. Len(wire) : i > 1 => Follows(wire[i - 1].numbers, wire[i].numbers))'
      <4>1. ASSUME NEW i \in 1 .. Len(wire'), i > 1
            PROVE  Follows(wire[i - 1].numbers, wire[i].numbers)'
        <5>1. /\ wire'[i] = wire[i + 1] /\ i + 1 \in 1 .. Len(wire) /\ i + 1 > 1
              /\ i - 1 \in 1 .. Len(wire') /\ wire'[i - 1] = wire[i - 1 + 1]
              /\ i - 1 + 1 = i /\ (i + 1) - 1 = i
          BY <1>2, <2>2, <4>1
        <5>2. Follows(wire[(i + 1) - 1].numbers, wire[i + 1].numbers)
          BY <5>1 DEF StreamInv, FramesFit
        <5> QED
          BY <5>1, <5>2 DEF Follows
      <4> QED
        BY <4>1
    <3>3. (Len(wire) > 0 => Follows(Numbers, wire[1].numbers))'
      <4> SUFFICES ASSUME Len(wire') > 0
                   PROVE  Follows(Numbers, wire[1].numbers)'
        OBVIOUS
      <4>1. 1 \in 1 .. Len(wire') /\ wire'[1] = wire[2] /\ 2 \in 1 .. Len(wire)
        BY <1>2, <2>2
      <4>2. Follows(A, wire[2].numbers)
        BY <4>1 DEF StreamInv, FramesFit, A
      <4>3. /\ \A n \in wire[2].numbers : n \in Nat /\ b < n
            /\ b + 1 \in wire[2].numbers
        <5>1. IsRun(wire[2].numbers)
          BY <4>1 DEF StreamInv, FramesFit
        <5>2. \A n \in wire[2].numbers : n \in Nat
          BY <5>1 DEF IsRun
        <5>3. \A n \in wire[2].numbers : b < n
          BY <1>6, <4>2 DEF Follows
        <5>4. PICK m \in A : m + 1 \in wire[2].numbers
          BY <4>2 DEF Follows
        <5>5. m = b
          BY <1>6, <1>7, <5>3, <5>4
        <5> QED
          BY <5>2, <5>3, <5>4, <5>5
      <4>4. \A m \in shown' : m \in Nat /\ m <= b
        BY <1>6, <1>7
      <4>5. \A m \in shown', n \in wire[2].numbers : m < n
        BY <1>7, <4>3, <4>4
      <4> QED
        BY <1>6, <1>11, <4>1, <4>3, <4>5 DEF Follows
    <3> QED
      BY <3>1, <3>2, <3>3 DEF FramesFit
  <2>4. NewestComes' /\ NothingBefore'
    <3>1. Live' => IF Len(wire') = 0 THEN Newest' \in shown'
                   ELSE Newest' \in wire'[Len(wire')].numbers
      <4> SUFFICES ASSUME Live PROVE IF Len(wire') = 0 THEN Newest \in shown'
                                     ELSE Newest \in wire'[Len(wire')].numbers
        BY <1>11, <2>1 DEF Live
      <4>1. Newest \in wire[Len(wire)].numbers
        BY <1>2 DEF StreamInv, NewestComes
      <4>2. CASE Len(wire') = 0
        <5>1. Newest \in A
          <6>1. Len(wire) = 1
            BY <1>2, <2>2, <4>2
          <6> QED
            BY <4>1, <6>1 DEF A
        <5>2. b = Newest
          BY <1>6, <1>7, <5>1
        <5> QED
          BY <1>6, <4>2, <5>2
      <4>3. CASE Len(wire') # 0
        <5>1. Len(wire') \in 1 .. Len(wire') /\ Len(wire') + 1 = Len(wire)
          BY <1>2, <2>2, <4>3
        <5>2. wire'[Len(wire')] = wire[Len(wire)]
          BY <2>2, <5>1
        <5> QED
          BY <4>1, <4>3, <5>2
      <4> QED
        BY <4>2, <4>3
    <3>2. NewestComes'
      BY <1>2, <1>4, <2>1, <3>1 DEF StreamInv, NewestComes, Live
    <3>3. NothingBefore'
      BY <1>4, <1>5, <1>9 DEF NothingBefore, StreamInv, Newest, Statuses, Terminal
    <3> QED
      BY <3>2, <3>3
  <2>5. PageTypeOK'
    <3>1. shown' \subseteq {Synthesized} \union DOMAIN events'[Job]
      BY <1>4, <1>6, <1>7, PageFacts
    <3>2. \A i \in DOMAIN wire' : /\ wire'[i].numbers \subseteq DOMAIN events'[Job]
                                  /\ wire'[i].terminal \in BOOLEAN
      BY <1>4, <2>2, <2>3, TypesFollow
    <3> QED
      BY <1>1, <1>3, <1>9, <1>10, <1>14, <2>1, <2>2, <3>1, <3>2
      DEF StreamInv, PageTypeOK, StreamTypeOK
  <2> QED
    BY <1>4, <1>10, <1>12, <1>13, <2>3, <2>4, <2>5 DEF StreamInv
<1> QED
  BY <1>15, <1>16

-----------------------------------------------------------------------------
(* The steps of the panel *)

\* What the page relies on when the jobs move: its log grows at the end, and a terminal status
\* is the end of it.
LEMMA JobsMove ==
  ASSUME StreamInv, JobStep
  PROVE  /\ RunnerInv'
         /\ \/ events'[Job] = events[Job] /\ (status'[Job] = "absent" <=> status[Job] = "absent")
            \/ /\ status[Job] \notin Terminal /\ status'[Job] # "absent"
               /\ \E e \in EventTypes : events'[Job] = Append(events[Job], e)
         /\ status[Job] \in Terminal => status'[Job] = status[Job] /\ events'[Job] = events[Job]
         /\ Newest' \in Nat /\ Newest' >= Newest
         /\ DOMAIN events'[Job] = 1 .. Newest'
<1>1. RunnerInv' /\ RowMoves(Job) /\ (status[Job] \in Terminal => status'[Job] = status[Job])
  BY RowsMove, RunnerStepKeeps, JobAssumption DEF StreamInv, StatusesStay
<1>2. events'[Job] \in Seq(EventTypes)
  BY <1>1, JobAssumption DEF RunnerInv, JobTypeOK
<1>3. Newest' \in Nat /\ DOMAIN events'[Job] = 1 .. Newest'
  BY <1>2, LenProperties DEF Newest
<1>4. Newest' >= Newest
  BY <1>1, PageFacts DEF RowMoves, Newest
<1> QED
  BY <1>1, <1>3, <1>4 DEF RowMoves

LEMMA FramesStillFit ==
  ASSUME StreamInv, Newest' \in Nat, Newest' >= Newest, shown' = shown,
         wire' = wire \/ wire' = <<>>
  PROVE  LogHasNoHole' /\ FramesFit'
<1>1. LogHasNoHole'
  BY DEF StreamInv, LogHasNoHole
<1>2. CASE wire' = <<>>
  <2>1. Len(wire') = 0 /\ \A i \in 1 .. Len(wire') : FALSE
    BY <1>2
  <2> QED
    BY <1>1, <2>1 DEF FramesFit
<1>3. CASE wire' = wire
  <2>1. /\ \A i \in 1 .. Len(wire) : IsRun(wire[i].numbers)
        /\ \A i \in 1 .. Len(wire) : i > 1 => Follows(wire[i - 1].numbers, wire[i].numbers)
        /\ Len(wire) > 0 => Follows(Numbers, wire[1].numbers) \/ Replaces(wire[1].numbers)
    BY DEF StreamInv, FramesFit
  <2>2. Newest \in Nat
    BY PageFacts
  <2>3. (\A i \in 1 .. Len(wire) : IsRun(wire[i].numbers))'
    BY <1>3, <2>1, <2>2 DEF IsRun
  <2>4. (Len(wire) > 0 => Follows(Numbers, wire[1].numbers) \/ Replaces(wire[1].numbers))'
    BY <1>3, <2>1 DEF Follows, Replaces, LastOf, Numbers
  <2>5. (\A i \in 1 .. Len(wire) : i > 1 => Follows(wire[i - 1].numbers, wire[i].numbers))'
    BY <1>3, <2>1 DEF Follows
  <2> QED
    BY <1>1, <2>3, <2>4, <2>5 DEF FramesFit
<1> QED
  BY <1>2, <1>3

LEMMA FinishedStillTrue ==
  ASSUME StreamInv, JobStep, shown' = shown, finished' = finished, notified' = notified,
         stopped' = stopped, polling' = polling, finished # "no" => phase' = phase
  PROVE  FinishedForGood'
<1>1. CASE finished = "no"
  BY <1>1 DEF StreamInv, FinishedForGood, FinishedOnceAndTrue
<1>2. CASE finished # "no"
  <2>1. status[Job] \in Terminal /\ finished = status[Job]
    BY <1>2 DEF StreamInv, FinishedForGood, FinishedOnceAndTrue, PageTypeOK, StreamTypeOK
  <2>2. status'[Job] = status[Job] /\ events'[Job] = events[Job]
    BY <2>1, JobsMove
  <2>3. TerminalIn(shown)' = TerminalIn(shown)
    BY <2>2 DEF TerminalIn
  <2>4. FinishedForGood
    BY DEF StreamInv
  <2> QED
    BY <1>2, <2>2, <2>3, <2>4 DEF FinishedForGood, FinishedOnceAndTrue, EventOf
<1> QED
  BY <1>1, <1>2

LEMMA RunnerStepKeepsPage == ASSUME StreamInv, RunnerStep PROVE StreamInv'
<1>1. /\ JobStep /\ Published
      /\ UNCHANGED <<phase, stopped, ended, current, shown, polling, calls, finished,
                     notified, faults>>
  BY DEF RunnerStep
<1>2. /\ RunnerInv'
      /\ status[Job] \in Terminal => status'[Job] = status[Job] /\ events'[Job] = events[Job]
      /\ Newest' \in Nat /\ Newest' >= Newest /\ DOMAIN events'[Job] = 1 .. Newest'
  BY <1>1, JobsMove
<1>3. FinishedForGood'
  BY <1>1, FinishedStillTrue
<1>4. CallsAreTrue'
  BY <1>1, <1>2 DEF StreamInv, CallsAreTrue, Free
<1>5. Newest \in Nat /\ Len(wire) \in Nat
  BY PageFacts
<1>6. CASE events'[Job] = events[Job] /\ (status'[Job] = "absent" <=> status[Job] = "absent")
  <2>1. Newest' = Newest /\ (Newest + 1) .. Newest = {}
    BY <1>5, <1>6 DEF Newest
  <2>2. wire' = wire /\ subscribed' = subscribed
    <3>1. subscribed \in BOOLEAN
      BY DEF StreamInv, PageTypeOK, StreamTypeOK
    <3> QED
      BY <1>1, <2>1, <3>1 DEF Published, Newest
  <2>3. LogHasNoHole' /\ FramesFit'
    BY <1>1, <1>2, <2>2, FramesStillFit
  <2>4. NewestComes' /\ NothingBefore'
    BY <1>1, <1>2, <1>6, <2>1, <2>2 DEF StreamInv, NewestComes, Live, NothingBefore, Free
  <2>5. PageTypeOK'
    BY <1>1, <1>6, <2>2 DEF StreamInv, PageTypeOK, StreamTypeOK
  <2> QED
    BY <1>2, <1>3, <1>4, <2>3, <2>4, <2>5 DEF StreamInv
<1>7. ASSUME NEW e \in EventTypes, events'[Job] = Append(events[Job], e),
             status[Job] \notin Terminal, status'[Job] # "absent"
      PROVE  StreamInv'
  <2>1. Newest' = Newest + 1
    BY <1>7, PageFacts DEF Newest
  <2>2. finished = "no" /\ (Live => subscribed)
    BY <1>7 DEF StreamInv, FinishedForGood, FinishedOnceAndTrue, PageTypeOK, StreamTypeOK, NewestComes
  <2>3. NothingBefore'
    BY <1>1, <1>5, <1>7, <2>1 DEF NothingBefore, StreamInv, Free
  <2>4. shown' \subseteq {Synthesized} \union DOMAIN events'[Job]
    <3>1. shown \subseteq {Synthesized} \union 1 .. Newest
      BY PageFacts DEF Numbers
    <3> QED
      BY <1>1, <1>2, <1>5, <2>1, <3>1
  <2>5. CASE subscribed
    <3> DEFINE frame == Frame({Newest + 1}, FALSE)
    <3>1. Live /\ Newest > 0
      BY <2>2, <2>5 DEF StreamInv, NewestComes, NothingBefore, Live
    <3>2. (Newest + 1) .. (Newest + 1) = {Newest + 1}
      BY <1>5
    <3>3. wire' = Append(wire, frame)
      <4>1. (Len(events[Job]) + 1) .. Len(events'[Job]) = {Newest + 1}
        BY <2>1, <3>2 DEF Newest
      <4> QED
        BY <1>1, <2>5, <4>1 DEF Published
    <3>4. frame.numbers = {Newest + 1} /\ frame \in [numbers : SUBSET Nat, terminal : BOOLEAN]
      BY <1>5 DEF Frame
    <3> HIDE DEF frame
    <3>5. /\ wire \in Seq([numbers : SUBSET Nat, terminal : BOOLEAN])
          /\ wire' \in Seq([numbers : SUBSET Nat, terminal : BOOLEAN])
          /\ Len(wire') = Len(wire) + 1 /\ wire'[Len(wire) + 1] = frame
          /\ \A i \in 1 .. Len(wire) : wire'[i] = wire[i]
      <4> DEFINE F == [numbers : SUBSET Nat, terminal : BOOLEAN]
      <4>1. wire \in Seq(F) /\ frame \in F
        BY <3>4 DEF StreamInv, PageTypeOK
      <4> HIDE DEF F
      <4>2. /\ wire' \in Seq(F) /\ Len(wire') = Len(wire) + 1 /\ wire'[Len(wire) + 1] = frame
            /\ \A i \in 1 .. Len(wire) : wire'[i] = wire[i]
        BY <3>3, <4>1, AppendProperties
      <4> QED
        BY <4>1, <4>2 DEF F
    <3>6. FramesFit'
      <4>1. (\A i \in 1 .. Len(wire) : IsRun(wire[i].numbers))'
        <5>1. ASSUME NEW i \in 1 .. Len(wire)
              PROVE  IsRun(wire[i].numbers)'
          <6>1. IsRun(wire[i].numbers)
            BY DEF StreamInv, FramesFit
          <6>2. PICK a, b \in Nat \ {0} : a <= b /\ b <= Newest' /\ wire[i].numbers = a .. b
            BY <1>5, <2>1, <6>1 DEF IsRun
          <6> QED
            BY <3>5, <6>2 DEF IsRun
        <5>2. IsRun(wire[Len(wire)].numbers)'
          <6>1. wire'[Len(wire')].numbers = (Newest + 1) .. (Newest + 1) /\ Newest + 1 <= Newest'
            BY <1>5, <2>1, <3>2, <3>4, <3>5
          <6>2. Newest + 1 \in Nat \ {0}
            BY <1>5
          <6> QED
            BY <6>1, <6>2 DEF IsRun
        <5>3. ASSUME NEW i \in 1 .. Len(wire')
              PROVE  IsRun(wire[i].numbers)'
          <6>1. i \in 1 .. Len(wire) \/ i = Len(wire')
            BY <1>5, <3>5, <5>3
          <6> QED
            BY <5>1, <5>2, <6>1
        <5> QED
          BY <5>3
      <4>2. (\A i \in 1 .. Len(wire) : i > 1 => Follows(wire[i - 1].numbers, wire[i].numbers))'
        <5>1. ASSUME NEW i \in 1 .. Len(wire), i > 1
              PROVE  Follows(wire[i - 1].numbers, wire[i].numbers)'
          <6>1. wire'[i] = wire[i] /\ wire'[i - 1] = wire[i - 1]
            BY <1>5, <3>5, <5>1
          <6> QED
            BY <5>1, <6>1 DEF StreamInv, FramesFit, Follows
        <5>2. ASSUME Len(wire) > 0
              PROVE  Follows(wire'[Len(wire)].numbers, wire'[Len(wire) + 1].numbers)
          <6>1. Newest \in wire[Len(wire)].numbers /\ Len(wire) \in 1 .. Len(wire)
            BY <1>5, <3>1, <5>2 DEF StreamInv, NewestComes
          <6>2. IsRun(wire[Len(wire)].numbers)
            BY <6>1 DEF StreamInv, FramesFit
          <6>3. \A m \in wire[Len(wire)].numbers : m \in Nat /\ m < Newest + 1
            BY <1>5, <6>2 DEF IsRun
          <6> QED
            BY <3>4, <3>5, <6>1, <6>3 DEF Follows
        <5>3. ASSUME NEW i \in 1 .. Len(wire'), i > 1
              PROVE  Follows(wire[i - 1].numbers, wire[i].numbers)'
          <6>1. CASE i \in 1 .. Len(wire)
            BY <5>1, <5>3, <6>1
          <6>2. CASE i = Len(wire) + 1
            <7>1. Len(wire) > 0 /\ i - 1 = Len(wire)
              BY <1>5, <5>3, <6>2
            <7> QED
              BY <5>2, <6>2, <7>1 DEF Follows
          <6> QED
            BY <1>5, <3>5, <5>3, <6>1, <6>2
        <5> QED
          BY <5>3
      <4>3. (Len(wire) > 0 => Follows(Numbers, wire[1].numbers) \/ Replaces(wire[1].numbers))'
        <5>1. CASE Len(wire) > 0
          <6>1. wire'[1] = wire[1] /\ shown' = shown
            BY <1>1, <1>5, <3>5, <5>1
          <6> QED
            BY <5>1, <6>1 DEF StreamInv, FramesFit, Follows, Replaces, LastOf, Numbers
        <5>2. CASE Len(wire) = 0
          <6>1. Newest \in Numbers
            BY <1>5, <3>1, <5>2 DEF StreamInv, NewestComes, Numbers, Synthesized
          <6>2. \A n \in Numbers : n < Newest + 1
            BY <1>5, PageFacts
          <6>3. wire'[1].numbers = {Newest + 1}
            BY <3>4, <3>5, <5>2
          <6>4. Numbers' = Numbers
            BY <1>1 DEF Numbers
          <6>5. Follows(Numbers', wire'[1].numbers)
            BY <6>1, <6>2, <6>3, <6>4 DEF Follows
          <6> QED
            BY <6>5 DEF Follows
        <5> QED
          BY <1>5, <5>1, <5>2
      <4> QED
        BY <4>1, <4>2, <4>3 DEF FramesFit
    <3>7. LogHasNoHole'
      BY <1>1 DEF StreamInv, LogHasNoHole
    <3>8. NewestComes'
      <4>1. Newest' \in wire'[Len(wire')].numbers /\ Len(wire') > 0
        BY <1>5, <2>1, <3>4, <3>5
      <4>2. subscribed' \/ status'[Job] \in Terminal
        <5>1. CASE e \in TerminalEvents
          <6>1. Logged(Job)'
            BY <1>2, JobAssumption DEF RunnerInv
          <6>2. Newest' \in 1 .. Len(events'[Job]) /\ events'[Job][Newest'] = e
            BY <1>5, <1>7, <2>1, PageFacts DEF Newest
          <6> QED
            BY <5>1, <6>1, <6>2 DEF Logged
        <5>2. CASE e \notin TerminalEvents
          <6>1. \A n \in (Len(events[Job]) + 1) .. Len(events'[Job]) : events'[Job][n] = e
            BY <1>5, <1>7, <2>1, PageFacts DEF Newest
          <6> QED
            BY <1>1, <2>5, <5>2, <6>1 DEF Published
        <5> QED
          BY <5>1, <5>2
      <4> QED
        BY <1>1, <3>1, <4>1, <4>2 DEF NewestComes, Live
    <3>9. PageTypeOK'
      BY <1>1, <1>2, <2>4, <3>5, <3>6, TypesFollow DEF StreamInv, PageTypeOK, StreamTypeOK, Published
    <3> QED
      BY <1>2, <1>3, <1>4, <2>3, <3>6, <3>7, <3>8, <3>9 DEF StreamInv
  <2>6. CASE ~subscribed
    <3>1. wire' = wire /\ ~Live /\ ~subscribed'
      BY <1>1, <2>2, <2>6 DEF Published
    <3>2. LogHasNoHole' /\ FramesFit'
      BY <1>1, <1>2, <3>1, FramesStillFit
    <3>3. NewestComes'
      BY <1>1, <3>1 DEF StreamInv, NewestComes, Live
    <3>4. PageTypeOK'
      BY <1>1, <1>2, <2>4, <3>1, <3>2, TypesFollow DEF StreamInv, PageTypeOK, StreamTypeOK, Published
    <3> QED
      BY <1>2, <1>3, <1>4, <2>3, <3>2, <3>3, <3>4 DEF StreamInv
  <2> QED
    BY <2>5, <2>6
<1> QED
  BY <1>1, <1>6, <1>7, JobsMove

LEMMA PanelRestartKeeps == ASSUME StreamInv, PanelRestart PROVE StreamInv'
<1>1. /\ JobStep
      /\ phase' = IF phase \in {"connecting", "accepted", "open"} THEN "lost" ELSE phase
      /\ wire' = IF phase = "open" THEN wire ELSE <<>>
      /\ subscribed' = FALSE
      /\ calls' = [c \in Calls |-> IF calls[c].seen = "pending" THEN Free ELSE calls[c]]
      /\ UNCHANGED <<stopped, ended, current, shown, polling, finished, notified, faults>>
  BY DEF PanelRestart, JobStep
<1>2. /\ RunnerInv'
      /\ status[Job] \in Terminal => status'[Job] = status[Job] /\ events'[Job] = events[Job]
      /\ Newest' \in Nat /\ Newest' >= Newest /\ DOMAIN events'[Job] = 1 .. Newest'
  BY <1>1, JobsMove
<1>3. finished # "no" => phase' = phase
  BY <1>1 DEF StreamInv, FinishedForGood
<1>4. FinishedForGood'
  BY <1>1, <1>3, FinishedStillTrue
<1>5. LogHasNoHole' /\ FramesFit'
  BY <1>1, <1>2, FramesStillFit
<1>6. /\ calls \in [Calls -> [for : {"none", "poll", "final"},
                              seen : {"none", "pending"} \union Statuses]]
      /\ CallsAreTrue
  BY DEF StreamInv, PageTypeOK
<1>7. \A c \in Calls : calls'[c] = Free \/ calls'[c] = calls[c]
  BY <1>1
<1>8. Free.for = "none" /\ Free.seen = "none" /\ Free' = Free
  BY DEF Free
<1>9. calls' \in [Calls -> [for : {"none", "poll", "final"},
                            seen : {"none", "pending"} \union Statuses]]
  BY <1>1, <1>6 DEF Free
<1>10. CallsAreTrue'
  <2>1. ASSUME NEW c \in Calls
        PROVE  /\ calls'[c] = Free \/ (calls'[c].for \in {"poll", "final"} /\ calls'[c].seen # "none")
               /\ calls'[c].seen # "absent"
               /\ calls'[c].seen \in Terminal => calls'[c].seen = status'[Job]
               /\ calls'[c].for = "final" => /\ status'[Job] \in Terminal
                                             /\ calls'[c].seen \in Terminal \union {"pending"}
    <3>1. CASE calls'[c] = Free
      BY <1>8, <3>1 DEF Terminal
    <3>2. CASE calls'[c] = calls[c]
      BY <1>2, <1>6, <3>2 DEF CallsAreTrue
    <3> QED
      BY <1>7, <3>1, <3>2
  <2> QED
    BY <1>8, <2>1 DEF CallsAreTrue
<1>11. NewestComes'
  <2>1. ~Live' /\ (Len(wire') > 0 => phase' = "lost")
    BY <1>1 DEF Live
  <2> QED
    BY <1>1, <2>1 DEF NewestComes
<1>12. NothingBefore'
  <2>1. \/ status'[Job] # "absent" /\ Newest' > 0
        \/ status'[Job] = "absent" /\ status[Job] = "absent" /\ Newest' = Newest
        \/ status[Job] # "absent" /\ status'[Job] # "absent" /\ Newest' = Newest
    BY <1>1, JobsMove, PageFacts DEF Newest
  <2>2. current = "none" => \A c \in Calls : calls'[c] = Free
    BY <1>7 DEF StreamInv, NothingBefore
  <2> QED
    BY <1>1, <1>8, <2>1, <2>2, PageFacts DEF StreamInv, NothingBefore
<1>13. PageTypeOK'
  <2>1. shown' \subseteq {Synthesized} \union DOMAIN events'[Job]
    <3>1. shown \subseteq {Synthesized} \union 1 .. Newest /\ Newest \in Nat
      BY PageFacts DEF Numbers
    <3> QED
      BY <1>1, <1>2, <3>1
  <2>2. wire' \in Seq([numbers : SUBSET Nat, terminal : BOOLEAN])
    BY <1>1 DEF StreamInv, PageTypeOK
  <2>3. phase' \in Phases /\ subscribed' \in BOOLEAN
    BY <1>1 DEF StreamInv, PageTypeOK, StreamTypeOK, Phases
  <2> QED
    BY <1>1, <1>2, <1>5, <1>9, <2>1, <2>2, <2>3, TypesFollow DEF StreamInv, PageTypeOK, StreamTypeOK
<1> QED
  BY <1>2, <1>4, <1>5, <1>9, <1>10, <1>11, <1>12, <1>13 DEF StreamInv

-----------------------------------------------------------------------------
LEMMA StreamStarts == StreamInit => StreamInv
<1> SUFFICES ASSUME StreamInit PROVE StreamInv
  OBVIOUS
<1>1. RunnerInv
  BY RunnerStarts DEF StreamInit
<1>2. status[Job] = "absent" /\ events[Job] = <<>>
  BY JobAssumption DEF StreamInit, JobInit
<1>3. wire = <<>> /\ Len(wire) = 0 /\ DOMAIN wire = {}
  BY DEF StreamInit
<1>4. LogHasNoHole
  <2>1. shown \ {Synthesized} = {}
    BY DEF StreamInit
  <2>2. Cardinality({}) = 0
    BY FS_EmptySet
  <2> QED
    BY <2>1, <2>2, LimitAssumption DEF LogHasNoHole
<1>5. FramesFit /\ NewestComes /\ NothingBefore /\ CallsAreTrue
  BY <1>2, <1>3 DEF StreamInit, FramesFit, NewestComes, Live, NothingBefore, CallsAreTrue, Free, Terminal
<1>6. FinishedForGood
  BY DEF StreamInit, FinishedForGood, FinishedOnceAndTrue
<1>7. PageTypeOK
  <2>1. calls \in [Calls -> [for : {"none", "poll", "final"},
                             seen : {"none", "pending"} \union Statuses]]
    BY DEF StreamInit, Free
  <2>2. \A c \in Calls : calls[c].for = "none" /\ calls[c].seen = "none"
    BY DEF StreamInit, Free
  <2>3. wire \in Seq([numbers : SUBSET Nat, terminal : BOOLEAN])
    BY <1>3
  <2>4. StreamTypeOK
    <3>1. \A i \in DOMAIN wire : FALSE
      BY <1>3
    <3>2. \A c \in Calls : /\ calls[c].for \in {"none", "poll", "final"}
                           /\ calls[c].seen \in {"none", "pending"} \union Statuses
      BY <2>2
    <3>3. /\ phase \in Phases /\ current = "none" /\ shown = {} /\ finished = "no"
          /\ notified = 0 /\ faults \in 0 .. MaxFaults
      BY MaxFaultsAssumption DEF StreamInit, Phases
    <3>4. subscribed = FALSE /\ stopped = FALSE /\ ended = FALSE /\ polling = FALSE
      BY Zenon DEF StreamInit
    <3> QED
      BY <3>1, <3>2, <3>3, <3>4 DEF StreamTypeOK
  <2> QED
    BY <2>1, <2>3, <2>4 DEF PageTypeOK
<1> QED
  BY <1>1, <1>4, <1>5, <1>6, <1>7 DEF StreamInv

LEMMA StreamStep == StreamInv /\ [StreamNext]_streamVars => StreamInv'
<1> SUFFICES ASSUME StreamInv, [StreamNext]_streamVars PROVE StreamInv'
  OBVIOUS
<1>1. ASSUME NEW c \in Calls, Answer(c) \/ PollReturns(c) \/ FinalReturns(c) \/ CallFails(c)
      PROVE  StreamInv'
  BY <1>1, AnswerKeeps, PollReturnsKeeps, FinalReturnsKeeps, CallFailsKeeps
<1>2. CASE UNCHANGED streamVars
  <2>1. /\ UNCHANGED jobVars /\ calls' = calls /\ status' = status
        /\ UNCHANGED <<phase, subscribed, wire, stopped, ended, current, shown, polling, finished,
                       notified>>
        /\ faults' = faults
    BY <1>2 DEF streamVars, pageVars, jobVars
  <2>2. CallsAreTrue'
    BY <2>1, CallsStand
  <2> QED
    BY <2>1, <2>2, CallsChange DEF StreamInv, PageTypeOK, StreamTypeOK, NothingBefore
<1> QED
  BY <1>1, <1>2, RunnerStepKeepsPage, PanelRestartKeeps, ShowJobKeeps, AcceptKeeps, OpenedKeeps,
     ReceiveKeeps, CloseEventKeeps, ReconnectKeeps, LinkLostKeeps, PollKeeps DEF StreamNext

\* The invariant of the stream holds for any number of events, calls, faults and restarts.
THEOREM StreamIsSound == StreamSpec => []StreamInv
<1> QED
  BY StreamStarts, StreamStep, PTL DEF StreamSpec

\* The lines of a job that its page shows (useJobLogStream.ts, job-event-socket.ts) are consecutive
\* and Limit at most; while its connection lives the newest line is shown or on the way; once the
\* page has taken the job for finished it neither polls nor reconnects.  One page; lines that were
\* not sent again because a history is limited are not shown, and nothing says so.
THEOREM PageIsSound == StreamSpec => []PageInv
<1>1. StreamInv => PageInv
  <2> SUFFICES ASSUME StreamInv PROVE PageInv
    OBVIOUS
  <2>1. StreamTypeOK /\ LogHasNoHole /\ QuietAfterFinish
    BY DEF StreamInv, PageTypeOK, FinishedForGood, QuietAfterFinish
  <2>2. LiveLogIsComplete
    <3> SUFFICES ASSUME Live
                 PROVE  Newest \in shown \union UNION {wire[i].numbers : i \in DOMAIN wire}
      BY DEF LiveLogIsComplete, Live, Newest
    <3>1. CASE Len(wire) = 0
      BY <3>1 DEF StreamInv, NewestComes
    <3>2. CASE Len(wire) # 0
      <4>1. Len(wire) \in DOMAIN wire /\ Newest \in wire[Len(wire)].numbers
        BY <3>2, PageFacts DEF StreamInv, NewestComes
      <4> QED
        BY <4>1
    <3> QED
      BY <3>1, <3>2
  <2> QED
    BY <2>1, <2>2 DEF PageInv
<1> QED
  BY <1>1, StreamIsSound, PTL

\* onFinished of useJobLogStream is called once at most, with the status the job really has, and
\* the page shows one terminal event by then, a true one unless the panel wrote none.
THEOREM FinishedTruly == StreamSpec => []FinishedOnceAndTrue
<1>1. StreamInv => FinishedOnceAndTrue
  BY DEF StreamInv, FinishedForGood
<1> QED
  BY <1>1, StreamIsSound, PTL
=============================================================================
