------------------------------ MODULE JobRunner ------------------------------
(***************************************************************************)
(* Background jobs of the panel: JobsRunner over the jobs and job_events   *)
(* tables of JobsStore.  The API is one JavaScript thread: what runs up to *)
(* the next await is one action, and any other handler may run in between. *)
(* A task is abstracted to what the runner sees of it: it may log, and it  *)
(* returns or throws, sooner or later and whether it heeds its signal or   *)
(* not.  Inputs, results, messages and progress values are left out.       *)
(***************************************************************************)
EXTENDS Integers, Sequences, FiniteSets

CONSTANTS
  NumJobs,        \* bound: jobs created in a behaviour
  Keys,           \* queue keys of createQueued
  MaxLogs,        \* bound: log and progress events of one task
  MaxRestarts     \* bound: restarts of the API process

ASSUME NumJobsAssumption == NumJobs \in Nat
ASSUME MaxLogsAssumption == MaxLogs \in Nat
ASSUME MaxRestartsAssumption == MaxRestarts \in Nat

VARIABLES
  made,         \* number of jobs created so far
  status,       \* jobs.status, "absent" for no row
  events,       \* types of the job's rows in job_events, in sequence order
  cancelled,    \* JobsRunner.cancelled
  running,      \* JobsRunner.running: job -> "no", "live" or "aborted" signal
  queues,       \* JobsRunner.queues: key -> job ids, <<>> for no entry
  at,           \* where the job's runJob call is
  drain,        \* where the key's drainQueue call is
  restarts,     \* restarts of the process so far
  requested     \* history: jobs whose cancellation this process accepted

jobVars == <<made, status, events, cancelled, running, queues, at, drain,
             restarts, requested>>

\* Numbered in the order of their creation.
Jobs == 1..NumJobs

Terminal == {"succeeded", "failed", "cancelled"}
Statuses == {"absent", "queued", "running"} \union Terminal
TerminalEvents == {"completed", "failed", "cancelled"}
EventTypes == {"queued", "started", "log"} \union TerminalEvents

\* "none": no call to come; "microtask": scheduled by create; "waiting": in a
\* queue; "task": awaiting the task; "returned" and "threw": the task ended,
\* the continuation is to run; "settled": the call of a queue's head resolved.
Places == {"none", "microtask", "waiting", "task", "returned", "threw", "settled"}

JobInit ==
  /\ made = 0
  /\ status = [j \in Jobs |-> "absent"]
  /\ events = [j \in Jobs |-> <<>>]
  /\ cancelled = {}
  /\ running = [j \in Jobs |-> "no"]
  /\ queues = [k \in Keys |-> <<>>]
  /\ at = [j \in Jobs |-> "none"]
  /\ drain = [k \in Keys |-> "none"]
  /\ restarts = 0
  /\ requested = {}

\* update of the status, and emit of an event of the job.
Update(j, s, e) ==
  /\ status' = [status EXCEPT ![j] = s]
  /\ events' = [events EXCEPT ![j] = Append(@, e)]

Queued(j) == \E k \in Keys : \E i \in DOMAIN queues[k] : queues[k][i] = j

\* create: a row, an event, and runJob in a microtask.
Create ==
  /\ made < NumJobs
  /\ made' = made + 1
  /\ Update(made', "queued", "queued")
  /\ at' = [at EXCEPT ![made'] = "microtask"]
  /\ UNCHANGED <<cancelled, running, queues, drain, restarts, requested>>

\* Mutants: each entry runs at once; the queue is drained from its second entry on.
CreateEager(k) ==
  /\ made < NumJobs
  /\ made' = made + 1
  /\ Update(made', "queued", "queued")
  /\ queues' = [queues EXCEPT ![k] = Append(@, made')]
  /\ at' = [at EXCEPT ![made'] = IF Len(queues[k]) = 0 THEN "waiting" ELSE "microtask"]
  /\ drain' = IF Len(queues[k]) = 0 THEN [drain EXCEPT ![k] = "microtask"] ELSE drain
  /\ UNCHANGED <<cancelled, running, restarts, requested>>
CreateLateDrain(k) ==
  /\ made < NumJobs
  /\ made' = made + 1
  /\ Update(made', "queued", "queued")
  /\ queues' = [queues EXCEPT ![k] = Append(@, made')]
  /\ at' = [at EXCEPT ![made'] = "waiting"]
  /\ drain' = IF Len(queues[k]) = 1 THEN [drain EXCEPT ![k] = "microtask"] ELSE drain
  /\ UNCHANGED <<cancelled, running, restarts, requested>>

\* createQueued: a row, an event, a queue entry; the first entry of a queue
\* schedules drainQueue.
CreateQueued(k) ==
  /\ made < NumJobs
  /\ made' = made + 1
  /\ Update(made', "queued", "queued")
  /\ queues' = [queues EXCEPT ![k] = Append(@, made')]
  /\ at' = [at EXCEPT ![made'] = "waiting"]
  /\ drain' = IF Len(queues[k]) = 0 THEN [drain EXCEPT ![k] = "microtask"] ELSE drain
  /\ UNCHANGED <<cancelled, running, restarts, requested>>

\* cancel of a running job: abort its signal, the task is left to end.
CancelRunning(j) ==
  /\ status[j] = "running"
  /\ j \notin cancelled
  /\ cancelled' = cancelled \union {j}
  /\ running' = IF running[j] = "no" THEN running
                ELSE [running EXCEPT ![j] = "aborted"]
  /\ Update(j, "running", "log")
  /\ requested' = requested \union {j}
  /\ UNCHANGED <<made, queues, at, drain, restarts>>

\* Mutant: a cancellation that writes the status without the event.
CancelSilently(j) ==
  /\ status[j] = "queued"
  /\ j \notin cancelled
  /\ cancelled' = cancelled \union {j}
  /\ status' = [status EXCEPT ![j] = "cancelled"]
  /\ requested' = requested \union {j}
  /\ UNCHANGED <<made, events, running, queues, at, drain, restarts>>

\* cancel of a queued job: terminal at once, its runJob call is left to return.
CancelQueued(j) ==
  /\ status[j] = "queued"
  /\ j \notin cancelled
  /\ cancelled' = cancelled \union {j}
  /\ Update(j, "cancelled", "cancelled")
  /\ requested' = requested \union {j}
  /\ UNCHANGED <<made, running, queues, at, drain, restarts>>

\* Mutant: runJob without its check for a cancellation that came before it.
EnterUnchecked(j, nextAt) ==
  /\ running' = [running EXCEPT ![j] = "live"]
  /\ Update(j, "running", "started")
  /\ at' = [nextAt EXCEPT ![j] = "task"]
  /\ UNCHANGED cancelled

\* runJob up to the task's first await, in place nextAt if it returns at once.
Enter(j, nextAt) ==
  IF j \in cancelled
  THEN /\ cancelled' = cancelled \ {j}
       /\ at' = nextAt
       /\ UNCHANGED <<status, events, running>>
  ELSE /\ running' = [running EXCEPT ![j] = "live"]
       /\ Update(j, "running", "started")
       /\ at' = [nextAt EXCEPT ![j] = "task"]
       /\ UNCHANGED cancelled

\* The microtask of create.
RunCreated(j) ==
  /\ at[j] = "microtask"
  /\ Enter(j, [at EXCEPT ![j] = "none"])
  /\ UNCHANGED <<made, queues, drain, restarts, requested>>

\* drainQueue starts with the head of its queue.
DrainStart(k) ==
  /\ drain[k] = "microtask"
  /\ drain' = [drain EXCEPT ![k] = "awaiting"]
  /\ Enter(Head(queues[k]), [at EXCEPT ![Head(queues[k])] = "settled"])
  /\ UNCHANGED <<made, queues, restarts, requested>>

\* drainQueue goes on when its head's runJob resolved: the next entry, or the
\* queue is deleted.
DrainNext(k) ==
  /\ drain[k] = "awaiting"
  /\ at[Head(queues[k])] = "settled"
  /\ queues' = [queues EXCEPT ![k] = Tail(@)]
  /\ LET left == [at EXCEPT ![Head(queues[k])] = "none"]
         next == Head(Tail(queues[k]))
     IN IF Tail(queues[k]) = <<>>
        THEN /\ drain' = [drain EXCEPT ![k] = "none"]
             /\ at' = left
             /\ UNCHANGED <<status, events, cancelled, running>>
        ELSE /\ Enter(next, [left EXCEPT ![next] = "settled"])
             /\ UNCHANGED drain
  /\ UNCHANGED <<made, restarts, requested>>

\* The task reports: log and progress throw into the task once it is aborted.
TaskLog(j) ==
  /\ at[j] = "task"
  /\ running[j] = "live"
  /\ Cardinality({i \in DOMAIN events[j] : events[j][i] = "log"}) < MaxLogs
  /\ events' = [events EXCEPT ![j] = Append(@, "log")]
  /\ UNCHANGED <<made, status, cancelled, running, queues, at, drain, restarts,
                 requested>>

\* The task's promise settles, with or without regard to its signal.
TaskEnds(j) ==
  /\ at[j] = "task"
  /\ \E end \in {"returned", "threw"} : at' = [at EXCEPT ![j] = end]
  /\ UNCHANGED <<made, status, events, cancelled, running, queues, drain,
                 restarts, requested>>

\* Mutants: a task that returns wins over its aborted signal; the event type is
\* written as the status.
OutcomeOfReturn(j) == IF at[j] = "returned" THEN "succeeded" ELSE "failed"
OutcomeAsEvent(j) == IF at[j] = "returned" THEN "completed" ELSE "failed"

\* The status runJob ends with, in its try and its catch block.
Outcome(j) ==
  IF at[j] = "returned"
  THEN IF j \in cancelled \/ running[j] = "aborted" THEN "cancelled"
       ELSE IF status[j] = "cancelled" THEN "cancelled" ELSE "succeeded"
  ELSE IF running[j] = "aborted" \/ status[j] = "cancelled" THEN "cancelled"
       ELSE "failed"

EventOf(s) == IF s = "succeeded" THEN "completed" ELSE s

\* Mutant: the finally block forgets the cancellation mark.
FinishKeepingMark(j) ==
  /\ at[j] \in {"returned", "threw"}
  /\ IF status[j] = "cancelled" THEN UNCHANGED <<status, events>>
     ELSE Update(j, Outcome(j), EventOf(Outcome(j)))
  /\ running' = [running EXCEPT ![j] = "no"]
  /\ at' = [at EXCEPT ![j] = IF Queued(j) THEN "settled" ELSE "none"]
  /\ UNCHANGED <<made, cancelled, queues, drain, restarts, requested>>

\* runJob after the task: the terminal status, its event, then finally.
Finish(j) ==
  /\ at[j] \in {"returned", "threw"}
  /\ IF status[j] = "cancelled" THEN UNCHANGED <<status, events>>
     ELSE Update(j, Outcome(j), EventOf(Outcome(j)))
  /\ running' = [running EXCEPT ![j] = "no"]
  /\ cancelled' = cancelled \ {j}
  /\ at' = [at EXCEPT ![j] = IF Queued(j) THEN "settled" ELSE "none"]
  /\ UNCHANGED <<made, queues, drain, restarts, requested>>

\* The statuses on disk when the process dies: as they are, or one terminal
\* status written without its event, by a cancel, by recoverInterruptedJobs or by
\* the end of a runJob.
StatusesLeft ==
  {status} \union
  {[status EXCEPT ![j] = "cancelled"] : j \in {i \in Jobs : status[i] = "queued"}} \union
  {[status EXCEPT ![j] = "failed"] :
     j \in {i \in Jobs : status[i] \in {"queued", "running"}}} \union
  {[status EXCEPT ![j] = Outcome(j)] :
     j \in {i \in Jobs : at[i] \in {"returned", "threw"}}}

\* Mutant: only running jobs are recovered.
RestartRunningOnly ==
  /\ restarts < MaxRestarts
  /\ restarts' = restarts + 1
  /\ \E left \in StatusesLeft :
       LET lost == {j \in Jobs : left[j] = "running"}
       IN /\ status' = [j \in Jobs |-> IF j \in lost THEN "failed" ELSE left[j]]
          /\ events' = [j \in Jobs |-> IF j \in lost THEN Append(events[j], "failed")
                                       ELSE events[j]]
  /\ cancelled' = {}
  /\ running' = [j \in Jobs |-> "no"]
  /\ queues' = [k \in Keys |-> <<>>]
  /\ at' = [j \in Jobs |-> "none"]
  /\ drain' = [k \in Keys |-> "none"]
  /\ requested' = {}
  /\ UNCHANGED made

\* The API process restarts at any point: recoverInterruptedJobs.
Restart ==
  /\ restarts < MaxRestarts
  /\ restarts' = restarts + 1
  /\ \E left \in StatusesLeft :
       LET lost == {j \in Jobs : left[j] \in {"queued", "running"}}
       IN /\ status' = [j \in Jobs |-> IF j \in lost THEN "failed" ELSE left[j]]
          /\ events' = [j \in Jobs |-> IF j \in lost THEN Append(events[j], "failed")
                                       ELSE events[j]]
  /\ cancelled' = {}
  /\ running' = [j \in Jobs |-> "no"]
  /\ queues' = [k \in Keys |-> <<>>]
  /\ at' = [j \in Jobs |-> "none"]
  /\ drain' = [k \in Keys |-> "none"]
  /\ requested' = {}
  /\ UNCHANGED made

JobStep ==
  \/ Create \/ Restart
  \/ \E k \in Keys : CreateQueued(k) \/ DrainStart(k) \/ DrainNext(k)
  \/ \E j \in Jobs : \/ CancelRunning(j) \/ CancelQueued(j) \/ RunCreated(j)
                     \/ TaskLog(j) \/ TaskEnds(j) \/ Finish(j)

JobSpec == JobInit /\ [][JobStep]_jobVars

\* Microtasks run, and tasks end: their waits have deadlines or follow a
\* process that ends.  Nobody has to create or cancel a job.
JobFairness ==
  /\ \A k \in Keys : WF_jobVars(DrainStart(k)) /\ WF_jobVars(DrainNext(k))
  /\ \A j \in Jobs : /\ WF_jobVars(RunCreated(j))
                     /\ WF_jobVars(TaskEnds(j))
                     /\ WF_jobVars(Finish(j))

JobLiveSpec == JobSpec /\ JobFairness

-----------------------------------------------------------------------------
\* Every variable has its type.
JobTypeOK ==
  /\ made \in 0..NumJobs
  /\ status \in [Jobs -> Statuses]
  /\ events \in [Jobs -> Seq(EventTypes)]
  /\ cancelled \subseteq Jobs
  /\ running \in [Jobs -> {"no", "live", "aborted"}]
  /\ queues \in [Keys -> Seq(Jobs)]
  /\ at \in [Jobs -> Places]
  /\ drain \in [Keys -> {"none", "microtask", "awaiting"}]
  /\ restarts \in Nat
  /\ requested \subseteq Jobs

\* An accepted cancellation cannot later be overwritten by a task that returns
\* or throws all the same (docs/PROJECT_PLAN.md:162-164).
CancelWins == \A j \in requested : status[j] \in {"running", "cancelled"}

\* A terminal event is the last of its job and tells its terminal status:
\* browsers close their stream on it.  While the process lives, a terminal
\* status has such an event.
LogTellsStatus ==
  \A j \in Jobs :
    /\ \A i \in DOMAIN events[j] :
         events[j][i] \in TerminalEvents =>
           /\ i = Len(events[j])
           /\ status[j] \in Terminal
           /\ events[j][i] = EventOf(status[j])
    /\ status[j] \in Terminal /\ restarts = 0 =>
         events[j] # <<>> /\ events[j][Len(events[j])] = EventOf(status[j])

\* Jobs of one queue never run at the same time, and the one that runs is the
\* oldest of the queue.
OneAtATime ==
  \A k \in Keys : \A i \in DOMAIN queues[k] :
    i > 1 => running[queues[k][i]] = "no" /\ at[queues[k][i]] = "waiting"

\* A queue with entries has a drainQueue call, and only one with entries has.
QueueIsDrained == \A k \in Keys : queues[k] # <<>> <=> drain[k] # "none"

\* Neither the registry of running jobs nor the set of cancelled ones keeps an
\* entry whose runJob call is over.
NothingLeaks ==
  \A j \in Jobs :
    /\ running[j] # "no" <=> at[j] \in {"task", "returned", "threw"}
    /\ j \in cancelled => at[j] \in {"microtask", "waiting", "task", "returned", "threw"}

\* What the rows, the queues and the registries of jobs.runner.ts tell of each other, through
\* cancellations and a restart.
JobInv == JobTypeOK /\ CancelWins /\ OneAtATime /\ QueueIsDrained /\ NothingLeaks

\* A terminal status is never replaced.
TerminalIsFinal ==
  [][\A j \in Jobs : status[j] \in Terminal => status'[j] = status[j]]_jobVars

\* Every job that is created reaches a terminal status, also behind others in a
\* queue, after a cancellation and over restarts.
EveryJobEnds == \A j \in Jobs : status[j] = "queued" ~> status[j] \in Terminal
=============================================================================
