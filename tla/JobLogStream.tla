---------------------------- MODULE JobLogStream ----------------------------
(***************************************************************************)
(* The live log of one job in one browser page: JobsBrowserEventsService   *)
(* on the panel, connectJobEventSocket and useJobLogStream in the page,    *)
(* over the jobs of JobRunner.  The page keeps one WebSocket at a time and *)
(* polls the job record while it has none.  Events are their sequence      *)
(* numbers; messages, progress values and pings are left out.              *)
(***************************************************************************)
EXTENDS JobRunner, FiniteSetsExt

CONSTANTS
  Job,         \* the job the page follows
  Limit,       \* events in a history message, events the page keeps
  Calls,       \* bound: getJob calls in flight at a time
  MaxFaults    \* bound: lost connections and failed calls

ASSUME JobAssumption == Job \in Jobs
ASSUME LimitAssumption == Limit \in Nat \ {0}
ASSUME CallsAssumption == Calls \subseteq Nat
ASSUME MaxFaultsAssumption == MaxFaults \in Nat

VARIABLES
  phase,        \* the page's WebSocket
  subscribed,   \* whether the panel's end of it listens to the job's events
  wire,         \* frames on their way to the page
  stopped,      \* connectJobEventSocket: closed by the page
  ended,        \* connectJobEventSocket: terminal
  current,      \* status of currentJob, "none" before the page shows the job
  shown,        \* events: the sequence numbers shown
  polling,      \* whether pollTimer runs
  calls,        \* getJob calls in flight
  finished,     \* status of the record finish was first called with, or "no"
  notified,     \* number of onFinished calls
  faults        \* faults so far

pageVars == <<phase, subscribed, wire, stopped, ended, current, shown, polling,
              calls, finished, notified, faults>>
streamVars == <<jobVars, pageVars>>

\* "waiting": the retry timer runs; "accepted": open on the panel, the page's open
\* event is to come; "lost": broken or closed by the panel, the page's close event
\* is to come; "closing": closed by the page, likewise.
Phases == {"none", "waiting", "connecting", "accepted", "open", "lost", "closing"}

\* The number of the event finish adds when it has seen no terminal one.
Synthesized == 0

Free == [for |-> "none", seen |-> "none"]
Frame(numbers, terminal) == [numbers |-> numbers, terminal |-> terminal]

StreamInit ==
  /\ JobInit
  /\ phase = "none" /\ subscribed = FALSE /\ wire = <<>>
  /\ stopped = FALSE /\ ended = FALSE
  /\ current = "none" /\ shown = {} /\ polling = FALSE
  /\ calls = [c \in Calls |-> Free]
  /\ finished = "no" /\ notified = 0 /\ faults = 0

TerminalIn(numbers) ==
  {n \in numbers \ {Synthesized} : events[Job][n] \in TerminalEvents}
LastOf(numbers) == {n \in numbers : Cardinality({m \in numbers : m > n}) < Limit}

\* getJob is called, if one more call fits the bound.
Called(cs, why) ==
  IF \E c \in Calls : cs[c] = Free
  THEN [cs EXCEPT ![CHOOSE c \in Calls : cs[c] = Free] = [for |-> why, seen |-> "pending"]]
  ELSE cs

\* JobsEventHub.publish: what the runner appends goes to the page's listener,
\* which unsubscribes at a terminal event.
Published ==
  LET new == (Len(events[Job]) + 1)..Len(events'[Job])
      ends == \E n \in new : events'[Job][n] \in TerminalEvents
  IN /\ wire' = IF subscribed /\ new # {} THEN Append(wire, Frame(new, FALSE)) ELSE wire
     /\ subscribed' = (subscribed /\ ~ends)

\* A step of the runner.
RunnerStep ==
  /\ JobStep
  /\ UNCHANGED restarts
  /\ Published
  /\ UNCHANGED <<phase, stopped, ended, current, shown, polling, calls, finished,
                 notified, faults>>

\* The panel restarts: its sockets break and the calls it has not answered fail.
PanelRestart ==
  /\ Restart
  /\ phase' = IF phase \in {"connecting", "accepted", "open"} THEN "lost" ELSE phase
  /\ wire' = IF phase = "open" THEN wire ELSE <<>>
  /\ subscribed' = FALSE
  /\ calls' = [c \in Calls |-> IF calls[c].seen = "pending" THEN Free ELSE calls[c]]
  /\ UNCHANGED <<stopped, ended, current, shown, polling, finished, notified, faults>>

\* The page shows the job: the record it was given is that of the job's creation
\* or a later one.
ShowJob ==
  /\ current = "none"
  /\ status[Job] # "absent"
  /\ \E s \in {"queued", status[Job]} : current' = s
  /\ phase' = "connecting"
  /\ UNCHANGED <<jobVars, subscribed, wire, stopped, ended, shown, polling, calls,
                 finished, notified, faults>>

\* Mutants: a history shorter than the page's log; a subscription for running jobs
\* only.
AcceptShortHistory ==
  /\ phase = "connecting"
  /\ phase' = "accepted"
  /\ subscribed' = (status[Job] \notin Terminal)
  /\ wire' = <<Frame({Max(DOMAIN events[Job])}, status[Job] \in Terminal)>>
  /\ UNCHANGED <<jobVars, stopped, ended, current, shown, polling, calls, finished,
                 notified, faults>>
AcceptRunningOnly ==
  /\ phase = "connecting"
  /\ phase' = "accepted"
  /\ subscribed' = (status[Job] = "running")
  /\ wire' = <<Frame(LastOf(DOMAIN events[Job]), status[Job] \in Terminal)>>
  /\ UNCHANGED <<jobVars, stopped, ended, current, shown, polling, calls, finished,
                 notified, faults>>

\* The panel's open: subscribe unless the job has ended, then send the history.
Accept ==
  /\ phase = "connecting"
  /\ phase' = "accepted"
  /\ subscribed' = (status[Job] \notin Terminal)
  /\ wire' = <<Frame(LastOf(DOMAIN events[Job]), status[Job] \in Terminal)>>
  /\ UNCHANGED <<jobVars, stopped, ended, current, shown, polling, calls, finished,
                 notified, faults>>

\* The page's open event: state "live", stopPolling.
Opened ==
  /\ phase = "accepted"
  /\ phase' = "open"
  /\ polling' = FALSE
  /\ UNCHANGED <<jobVars, subscribed, wire, stopped, ended, current, shown, calls,
                 finished, notified, faults>>

\* connection.close of the page, from phase p.
Closed(p) ==
  CASE p \in {"connecting", "accepted", "open", "lost", "closing"} -> "closing"
    [] OTHER -> "none"

\* A frame arrives: the new events are shown; a terminal one closes the
\* connection, settles the status shown and asks for the final record.
Receive ==
  /\ phase \in {"open", "lost"}
  /\ wire # <<>>
  /\ LET additions == Head(wire).numbers \ shown
         last == TerminalIn(additions)
     IN /\ shown' = LastOf(shown \union additions)
        /\ ended' = (Head(wire).terminal \/ TerminalIn(Head(wire).numbers) # {})
        /\ stopped' = (stopped \/ last # {})
        /\ current' = IF last = {} THEN current
                      ELSE CHOOSE s \in Terminal : EventOf(s) = events[Job][Max(last)]
        /\ calls' = IF last = {} THEN calls ELSE Called(calls, "final")
        /\ phase' = IF ended' THEN "closing" ELSE phase
        /\ wire' = IF ended' THEN <<>> ELSE Tail(wire)
        /\ subscribed' = (subscribed /\ ~ended')
  /\ UNCHANGED <<jobVars, polling, finished, notified, faults>>

\* Mutant: polling starts for a finished job too.
StartPollingAlways ==
  IF polling THEN UNCHANGED <<polling, calls>>
  ELSE polling' = TRUE /\ calls' = Called(calls, "poll")

\* startPolling.
StartPolling ==
  IF polling \/ finished # "no" THEN UNCHANGED <<polling, calls>>
  ELSE polling' = TRUE /\ calls' = Called(calls, "poll")

\* Mutant: only a connection to be retried is bridged by polling.
CloseEventQuiet ==
  /\ \/ phase = "closing"
     \/ phase = "lost" /\ wire = <<>>
  /\ phase' = IF stopped \/ ended THEN "none" ELSE "waiting"
  /\ subscribed' = FALSE
  /\ IF stopped \/ ended THEN UNCHANGED <<polling, calls>> ELSE StartPolling
  /\ UNCHANGED <<jobVars, wire, stopped, ended, current, shown, finished, notified,
                 faults>>

\* The socket's close event: state "closed" if the page or a terminal frame ended
\* the connection, otherwise "reconnecting" with a retry timer; both start polling.
CloseEvent ==
  /\ \/ phase = "closing"
     \/ phase = "lost" /\ wire = <<>>
  /\ phase' = IF stopped \/ ended THEN "none" ELSE "waiting"
  /\ subscribed' = FALSE
  /\ StartPolling
  /\ UNCHANGED <<jobVars, wire, stopped, ended, current, shown, finished, notified,
                 faults>>

\* The retry timer.
Reconnect ==
  /\ phase = "waiting"
  /\ phase' = "connecting"
  /\ UNCHANGED <<jobVars, subscribed, wire, stopped, ended, current, shown, polling,
                 calls, finished, notified, faults>>

\* The connection breaks: an attempt fails, or the frames after some prefix of
\* those in flight are gone, as when the panel's close overtakes them.
LinkLost ==
  /\ faults < MaxFaults
  /\ faults' = faults + 1
  /\ phase \in {"connecting", "accepted", "open"}
  /\ phase' = "lost"
  /\ \E n \in 0..(IF phase = "open" THEN Len(wire) ELSE 0) : wire' = SubSeq(wire, 1, n)
  /\ subscribed' = FALSE
  /\ UNCHANGED <<jobVars, stopped, ended, current, shown, polling, calls, finished,
                 notified>>

\* The interval: refreshJob, whether or not earlier calls have returned.
Poll ==
  /\ polling
  /\ calls' = Called(calls, "poll")
  /\ calls' # calls
  /\ UNCHANGED <<jobVars, phase, subscribed, wire, stopped, ended, current, shown,
                 polling, finished, notified, faults>>

\* The panel answers a call with the record as it is.
Answer(c) ==
  /\ calls[c].seen = "pending"
  /\ calls' = [calls EXCEPT ![c].seen = status[Job]]
  /\ UNCHANGED <<jobVars, phase, subscribed, wire, stopped, ended, current, shown,
                 polling, finished, notified, faults>>

\* Mutant: finish without its check for an earlier call.
FinishAgain(s) ==
  /\ finished' = s
  /\ notified' = notified + 1
  /\ polling' = FALSE
  /\ stopped' = TRUE
  /\ phase' = Closed(phase)
  /\ wire' = <<>>
  /\ subscribed' = FALSE
  /\ shown' = IF TerminalIn(shown) # {} THEN shown ELSE shown \union {Synthesized}

\* finish with a record of status s: once.
FinishJob(s) ==
  IF finished # "no"
  THEN UNCHANGED <<finished, notified, polling, stopped, phase, wire, subscribed, shown>>
  ELSE /\ finished' = s
       /\ notified' = notified + 1
       /\ polling' = FALSE
       /\ stopped' = TRUE
       /\ phase' = Closed(phase)
       /\ wire' = <<>>
       /\ subscribed' = FALSE
       /\ shown' = IF TerminalIn(shown) # {} THEN shown ELSE shown \union {Synthesized}

\* Mutant: every polled record finishes the job.
PollFinishes(c) ==
  /\ calls[c].for = "poll" /\ calls[c].seen # "pending"
  /\ current' = calls[c].seen
  /\ FinishJob(calls[c].seen)
  /\ calls' = [calls EXCEPT ![c] = Free]
  /\ UNCHANGED <<jobVars, ended, faults>>

\* A polled record arrives: it is shown, and finishes the job if terminal.
PollReturns(c) ==
  /\ calls[c].for = "poll" /\ calls[c].seen # "pending"
  /\ current' = calls[c].seen
  /\ IF calls[c].seen \in Terminal THEN FinishJob(calls[c].seen)
     ELSE UNCHANGED <<finished, notified, polling, stopped, phase, wire, subscribed, shown>>
  /\ calls' = [calls EXCEPT ![c] = Free]
  /\ UNCHANGED <<jobVars, ended, faults>>

\* The record asked for at a terminal event arrives.
FinalReturns(c) ==
  /\ calls[c].for = "final" /\ calls[c].seen # "pending"
  /\ current' = IF finished = "no" THEN calls[c].seen ELSE current
  /\ FinishJob(calls[c].seen)
  /\ calls' = [calls EXCEPT ![c] = Free]
  /\ UNCHANGED <<jobVars, ended, faults>>

\* A call fails: its catch ignores it.
CallFails(c) ==
  /\ faults < MaxFaults
  /\ faults' = faults + 1
  /\ calls[c] # Free
  /\ calls' = [calls EXCEPT ![c] = Free]
  /\ UNCHANGED <<jobVars, phase, subscribed, wire, stopped, ended, current, shown,
                 polling, finished, notified>>

StreamNext ==
  \/ RunnerStep \/ PanelRestart
  \/ ShowJob \/ Accept \/ Opened \/ Receive \/ CloseEvent \/ Reconnect \/ LinkLost \/ Poll
  \/ \E c \in Calls : Answer(c) \/ PollReturns(c) \/ FinalReturns(c) \/ CallFails(c)

StreamSpec == StreamInit /\ [][StreamNext]_streamVars

\* Timers fire, events are dispatched and requests are answered unless they are
\* among the faults.
StreamFairness ==
  /\ WF_streamVars(Accept) /\ WF_streamVars(Opened) /\ WF_streamVars(Receive)
  /\ WF_streamVars(CloseEvent) /\ WF_streamVars(Reconnect) /\ WF_streamVars(Poll)
  /\ \A c \in Calls : /\ WF_streamVars(Answer(c))
                      /\ WF_streamVars(PollReturns(c))
                      /\ WF_streamVars(FinalReturns(c))

StreamLiveSpec == StreamSpec /\ StreamFairness

-----------------------------------------------------------------------------
\* Every variable of the stream has its type.
StreamTypeOK ==
  /\ phase \in Phases
  /\ subscribed \in BOOLEAN /\ stopped \in BOOLEAN /\ ended \in BOOLEAN
  /\ polling \in BOOLEAN
  /\ \A i \in DOMAIN wire : /\ wire[i].numbers \subseteq DOMAIN events[Job]
                            /\ wire[i].terminal \in BOOLEAN
  /\ current \in {"none"} \union (Statuses \ {"absent"})
  /\ shown \subseteq {Synthesized} \union DOMAIN events[Job]
  /\ \A c \in Calls : /\ calls[c].for \in {"none", "poll", "final"}
                      /\ calls[c].seen \in {"none", "pending"} \union Statuses
  /\ finished \in {"no"} \union Terminal
  /\ notified \in Nat
  /\ faults \in 0..MaxFaults

\* The log shown has no hole: across lost frames, reconnections and overlapping
\* histories it is a run of consecutive events, the last Limit the page has seen.
LogHasNoHole ==
  LET numbers == shown \ {Synthesized}
  IN /\ Cardinality(numbers) <= Limit
     /\ \A m, n \in numbers : m..n \subseteq numbers

\* A live connection misses nothing: the newest event is shown or on the wire.
LiveLogIsComplete ==
  phase \in {"accepted", "open"} =>
    Len(events[Job]) \in shown \union UNION {wire[i].numbers : i \in DOMAIN wire}

\* onFinished is called once at most, with the status the job really has, and the
\* page shows exactly one terminal event by then, true to that status if it is one
\* of the job's.
FinishedOnceAndTrue ==
  /\ notified = (IF finished = "no" THEN 0 ELSE 1)
  /\ finished # "no" =>
       /\ finished = status[Job]
       /\ (Synthesized \in shown) # (TerminalIn(shown) # {})
       /\ \A n \in TerminalIn(shown) : events[Job][n] = EventOf(finished)

\* After it has finished the job the page neither polls nor reconnects.
QuietAfterFinish ==
  finished # "no" => ~polling /\ phase \in {"closing", "none"}

\* What the page shows of a job (useJobLogStream.ts, job-event-socket.ts): consecutive lines of its
\* log, the newest too while the connection lives, and nothing under way any more once the job is
\* finished.
PageInv == StreamTypeOK /\ LogHasNoHole /\ LiveLogIsComplete /\ QuietAfterFinish

\* A page that shows a job learns of its end, whatever frames, connections and
\* calls were lost and whatever event the panel failed to write.
PageLearnsTheEnd ==
  (current # "none" /\ status[Job] \in Terminal) ~> (finished = status[Job])
=============================================================================
