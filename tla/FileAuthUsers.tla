----------------------------- MODULE FileAuthUsers -----------------------------
(***************************************************************************)
(* The accounts of FileAuthSystem (auth-users.service.ts, auth.routes.ts).   *)
(* LaunchServer keeps them in memory and writes Database.json when it is     *)
(* told to save; the panel registers accounts and changes passwords by       *)
(* commands, and deletes one by editing the file and having it read again.   *)
(* An account is the number of the job that last changed it, 0 for none.     *)
(***************************************************************************)
EXTENDS ControlTransport, FiniteSets

CONSTANTS AccountJobs,  \* numbers of the jobs of a behaviour
          Listing,      \* the request that lists the accounts
          Names,        \* the names of accounts
          MaxEvents     \* bound: lists, cancellations and stops of LaunchServer

Unsaid == 99
Earlier == 9   \* an account that is there before the first job

ASSUME AccountsAssumption ==
    /\ MaxEvents \in Nat /\ AccountJobs \subseteq Nat \ {0, Earlier, Unsaid}
    /\ Listing \notin AccountJobs /\ Callers = AccountJobs \cup {Listing}

VARIABLES memory, \* memory[n]: the account n in LaunchServer
          disk,   \* disk[n]: the account n in Database.json
          work,   \* work[c]: what the job or the request c is doing
          said,   \* said[n]: the account n as the last job about it reported it, or Unsaid
          events  \* how many lists, cancellations and stops of LaunchServer there have been

accountVars == <<memory, disk, work, said, events>>
usersVars == <<controlVars, accountVars>>

\* Mutants: create ends without a save, delete without a reload.
RegisterUnsaved  == <<"exists", "register">>
RegisterAccount  == <<"exists", "register", "save">>
RemoveUnreloaded == <<"save", "read", "write">>
RemoveAccount    == <<"save", "read", "write", "reload">>

Plans ==
    [create |-> RegisterAccount, change |-> <<"exists", "change", "save">>, delete |-> RemoveAccount,
     list |-> <<"save", "read">>, inspect |-> <<"inspect">>]

Commands == {"exists", "register", "change", "save", "reload", "recheck"}

NoAccountWork == [op |-> "none", name |-> "none", at |-> 0, copy |-> <<>>, aborted |-> FALSE]

Busy(c) == work[c].op \in DOMAIN Plans

StepAt(c) == IF work[c].at = 0 THEN "recheck" ELSE Plans[work[c].op][work[c].at]

UsersInit ==
    /\ ControlInit
    /\ disk = [n \in Names |-> IF n = CHOOSE old \in Names : TRUE THEN Earlier ELSE 0]
    /\ memory = disk
    /\ said = disk
    /\ work = [c \in Callers |-> NoAccountWork]
    /\ events = {}

-----------------------------------------------------------------------------
Happens(e) == Cardinality(events) < MaxEvents /\ events' = events \cup {e} /\ e \notin events

(* Requests.  An account job is refused while another job of the installation is active: *)
(* one that was cancelled while it runs is active until its task has ended. *)
AccountActive == \E j \in AccountJobs : Busy(j)

RequestAccount(j) ==
    /\ work[j].op = "none" /\ ~AccountActive
    /\ \A i \in AccountJobs : i < j => work[i].op # "none"
    /\ \E op \in {"create", "change", "delete"}, n \in Names :
          /\ work' = [work EXCEPT ![j] = [NoAccountWork EXCEPT !.op = op, !.name = n, !.at = 1]]
          /\ said' = [said EXCEPT ![n] = Unsaid]
    /\ UNCHANGED <<controlVars, memory, disk, events>>

(* A page that lists the accounts, or one that only inspects LaunchServer, is no job. *)
RequestPage ==
    /\ work[Listing].op = "none"
    /\ \E op \in {"list", "inspect"} :
          /\ Happens(op)
          /\ work' = [work EXCEPT ![Listing] = [NoAccountWork EXCEPT !.op = op, !.at = 1]]
    /\ UNCHANGED <<controlVars, memory, disk, said>>

CancelAccount(j) ==
    /\ Busy(j) /\ ~work[j].aborted
    /\ Happens("cancel")
    /\ work' = [work EXCEPT ![j].aborted = TRUE]
    /\ UNCHANGED <<controlVars, memory, disk, said>>

-----------------------------------------------------------------------------
(* Steps.  Before each one but the first, and at the end, the job reports its progress, *)
(* which throws when it was cancelled. *)

Leave(c) == work' = [work EXCEPT ![c] = [@ EXCEPT !.op = "over", !.at = 0, !.copy = <<>>]]

Onto(c, copy) ==
    IF work[c].aborted THEN Leave(c) /\ UNCHANGED said
    ELSE IF work[c].at < Len(Plans[work[c].op])
    THEN work' = [work EXCEPT ![c].at = @ + 1, ![c].copy = copy] /\ UNCHANGED said
    ELSE /\ Leave(c)
         /\ said' = IF c = Listing THEN said
                    ELSE [said EXCEPT ![work[c].name] = IF work[c].op = "delete" THEN 0 ELSE c]

Proceed(c) == Onto(c, work[c].copy)

SendCommand(c) ==
    /\ Busy(c)
    /\ \/ StepAt(c) \in Commands /\ Execute(c, StepAt(c))
       \/ StepAt(c) = "inspect" /\ Inspect(c)
    /\ UNCHANGED accountVars

(* create finds the account, or change does not; a failed registration is looked at again. *)
TakeAnswer(c) ==
    /\ Busy(c) /\ call[c].phase = "over"
    /\ call' = Taken(c)
    /\ LET step == StepAt(c)
           good == CASE step = "exists" -> call[c].answer = IF work[c].op = "create" THEN "no" ELSE "yes"
                     [] step = "recheck" -> FALSE
                     [] OTHER -> call[c].answer = "yes"
       IN  IF good THEN Proceed(c)
           ELSE /\ IF step = "register" THEN work' = [work EXCEPT ![c].at = 0] ELSE Leave(c)
                /\ UNCHANGED said
    /\ UNCHANGED <<active, socket, accepted, memory, disk, events>>

ReadDatabase(c) ==
    /\ Busy(c) /\ StepAt(c) = "read"
    /\ IF work[c].op = "delete"
       THEN IF disk[work[c].name] = 0 THEN Leave(c) /\ UNCHANGED said
            ELSE Onto(c, [disk EXCEPT ![work[c].name] = 0])
       ELSE Proceed(c)
    /\ UNCHANGED <<controlVars, memory, disk, events>>

WriteDatabase(c) ==
    /\ Busy(c) /\ StepAt(c) = "write"
    /\ disk' = work[c].copy
    /\ Proceed(c)
    /\ UNCHANGED <<controlVars, memory, events>>

(* Compose exec of a read or a write fails. *)
VolumeFails(c) ==
    /\ Busy(c) /\ StepAt(c) \in {"read", "write"}
    /\ Leave(c)
    /\ UNCHANGED <<controlVars, memory, disk, said, events>>

-----------------------------------------------------------------------------
(* LaunchServer: what a command does, and what it answers. *)

(* What command cmd does for account n when LaunchServer runs it for job c. *)
Known(n) == memory[n] # 0

Replies(cmd, n) ==
    CASE cmd = "exists"   -> IF Known(n) THEN "yes" ELSE "no"
      [] cmd = "register" -> IF Known(n) THEN "rejected" ELSE "yes"
      [] cmd = "change"   -> IF Known(n) THEN "yes" ELSE "rejected"
      [] OTHER            -> "yes"

Runs(cmd, n, c) ==
    /\ memory' = CASE cmd = "register" /\ ~Known(n) -> [memory EXCEPT ![n] = c]
                   [] cmd = "change" /\ Known(n)    -> [memory EXCEPT ![n] = c]
                   [] cmd = "reload"                -> disk
                   [] OTHER                         -> memory
    /\ disk' = IF cmd = "save" THEN memory ELSE disk

RunCommand ==
    /\ accepted # <<>>
    /\ LET e == Head(accepted)
           n == work[e.by].name
       IN  Answered(Replies(e.cmd, n)) /\ Runs(e.cmd, n, e.by)
    /\ UNCHANGED <<work, said, events>>

(* A LaunchServer that is asked to stop saves its accounts; one that is killed does not. *)
ServerStops ==
    /\ Stops /\ Happens("stop")
    /\ disk' \in {disk, memory} /\ memory' = disk'
    /\ UNCHANGED <<work, said>>

ServerStarts == Starts /\ UNCHANGED accountVars

Calling(c) ==
    /\ RemoteEnds(c) \/ Probe(c) \/ ProbeFails(c) \/ Connect(c) \/ GiveUp(c) \/ TimesOut(c)
    /\ UNCHANGED accountVars

UsersNext ==
    \/ RequestPage \/ RunCommand \/ ServerStops \/ ServerStarts
    \/ \E j \in AccountJobs : RequestAccount(j) \/ CancelAccount(j)
    \/ \E c \in Callers :
          SendCommand(c) \/ TakeAnswer(c) \/ ReadDatabase(c) \/ WriteDatabase(c)
          \/ VolumeFails(c) \/ Calling(c)

(* Timers fire, child processes end, and what is awaited goes on; LaunchServer may hang. *)
UsersFairness ==
    \A c \in Callers :
       /\ WF_usersVars(SendCommand(c) \/ TakeAnswer(c) \/ ReadDatabase(c) \/ WriteDatabase(c))
       /\ WF_usersVars((RemoteEnds(c) \/ Probe(c) \/ Connect(c) \/ GiveUp(c) \/ TimesOut(c)) /\ UNCHANGED accountVars)

UsersSpec == UsersInit /\ [][UsersNext]_usersVars /\ UsersFairness

-----------------------------------------------------------------------------
(* Properties *)

\* An account that a job reported as registered or changed is in LaunchServer and in
\* Database.json as that job left it, whatever is created, deleted, listed or cancelled
\* meanwhile.  Not so when LaunchServer dies before the save.
ReportedIsKept ==
    events \subseteq {"list", "inspect", "cancel"} =>
       \A n \in Names : said[n] \in AccountJobs => memory[n] = said[n] /\ disk[n] = said[n]

\* An account that a job reported as deleted is gone from LaunchServer and from
\* Database.json, unless somebody listed the accounts or LaunchServer was stopped meanwhile:
\* both write the file from memory, where the account is until the file is read again.
DeletedStaysGone ==
    events \subseteq {"inspect", "cancel"} =>
       \A n \in Names : said[n] = 0 => memory[n] = 0 /\ disk[n] = 0

\* What the panel has reported of an account lasts, in LaunchServer and on its disk
\* (auth-users.service.ts:99); each part says what may not come in between.
AccountsAreAsReported == ReportedIsKept /\ DeletedStaysGone

\* Every job or request about accounts comes to its end, also when LaunchServer never answers
\* and when its socket never appears: one that did not would be busy for ever.
AccountWorkEnds == []<>(\A c \in Callers : ~Busy(c))
=============================================================================
