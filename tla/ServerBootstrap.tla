--------------------------- MODULE ServerBootstrap ---------------------------
(***************************************************************************)
(* Preparing and issuing the installation of one managed server: the row   *)
(* of server_bindings, its server_bootstrap_drafts, the jobs of the        *)
(* installation that touch them and the HTTP requests that are suspended   *)
(* at an await between a check and a write.  The API is one JavaScript     *)
(* thread and SQLite is synchronous: an action is what a handler or a task *)
(* does between two awaits.                                                *)
(*                                                                         *)
(* Artifacts, tokens and paths are abstracted: a bundle is what it was     *)
(* made from, and a draft's claim, which is issued at most once, is the    *)
(* draft.  A claim that fail() leaves in a failed row is never accepted.   *)
(***************************************************************************)
EXTENDS Integers, Sequences, FiniteSets

CONSTANTS
  Values,         \* what the bootstrap settings of a binding may be
  NumDrafts,      \* bound: drafts created in a behaviour
  Slots,          \* bound: jobs active at a time
  Calls,          \* bound: requests suspended at a time
  MaxProfiles,    \* bound: rebuilds of the client profile
  MaxRestarts,    \* bound: restarts of the API process
  MaxRuns,        \* bound: scripts served
  Faults          \* subset of {"cancel"}

ASSUME ValuesAssumption == Values # {} /\ "removed" \notin Values /\ "none" \notin Values
ASSUME BoundsAssumption ==
  {NumDrafts, MaxProfiles, MaxRestarts, MaxRuns} \subseteq Nat

VARIABLES
  config,         \* the binding's bootstrap settings, or Removed for no row
  state,          \* its deployment_state
  credential,     \* the run whose updater token it accepts, or 0
  applied,        \* history: the draft of its last report 'installed', or 0
  handed,         \* history: drafts whose claim was issued
  profile,        \* version of the client profile the binding belongs to
  draft,          \* server_bootstrap_drafts.status, "absent" for no row
  made,           \* the settings and profile a draft's bundle was made from
  created,        \* number of drafts created so far
  jobs,           \* the active jobs of the installation
  calls,          \* the suspended requests
  runs,           \* draft of each script served so far
  restarts        \* restarts of the API process so far

bootstrapVars == <<config, state, credential, applied, handed, profile, draft, made,
                   created, jobs, calls, runs, restarts>>
rowVars == <<config, state, credential, applied, handed, draft, made, created>>

Drafts == 1..NumDrafts
Removed == "removed"
States == {"pending", "ready", "requires-update", "installed", "failed"}
Live(d) == draft[d] \in {"issued", "claimed"}
OpenStatuses == {"preparing", "ready", "issued", "claimed"}
Statuses == {"absent", "installed", "failed"} \union OpenStatuses

NoBundle == [boot |-> "none", profile |-> 0]
Unread == -1

\* A job: its operation, the draft it prepares, the settings it was created
\* with or has read, the profile it has read, where it is suspended, the
\* deployment state it is going to write and whether its signal is aborted.
NoJob == [op |-> "none", draft |-> 0, boot |-> "none", profile |-> Unread,
          step |-> "none", keep |-> "none", aborted |-> FALSE]
Job(op, d, boot, step) ==
  [NoJob EXCEPT !.op = op, !.draft = d, !.boot = boot, !.step = step]

\* A request: what it does with which draft, the bundle it has read there, the
\* profile it has read, and where it is suspended.
NoCall == [op |-> "none", draft |-> 0, bundle |-> NoBundle, profile |-> Unread,
           step |-> "none"]

BootstrapInit ==
  /\ config \in Values
  /\ state = "pending"
  /\ credential = 0
  /\ applied = 0
  /\ handed = {}
  /\ profile = 0
  /\ draft = [d \in Drafts |-> "absent"]
  /\ made = [d \in Drafts |-> NoBundle]
  /\ created = 0
  /\ jobs = [j \in Slots |-> NoJob]
  /\ calls = [c \in Calls |-> NoCall]
  /\ runs = <<>>
  /\ restarts = 0

\* activeJobForInstallation
Busy == \E j \in Slots : jobs[j] # NoJob

\* jobsRunner.create
Started(job) == \E j \in Slots : jobs[j] = NoJob /\ jobs' = [jobs EXCEPT ![j] = job]
Ended(j) == [jobs EXCEPT ![j] = NoJob]

\* The rows after invalidateBinding, and after a status is written to one row.
Invalidated ==
  [d \in Drafts |-> IF draft[d] \in OpenStatuses THEN "failed" ELSE draft[d]]
Written(d, s) == IF draft[d] = "absent" THEN draft ELSE [draft EXCEPT ![d] = s]

\* setState: nothing to write once the row is gone.
StateWritten(s) == IF config = Removed THEN state ELSE s

-----------------------------------------------------------------------------
\* Requests that create a job of the installation at once.

\* Mutant: an update does not look for an active job.
UpdateRequestUnchecked(v) ==
  /\ config # Removed
  /\ Started(Job("update", 0, v, "reading"))
  /\ UNCHANGED <<rowVars, profile, calls, runs, restarts>>

\* The update route; its task goes up to apply's getProfile.
UpdateRequest(v) ==
  /\ ~Busy
  /\ config # Removed
  /\ Started(Job("update", 0, v, "reading"))
  /\ UNCHANGED <<rowVars, profile, calls, runs, restarts>>

\* The remove route; its task goes up to the profile file being rewritten.
RemoveRequest ==
  /\ ~Busy
  /\ config # Removed
  /\ Started(Job("remove", 0, "none", "writing"))
  /\ UNCHANGED <<rowVars, profile, calls, runs, restarts>>

\* A job that rewrites the client profile and knows nothing of bindings: a build or
\* an edit of the clients module, which looks for an active job, or a job of the mods
\* module, which does not.
ClientRequest ==
  /\ profile < MaxProfiles
  /\ Started(Job("client", 0, "none", "writing"))
  /\ UNCHANGED <<rowVars, profile, calls, runs, restarts>>

\* JobsRunner.cancel of a job that runs.
Cancel(j) ==
  /\ "cancel" \in Faults
  /\ jobs[j] # NoJob /\ ~jobs[j].aborted
  /\ jobs' = [jobs EXCEPT ![j].aborted = TRUE]
  /\ UNCHANGED <<rowVars, profile, calls, runs, restarts>>

-----------------------------------------------------------------------------
\* The tasks.

\* An update ends before it has written anything: its settings are unchanged,
\* its signal was aborted, or the profile file could not be replaced (and was
\* put back).
UpdateEnds(j) ==
  /\ jobs[j].op = "update"
  /\ jobs' = Ended(j)
  /\ UNCHANGED <<rowVars, profile, calls, runs, restarts>>

\* apply compares: only what is not part of the bootstrap (the default flag, the
\* pack) may differ, then the state to keep is the one of now.  If the server
\* list of the profile has to change, replaceProfileServers is awaited.
UpdateCompares(j) ==
  /\ jobs[j].op = "update" /\ jobs[j].step = "reading"
  /\ ~jobs[j].aborted
  /\ config # Removed
  /\ \E keep \in IF jobs[j].boot = config THEN {state, "requires-update"}
                 ELSE {"requires-update"} :
       jobs' = [jobs EXCEPT ![j].step = "writing", ![j].keep = keep]
  /\ UNCHANGED <<rowVars, profile, calls, runs, restarts>>

\* Mutant: the update's caller does not invalidate the drafts.
UpdateSavesOnly(j) ==
  /\ jobs[j].op = "update" /\ jobs[j].step = "writing"
  /\ config' = jobs[j].boot
  /\ state' = jobs[j].keep
  /\ jobs' = Ended(j)
  /\ UNCHANGED <<credential, applied, handed, draft, made, created, profile, calls, runs, restarts>>

\* apply saves the row; then progress throws if the job was cancelled, and only
\* otherwise the route invalidates the drafts of the old settings.  save inserts a
\* row that is gone.
UpdateSaves(j) ==
  /\ jobs[j].op = "update" /\ jobs[j].step = "writing"
  /\ config' = jobs[j].boot
  /\ state' = jobs[j].keep
  /\ draft' = IF jobs[j].boot = config \/ jobs[j].aborted THEN draft ELSE Invalidated
  /\ jobs' = Ended(j)
  /\ UNCHANGED <<credential, applied, handed, made, created, profile, calls, runs, restarts>>

\* Mutant: a remove marks the row where it should delete it.
RemoveMarks(j) ==
  /\ jobs[j].op = "remove"
  /\ config' = Removed
  /\ state' = "removed"
  /\ draft' = [d \in Drafts |-> "absent"]
  /\ jobs' = Ended(j)
  /\ UNCHANGED <<credential, applied, handed, made, created, profile, calls, runs, restarts>>

\* remove deletes the row, and with it the drafts (ON DELETE CASCADE).
RemoveDeletes(j) ==
  /\ jobs[j].op = "remove"
  /\ config' = Removed
  /\ draft' = [d \in Drafts |-> "absent"]
  /\ jobs' = Ended(j)
  /\ UNCHANGED <<state, credential, applied, handed, made, created, profile, calls, runs, restarts>>

\* Any other end of a remove, of an upload or of a client job, the latter with a
\* new profile or without one.
OtherEnds(j) ==
  /\ jobs[j].op \in {"remove", "upload", "client"}
  /\ jobs' = Ended(j)
  /\ \/ UNCHANGED profile
     \/ jobs[j].op = "client" /\ profile < MaxProfiles /\ profile' = profile + 1
  /\ UNCHANGED <<rowVars, calls, runs, restarts>>

\* prepare awaits getProfile.
PrepareReads(j) ==
  /\ jobs[j].op = "prepare" /\ jobs[j].step = "reading"
  /\ jobs' = [jobs EXCEPT ![j].profile = profile, ![j].step = "working"]
  /\ UNCHANGED <<rowVars, profile, calls, runs, restarts>>

\* prepare has made its artifacts: the draft is ready whatever its status is
\* now, and so is the binding; the staging directory is then removed.
PrepareReady(j) ==
  /\ jobs[j].op = "prepare" /\ jobs[j].step = "working"
  /\ LET d == jobs[j].draft
     IN /\ draft' = Written(d, "ready")
        /\ made' = [made EXCEPT ![d] = [boot |-> jobs[j].boot, profile |-> jobs[j].profile]]
  /\ state' = StateWritten("ready")
  /\ jobs' = [jobs EXCEPT ![j].step = IF jobs[j].aborted THEN "unwinding" ELSE "closing"]
  /\ UNCHANGED <<config, credential, applied, handed, created, profile, calls, runs, restarts>>

\* prepare returns.
PrepareReturns(j) ==
  /\ jobs[j].op = "prepare" /\ jobs[j].step = "closing"
  /\ jobs' = Ended(j)
  /\ UNCHANGED <<rowVars, profile, calls, runs, restarts>>

\* Mutant: prepare throws without failing its draft.
PrepareThrowsOnly(j) ==
  /\ jobs[j].op = "prepare" /\ jobs[j].step \in {"reading", "working", "closing", "unwinding"}
  /\ state' = StateWritten("failed")
  /\ jobs' = Ended(j)
  /\ UNCHANGED <<config, credential, applied, handed, draft, made, created, profile, calls, runs, restarts>>

\* prepare throws, on its way, from the progress call after it was ready or because
\* the staging directory cannot be removed: the draft fails whatever its status is
\* now, and so does the binding.
PrepareThrows(j) ==
  /\ jobs[j].op = "prepare" /\ jobs[j].step \in {"reading", "working", "closing", "unwinding"}
  /\ draft' = Written(jobs[j].draft, "failed")
  /\ state' = StateWritten("failed")
  /\ jobs' = Ended(j)
  /\ UNCHANGED <<config, credential, applied, handed, made, created, profile, calls, runs, restarts>>

-----------------------------------------------------------------------------
\* Requests with an await between their check and their write.

Suspended(call) == \E c \in Calls : calls[c] = NoCall /\ calls' = [calls EXCEPT ![c] = call]
Resumed(c) == [calls EXCEPT ![c] = NoCall]

\* The prepare and upload routes see no active job, then await the agent's
\* artifacts or the body of the request.
JobRequest(op) ==
  /\ ~Busy
  /\ config # Removed
  /\ Suspended([NoCall EXCEPT !.op = op, !.step = "waiting"])
  /\ UNCHANGED <<rowVars, profile, jobs, runs, restarts>>

\* The upload route creates its job.
UploadCreates(c) ==
  /\ calls[c].op = "upload"
  /\ calls' = Resumed(c)
  /\ Started(Job("upload", 0, "none", "writing"))
  /\ UNCHANGED <<rowVars, profile, runs, restarts>>

\* The prepare route creates draft and job; the task reads draft and binding.
PrepareCreates(c) ==
  /\ calls[c].op = "prepare"
  /\ config # Removed
  /\ created < NumDrafts
  /\ calls' = Resumed(c)
  /\ created' = created + 1
  /\ draft' = [draft EXCEPT ![created'] = "preparing"]
  /\ Started(Job("prepare", created', config, "reading"))
  /\ UNCHANGED <<config, state, credential, applied, handed, made, profile, runs, restarts>>

\* A request is answered without effect: artifacts are missing, a body cannot be
\* read, the binding is gone, the profile cannot be read, the control socket
\* gives no token.
CallFails(c) ==
  /\ calls[c] # NoCall
  /\ calls' = Resumed(c)
  /\ UNCHANGED <<rowVars, profile, jobs, runs, restarts>>

\* issue reads the draft, of any status, then awaits getProfile.
IssueRequest(d) ==
  /\ draft[d] # "absent"
  /\ Suspended([op |-> "issue", draft |-> d, bundle |-> made[d], profile |-> Unread,
                step |-> "reading"])
  /\ UNCHANGED <<rowVars, profile, jobs, runs, restarts>>

\* start takes the claim, of a command that was issued, then awaits getProfile.
StartRequest(d) ==
  /\ Live(d)
  /\ draft' = [draft EXCEPT ![d] = "claimed"]
  /\ Suspended([op |-> "start", draft |-> d, bundle |-> made[d], profile |-> Unread,
                step |-> "reading"])
  /\ UNCHANGED <<config, state, credential, applied, handed, made, created, profile, jobs, runs, restarts>>

\* getProfile reads the file.
CallReads(c) ==
  /\ calls[c].step = "reading" /\ calls[c].profile = Unread
  /\ calls' = [calls EXCEPT ![c].profile = profile]
  /\ UNCHANGED <<rowVars, profile, jobs, runs, restarts>>

\* assertDraftCurrent: a bundle that was not made yet differs as well.
Changed(c) == calls[c].bundle # [boot |-> config, profile |-> calls[c].profile]
Compares(c) ==
  calls[c].step = "reading" /\ calls[c].profile # Unread /\ config # Removed

\* issue and start refuse a draft that is not current, and all of its binding.
CallInvalidates(c) ==
  /\ Compares(c)
  /\ Changed(c)
  /\ draft' = Invalidated
  /\ calls' = Resumed(c)
  /\ UNCHANGED <<config, state, credential, applied, handed, made, created, profile, jobs, runs, restarts>>

\* Mutant: a draft may be issued again.
IssueAgain(c) ==
  /\ calls[c].op = "issue"
  /\ Compares(c)
  /\ ~Changed(c)
  /\ draft' = Written(calls[c].draft, "issued")
  /\ handed' = handed \union {calls[c].draft}
  /\ calls' = Resumed(c)
  /\ UNCHANGED <<config, state, credential, applied, made, created, profile, jobs, runs, restarts>>

\* issue: a ready draft gets its claim.
Issue(c) ==
  /\ calls[c].op = "issue"
  /\ Compares(c)
  /\ ~Changed(c)
  /\ draft[calls[c].draft] = "ready"
  /\ draft' = [draft EXCEPT ![calls[c].draft] = "issued"]
  /\ handed' = handed \union {calls[c].draft}
  /\ calls' = Resumed(c)
  /\ UNCHANGED <<config, state, credential, applied, made, created, profile, jobs, runs, restarts>>

\* start awaits createServerToken.
StartCompares(c) ==
  /\ calls[c].op = "start"
  /\ Compares(c)
  /\ ~Changed(c)
  /\ calls' = [calls EXCEPT ![c].step = "token"]
  /\ UNCHANGED <<rowVars, profile, jobs, runs, restarts>>

\* start answers with the script, whatever has become of the claim.
StartServes(c) ==
  /\ calls[c].step = "token"
  /\ Len(runs) < MaxRuns
  /\ draft[calls[c].draft] # "absent"
  /\ runs' = Append(runs, calls[c].draft)
  /\ calls' = Resumed(c)
  /\ UNCHANGED <<rowVars, profile, jobs, restarts>>

\* revoke does not know drafts in preparation.
Revoke(d) ==
  /\ draft[d] \in {"ready", "issued", "claimed"}
  /\ draft' = [draft EXCEPT ![d] = "failed"]
  /\ UNCHANGED <<config, state, credential, applied, handed, made, created, profile, jobs, calls, runs,
                 restarts>>

\* Mutant: a report is accepted whether or not the claim is live.
ReportAlways(r, s) ==
  LET d == runs[r]
  IN IF draft[d] = "absent"
     THEN UNCHANGED <<draft, state, credential, applied>>
     ELSE /\ draft' = [draft EXCEPT ![d] = s]
          /\ state' = s
          /\ credential' = IF s = "installed" THEN r ELSE credential
          /\ applied' = IF s = "installed" THEN d ELSE applied

\* report of run r: the claim ends, the binding gets state and updater token.
Report(r, s) ==
  LET d == runs[r]
  IN IF ~Live(d)
     THEN UNCHANGED <<draft, state, credential, applied>>
     ELSE /\ draft' = [draft EXCEPT ![d] = s]
          /\ state' = s
          /\ credential' = IF s = "installed" THEN r ELSE credential
          /\ applied' = IF s = "installed" THEN d ELSE applied

\* A machine that runs a script reports.
MachineReports(r, s) ==
  /\ Report(r, s)
  /\ UNCHANGED <<config, handed, made, created, profile, jobs, calls, runs, restarts>>

\* The API process restarts: jobs and requests are gone, the rows are as they are.
\* A crash between two writes of one handler is left out.
ApiRestart ==
  /\ restarts < MaxRestarts
  /\ restarts' = restarts + 1
  /\ jobs' = [j \in Slots |-> NoJob]
  /\ calls' = [c \in Calls |-> NoCall]
  /\ UNCHANGED <<rowVars, profile, runs>>

PanelStep ==
  \/ RemoveRequest \/ ClientRequest \/ ApiRestart
  \/ \E v \in Values : UpdateRequest(v)
  \/ \E op \in {"prepare", "upload"} : JobRequest(op)
  \/ \E j \in Slots :
       \/ Cancel(j) \/ UpdateEnds(j) \/ UpdateCompares(j) \/ UpdateSaves(j)
       \/ RemoveDeletes(j) \/ OtherEnds(j)
       \/ PrepareReads(j) \/ PrepareReady(j) \/ PrepareReturns(j) \/ PrepareThrows(j)
  \/ \E c \in Calls :
       \/ UploadCreates(c) \/ PrepareCreates(c) \/ CallFails(c) \/ CallReads(c)
       \/ CallInvalidates(c) \/ Issue(c) \/ StartCompares(c) \/ StartServes(c)
  \/ \E d \in Drafts : IssueRequest(d) \/ StartRequest(d) \/ Revoke(d)

BootstrapNext ==
  \/ PanelStep
  \/ \E r \in DOMAIN runs, s \in {"installed", "failed"} : MachineReports(r, s)

BootstrapSpec == BootstrapInit /\ [][BootstrapNext]_bootstrapVars

\* A preparation that runs goes on: it reads files, downloads under deadlines and
\* removes a directory.
BootstrapFairness ==
  \A j \in Slots :
    /\ WF_bootstrapVars(PrepareReads(j))
    /\ WF_bootstrapVars(PrepareReady(j) \/ PrepareThrows(j))
    /\ WF_bootstrapVars(PrepareReturns(j))

BootstrapLiveSpec == BootstrapSpec /\ BootstrapFairness

-----------------------------------------------------------------------------
JobOps == {"none", "update", "remove", "client", "upload", "prepare"}
JobSteps == {"none", "reading", "writing", "working", "closing", "unwinding"}
CallOps == {"none", "prepare", "upload", "issue", "start"}
CallSteps == {"none", "waiting", "reading", "token"}
Profiles == 0..MaxProfiles
Bundles == [boot : Values \union {"none"}, profile : Profiles \union {Unread}]
JobRecords ==
  [op : JobOps, draft : Drafts \union {0}, boot : Values \union {"none"},
   profile : Profiles \union {Unread}, step : JobSteps, keep : States \union {"none"},
   aborted : BOOLEAN]
CallRecords ==
  [op : CallOps, draft : Drafts \union {0}, bundle : Bundles,
   profile : Profiles \union {Unread}, step : CallSteps]

\* Every variable has its type.
BootstrapTypeOK ==
  /\ config \in Values \union {Removed}
  /\ state \in States
  /\ credential \in 0..Len(runs)
  /\ applied \in Drafts \union {0}
  /\ handed \subseteq Drafts
  /\ profile \in Profiles
  /\ draft \in [Drafts -> Statuses]
  /\ made \in [Drafts -> Bundles]
  /\ created \in 0..NumDrafts
  /\ jobs \in [Slots -> JobRecords]
  /\ calls \in [Calls -> CallRecords]
  /\ runs \in Seq(Drafts)
  /\ restarts \in 0..MaxRestarts

\* A command that is out installs the settings the binding has: 'Server binding
\* changed; prepare a new bootstrap bundle' (servers.routes.ts:334).
LiveClaimIsCurrent ==
  \A d \in Drafts : Live(d) => made[d].boot = config

\* A binding shown as installed runs with the settings it has, whatever
\* preparation, update and report came in between.
InstalledIsCurrent ==
  state = "installed" /\ config # Removed => applied # 0 /\ made[applied].boot = config

\* What a remove has deleted stays deleted, the row and its drafts, also when an
\* update was on its way (its save would insert the row again), and whatever
\* preparations, claims and jobs of the clients and mods run beside.
RemovedStays ==
  [][config = Removed => UNCHANGED <<config, draft>>]_bootstrapVars

\* A claim that was reported, revoked or invalidated is never accepted again, also
\* when its preparation, a request or a second report is still under way.
NoClaimRevived ==
  [][\A d \in handed : ~Live(d) =>
       draft'[d] \notin {"preparing", "ready", "issued", "claimed"}]_bootstrapVars

\* A preparation ends: ready or failed, also when its job is cancelled or its
\* binding is changed or removed meanwhile.
PreparationEnds ==
  \A d \in Drafts : draft[d] = "preparing" ~> draft[d] # "preparing"
-----------------------------------------------------------------------------
\* The inductive invariants: TypeInv of the types, IssuedInv of the claims and, for
\* behaviours in which no job is cancelled, CurrentInv of the commands and of what
\* is shown as installed.

WriterOps == {"update", "remove"}
Writers == {j \in Slots : jobs[j].op \in WriterOps}
Preparations == {j \in Slots : jobs[j].op = "prepare"}
Making == {j \in Preparations : jobs[j].step \in {"reading", "working"}}
Comparing == {c \in Calls : calls[c].op = "issue" /\ calls[c].bundle.boot # "none"}
Keeping ==
  {j \in Slots : /\ jobs[j].op = "update" /\ jobs[j].step = "writing"
                 /\ jobs[j].keep # "requires-update"}

\* No job is cancelled.
NothingAborted == \A j \in Slots : ~jobs[j].aborted

\* Of the jobs that write the row one is active at a time: they were let in when
\* there was no other job.
OneWriter == \A i, j \in Writers : i = j

\* An update was asked for with settings, and writes a state it has chosen.
JobsReady ==
  \A j \in Slots :
    /\ jobs[j].op = "update" => jobs[j].boot \in Values
    /\ jobs[j].op = "update" /\ jobs[j].step = "writing" => jobs[j].keep \in States

\* Of a binding that is gone there is no draft, and no update is going to save it.
RemovalStands ==
  config = Removed =>
    /\ \A d \in Drafts : draft[d] = "absent"
    /\ \A j \in Slots : jobs[j].op = "update" => jobs[j].step # "writing"

\* What issue and start suspend has a draft, and nothing else reads one.
CallsReady ==
  \A c \in Calls :
    /\ calls[c].op \in {"issue", "start"} => calls[c].draft \in Drafts
    /\ calls[c].step \in {"reading", "token"} => calls[c].op \in {"issue", "start"}

\* A draft has one preparation, which makes its bundle once and for settings that
\* were those of the binding at the time.
PreparationsApart ==
  /\ \A d \in Drafts : d > created => draft[d] = "absent" /\ made[d].boot = "none"
  /\ \A j \in Preparations : jobs[j].draft \in 1..created /\ jobs[j].boot \in Values
  /\ \A i, j \in Preparations : jobs[i].draft = jobs[j].draft => i = j
  /\ \A j \in Making : made[jobs[j].draft].boot = "none"

\* What a request has read of a finished bundle is still the draft's bundle.
BundleStands == \A c \in Comparing : calls[c].bundle = made[calls[c].draft]

\* An update that is going to write a state it has read leaves the settings alone,
\* and if that state is 'installed' they are the installed ones.
KeptStateFits ==
  \A j \in Keeping :
    /\ jobs[j].boot = config
    /\ jobs[j].keep = "installed" => applied # 0 /\ made[applied].boot = config

\* A draft that was issued is never prepared again nor shown as ready, and one that
\* a preparation still works on was neither issued nor finished.
ClaimsSpent ==
  /\ handed \subseteq 1..created
  /\ \A d \in handed : draft[d] \notin {"preparing", "ready"}
  /\ \A j \in Making : /\ jobs[j].draft \notin handed
                       /\ draft[jobs[j].draft] \in {"preparing", "failed", "absent"}

TypeInv == BootstrapTypeOK /\ OneWriter /\ JobsReady /\ CallsReady /\ RemovalStands

IssuedInv == TypeInv /\ PreparationsApart /\ ClaimsSpent

CurrentInv ==
  /\ TypeInv
  /\ NothingAborted /\ PreparationsApart /\ BundleStands /\ KeptStateFits
  /\ LiveClaimIsCurrent /\ InstalledIsCurrent
=============================================================================
