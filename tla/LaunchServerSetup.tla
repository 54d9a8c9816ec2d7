--------------------------- MODULE LaunchServerSetup ---------------------------
(***************************************************************************)
(* The LaunchServer of a panel comes and goes: docker.routes.ts,             *)
(* launcherdockered.service.ts, installations.store.ts.  A setup job clones  *)
(* the project to the path that the panel manages, or takes one that exists; *)
(* what it cloned carries a marker until LaunchServer is ready.  A step of a *)
(* job is one await.  Cancelling a job that runs aborts its signal: the job  *)
(* stays active until its task looks at the signal and ends, and every line  *)
(* that it logs is such a look.                                              *)
(***************************************************************************)
EXTENDS Naturals, Sequences

CONSTANTS SetupJobs,      \* numbers of the jobs that may be under way together
          MaxSetupFaults, \* bound: removals and rollbacks that fail, crashes of the API
          MaxCancels      \* bound: cancelled jobs

ASSUME SetupAssumption == MaxSetupFaults \in Nat /\ MaxCancels \in Nat

VARIABLES tree,    \* tree[p]: the project at the path p
          boxes,   \* boxes[p]: has the project at p containers and volumes
          row,     \* the path of the registered installation, or "none"
          works,   \* works[j]: the job j
          mishaps, \* how many faults there have been
          cancels  \* how many cancellations there have been

setupVars == <<tree, boxes, row, works, mishaps, cancels>>

Paths == {"managed", "external"}
Modes == {"clone", "import", "attach"}

\* A tree is "none", "marked" (cloned and not known to run), "plain", or "ruined", which is
\* what a removal that failed midway leaves.

\* Mutant: the marker goes as soon as the containers are up.
CloneUnmarkedFirst ==
    <<"look", "clone", "place", "validate", "env", "up", "unmark", "ready", "urls", "register", "provision">>

CloneSteps ==
    <<"look", "clone", "place", "validate", "env", "up", "ready", "urls", "unmark", "register", "provision">>

(* The awaits of install by mode, with the route's job after it, and of a removal. *)
Plan ==
    [clone  |-> CloneSteps,
     import |-> <<"inspect", "validate", "env", "up", "ready", "urls", "register", "provision">>,
     attach |-> <<"inspect", "validate", "ready", "register", "provision">>,
     remove |-> <<"exists", "stop", "own", "down", "erase", "unregister">>]

NoWork == [mode |-> "none", at |-> 0, path |-> "managed", aborted |-> FALSE, back |-> "no"]

Working(j) == works[j].mode # "none"

(* Where the job is: at a step of its plan, or in a rollback that began there. *)
StepOf(j) == IF works[j].back = "no" THEN Plan[works[j].mode][works[j].at] ELSE works[j].back

SetupInit ==
    /\ tree = [p \in Paths |-> IF p = "external" THEN "plain" ELSE "none"]
    /\ boxes = [p \in Paths |-> p = "external"]
    /\ row = "none"
    /\ works = [j \in SetupJobs |-> NoWork]
    /\ mishaps = 0 /\ cancels = 0

-----------------------------------------------------------------------------
(* Routes *)

\* Mutant: the setup route does not look for an active setup.
NeverSetupActive == FALSE

(* hasActiveType: the row of a cancelled job is active until its task has ended. *)
SetupActive == \E j \in SetupJobs : works[j].mode \in Modes

(* activeJobForInstallation: the input of a setup job names no installation. *)
RemovalActive == \E j \in SetupJobs : works[j].mode = "remove"

Employ(j, mode, path) ==
    /\ ~Working(j)
    /\ works' = [works EXCEPT ![j] = [NoWork EXCEPT !.mode = mode, !.at = 1, !.path = path]]
    /\ UNCHANGED <<tree, boxes, row, mishaps, cancels>>

(* What is imported or attached is any directory, also the one that is managed. *)
RequestSetup(j) ==
    /\ ~SetupActive /\ row = "none"
    /\ \E m \in Modes, p \in Paths : (m = "clone" => p = "managed") /\ Employ(j, m, p)

RequestRemoval(j) ==
    /\ row # "none" /\ ~RemovalActive
    /\ Employ(j, "remove", row)

CancelSetup(j) ==
    /\ Working(j) /\ ~works[j].aborted /\ cancels < MaxCancels
    /\ works' = [works EXCEPT ![j].aborted = TRUE]
    /\ cancels' = cancels + 1
    /\ UNCHANGED <<tree, boxes, row, mishaps>>

-----------------------------------------------------------------------------
(* Steps *)

(* Awaits of the file system and of the database that no look at the signal precedes. *)
Deaf == {"place", "unmark", "register", "erase", "unregister"}

Reaches(j, step) == Working(j) /\ StepOf(j) = step /\ (works[j].aborted => step \in Deaf)

Ends(j) == works' = [works EXCEPT ![j] = NoWork]

Onwards(j) ==
    IF works[j].at = Len(Plan[works[j].mode]) THEN Ends(j)
    ELSE works' = [works EXCEPT ![j].at = @ + 1, ![j].back = "no"]

Mishap == mishaps < MaxSetupFaults /\ mishaps' = mishaps + 1

(* cloneSource: an incomplete one of an earlier job is removed, another one is left alone. *)
LookForOne(j) ==
    /\ Reaches(j, "look")
    /\ CASE tree["managed"] = "none"   -> Onwards(j)
         [] tree["managed"] = "marked" -> works' = [works EXCEPT ![j].back = "down"]
         [] OTHER                      -> Ends(j)
    /\ UNCHANGED <<tree, boxes, row, mishaps, cancels>>

(* The rename of the staged clone. *)
Place(j) ==
    /\ Reaches(j, "place") /\ tree["managed"] = "none"
    /\ tree' = [tree EXCEPT !["managed"] = "marked"]
    /\ Onwards(j)
    /\ UNCHANGED <<boxes, row, mishaps, cancels>>

(* Steps that need the project, and change nothing that is modelled; or that need nothing. *)
OnProject == {"inspect", "validate", "env", "ready", "urls", "stop", "own"}

Present(p) == tree[p] \in {"marked", "plain"}

UseProject(j) ==
    /\ \E s \in OnProject \cup {"clone", "provision"} :
          /\ Reaches(j, s)
          /\ s \in OnProject => Present(works[j].path)
          /\ s = "ready" => boxes[works[j].path]
    /\ Onwards(j)
    /\ UNCHANGED <<tree, boxes, row, mishaps, cancels>>

Compose(j, step, running) ==
    /\ Reaches(j, step) /\ Present(works[j].path)
    /\ boxes' = [boxes EXCEPT ![works[j].path] = running]
    /\ Onwards(j)
    /\ UNCHANGED <<tree, row, mishaps, cancels>>

ComposeUp(j) == Compose(j, "up", TRUE)

ComposeDown(j) == Compose(j, "down", FALSE) /\ works[j].back = "no"

Unmark(j) ==
    /\ Reaches(j, "unmark")
    /\ tree' = [tree EXCEPT !["managed"] = IF @ = "marked" THEN "plain" ELSE @]
    /\ Onwards(j)
    /\ UNCHANGED <<boxes, row, mishaps, cancels>>

(* The store holds one installation; a second path is refused. *)
Register(j) ==
    /\ Reaches(j, "register")
    /\ IF row \in {"none", works[j].path}
       THEN row' = works[j].path /\ (IF works[j].aborted THEN Ends(j) ELSE Onwards(j))
       ELSE Ends(j) /\ UNCHANGED row
    /\ UNCHANGED <<tree, boxes, mishaps, cancels>>

(* A directory that is gone has nothing to stop; one elsewhere is verified again. *)
Exists(j) ==
    /\ Reaches(j, "exists")
    /\ IF tree[works[j].path] = "none"
       THEN works' = [works EXCEPT ![j].at = Len(Plan.remove)]
       ELSE /\ works[j].path = "external" => Present("external")
            /\ Onwards(j)
    /\ UNCHANGED <<tree, boxes, row, mishaps, cancels>>

(* The line that is logged next ends a cancelled removal, with the row left. *)
Erase(j) ==
    /\ Reaches(j, "erase") /\ works[j].back = "no"
    /\ tree' = [tree EXCEPT ![works[j].path] = "none"]
    /\ IF works[j].aborted THEN Ends(j) ELSE Onwards(j)
    /\ UNCHANGED <<boxes, row, mishaps, cancels>>

Unregister(j) ==
    /\ Reaches(j, "unregister")
    /\ row' = "none"
    /\ Onwards(j)
    /\ UNCHANGED <<tree, boxes, mishaps, cancels>>

-----------------------------------------------------------------------------
(* Failures *)

\* Mutant: the wait for the control socket has left the try.
RollsBackBeforeUp(w) == w.mode = "clone" /\ Plan.clone[w.at] \in {"validate", "env", "up"}

(* The try of install, as far as what it has cloned is rolled back. *)
RollsBack(w) == w.mode = "clone" /\ Plan.clone[w.at] \in {"validate", "env", "up", "ready", "urls", "unmark"}

Fails(j) ==
    IF RollsBack(works[j]) THEN works' = [works EXCEPT ![j].back = "down"] ELSE Ends(j)

(* The step throws, with no effect: a command fails, a wait ends, the signal is aborted. *)
Throws(j) ==
    /\ Working(j) /\ works[j].back = "no"
    /\ StepOf(j) \notin {"register", "unregister"}
    /\ Fails(j)
    /\ UNCHANGED <<tree, boxes, row, mishaps, cancels>>

(* A part of a step's effect: some containers run, or some files are gone, the marker *)
(* perhaps among them.                                                              *)
PartlyUp(j) ==
    /\ Reaches(j, "up") /\ Present(works[j].path)
    /\ boxes' = [boxes EXCEPT ![works[j].path] = TRUE]
    /\ UNCHANGED tree

PartlyErased(j) ==
    /\ Reaches(j, "erase")
    /\ tree' = [tree EXCEPT ![works[j].path] = "ruined"]
    /\ UNCHANGED boxes

(* The step throws after that. *)
ThrowsMidway(j) ==
    /\ \/ PartlyUp(j) /\ UNCHANGED mishaps
       \/ PartlyErased(j) /\ works[j].back = "no" /\ Mishap
    /\ Fails(j)
    /\ UNCHANGED <<row, cancels>>

(* rollbackFreshInstallation begins with a line, so a cancelled job rolls back nothing; *)
(* that compose fails is only logged.                                                  *)
RollbackDown(j) ==
    /\ Working(j) /\ works[j].back = "down"
    /\ IF works[j].aborted
       THEN Ends(j) /\ UNCHANGED <<boxes, mishaps>>
       ELSE /\ works' = [works EXCEPT ![j].back = "erase"]
            /\ \/ boxes' = [boxes EXCEPT !["managed"] = FALSE] /\ UNCHANGED mishaps
               \/ UNCHANGED boxes /\ Mishap
    /\ UNCHANGED <<tree, row, cancels>>

(* A job goes on with a new clone after the rollback of another one's. *)
RollbackErase(j) ==
    /\ Working(j) /\ works[j].back = "erase"
    /\ \/ /\ tree' = [tree EXCEPT !["managed"] = "none"]
          /\ IF ~works[j].aborted /\ Plan.clone[works[j].at] = "look" THEN Onwards(j) ELSE Ends(j)
          /\ UNCHANGED mishaps
       \/ /\ \E left \in {"ruined", tree["managed"]} : tree' = [tree EXCEPT !["managed"] = left]
          /\ Ends(j) /\ Mishap
       \/ works[j].aborted /\ Ends(j) /\ UNCHANGED <<tree, mishaps>>
    /\ UNCHANGED <<boxes, row, cancels>>

(* The API stops, perhaps in the middle of a step; its jobs are gone, and what they did stays. *)
SetupCrash ==
    /\ \E j \in SetupJobs : Working(j)
    /\ \/ UNCHANGED <<tree, boxes>>
       \/ \E j \in SetupJobs : PartlyUp(j) \/ PartlyErased(j)
    /\ works' = [j \in SetupJobs |-> NoWork]
    /\ Mishap
    /\ UNCHANGED <<row, cancels>>

SetupNext ==
    \/ \E j \in SetupJobs :
          \/ RequestSetup(j) \/ RequestRemoval(j) \/ CancelSetup(j)
          \/ LookForOne(j) \/ Place(j) \/ UseProject(j) \/ ComposeUp(j) \/ Unmark(j)
          \/ Register(j) \/ Exists(j) \/ ComposeDown(j) \/ Erase(j) \/ Unregister(j)
          \/ Throws(j) \/ ThrowsMidway(j) \/ RollbackDown(j) \/ RollbackErase(j)
    \/ SetupCrash

SetupSpec == SetupInit /\ [][SetupNext]_setupVars
-----------------------------------------------------------------------------
(* Properties *)

SetupIdle == \A j \in SetupJobs : ~Working(j)

\* A setup that fails at whatever step, compose up in the middle included, and a removal
\* that succeeds, leave neither files nor containers at the managed path ("removes fresh
\* install files and Compose volumes when startup fails",
\* launcherdockered.service.test.ts:594), so that the next setup starts from nothing.  Not
\* so when a job was cancelled (the rollback begins with a line that it may not log any
\* more), when the removal or the rollback fails itself, and after a crash.
FailedSetupLeavesNothing ==
    SetupIdle /\ row = "none" /\ mishaps = 0 /\ cancels = 0 =>
       tree["managed"] = "none" /\ ~boxes["managed"]

\* When the API dies in a setup before LaunchServer was ready and its marker was
\* removed, the next setup recognizes what is left ("recovers a marked interrupted
\* install before retrying the same name", launcherdockered.service.test.ts:691).  Not so
\* when it dies while it removes the files, for the marker may be gone before the rest.
InterruptedIsRecognized ==
    [][SetupCrash /\ row = "none" /\ mishaps = 0 /\ cancels = 0
       /\ (\A j \in SetupJobs : Working(j) => StepOf(j) # "erase") =>
          \/ tree'["managed"] \in {"none", "marked"}
          \/ \E j \in SetupJobs : works[j].mode = "clone" /\ StepOf(j) = "register"]_setupVars

\* No setup removes the containers or the files of a registered LaunchServer, or of
\* what another setup works on, also when jobs are cancelled and their tasks run on.
SetupErasesOnlyItsOwn ==
    [][\A j \in SetupJobs :
          works[j].back # "no" /\ works'[j] # works[j] /\ (tree' # tree \/ boxes' # boxes) =>
             /\ row # "managed"
             /\ \A k \in SetupJobs \ {j} : works[k].mode \notin Modes]_setupVars

\* A setup (cloneSource and rollbackFreshInstallation, launcherdockered.service.ts:498) takes
\* what a dead one left for its own, and nothing else.
SetupKnowsItsOwn == InterruptedIsRecognized /\ SetupErasesOnlyItsOwn
=============================================================================
