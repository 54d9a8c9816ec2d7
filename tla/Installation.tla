----------------------------- MODULE Installation -----------------------------
(***************************************************************************)
(* One LauncherDockered installation: the volume of its LaunchServer, what   *)
(* LaunchServer holds in memory, and the jobs that run the programs of the   *)
(* services against them, one await after another.  A step fails without     *)
(* effect, fails after its effect (docker compose exec is killed after a     *)
(* minute), or leaves half a tree; the API process may die at any step.      *)
(*                                                                          *)
(* A job marks what it writes with its number, so that the content of a      *)
(* place tells whose changes it holds.  Backups and staged files have names  *)
(* of their own for every job; the other places are shared.                  *)
(***************************************************************************)
EXTENDS ModulePrograms, ModPrograms, FilePrograms, FiniteSets, TLC

CONSTANTS Slots,     \* numbers of the jobs of a behaviour
          Areas,     \* the groups of operations that are run together
          MaxFaults  \* bound: half-done steps, failed undo steps, failed restarts, crashes

ASSUME SlotsAssumption == Slots \in {{1}, {1, 2}}
ASSUME FaultsAssumption == MaxFaults \in Nat

VARIABLES area,    \* the group of this behaviour
          layout,  \* the places that exist when it begins
          vol,     \* the content of the shared places
          own,     \* own[r]: the content of the places only job r names
          server,  \* the LaunchServer container: is it up, what it has loaded
          tasks,   \* tasks[r]: what job r is doing
          faults   \* how many have happened

vars == <<area, layout, vol, own, server, tasks, faults>>

-----------------------------------------------------------------------------
(* The operations of the first job of a behaviour, and of the second. *)
Operations ==
    [profiles  |-> <<{"ReplaceServers", "UpdateProfile", "UpdateProfileJava", "RemoveProfile"},
                     {"UpdateProfile", "RemoveProfile"}>>,
     builds    |-> <<{"BuildClient"}, {"BuildClient", "ReplaceServers"}>>,
     workspace |-> <<{"ApplyWorkspace"}, {"InstallPrestarter"}>>,
     launcher  |-> <<{"CustomizeLauncher"}, {"InstallAndBuild"}>>,
     java      |-> <<{"RestartServer"}, {"InstallJava", "UpdateJavaSettings"}>>,
     modules   |-> <<{"InstallModule", "InstallBuilt", "BuildDiscord"}, {"RemoveModule"}>>,
     auth      |-> <<{"InstallFileAuth", "ApplyWithModule"}, {"ApplyProvider"}>>,
     discord   |-> <<{"ApplyDiscord"}, {"ProvisionRemote"}>>,
     mods      |-> <<{"UpdateMod", "InstallByMirror", "InstallOnServers"}, {"ToggleMod", "RemoveMod"}>>,
     optional  |-> <<{"InstallSelected"}, {"UpdateOptional", "RemoveOptionalMod"}>>,
     bulk      |-> <<{"BulkToggle", "BulkUpdate"}, {"BulkRemove"}>>,
     modpacks  |-> <<{"ImportModpack", "RebuildModpack"}, {"UpdateProfile"}>>,
     beside    |-> <<{"UpdateProfile"}, {"InstallSelected"}>>,
     files     |-> <<{"UploadFile", "WriteFile", "MoveFile"},
                     {"UploadFile", "RemoveFiles", "ApplyFileAuthConfig", "MakeDirectory"}>>,
     startup   |-> <<{"StartupRecovery", "ApplyProvider"},
                     {"StartupRecovery", "ApplyProvider", "SyncProfiles", "InspectServer"}>>,
     restarts  |-> <<{"RestartServer", "BuildLauncher"},
                     {"SetupRemoteControl", "InstallTemurin", "RemoveJava"}>>]

Programs ==
    ProfileRoutes @@ BuildRoutes @@ JavaRoutes @@ ModuleRoutes @@ AuthRoutes
    @@ RemoteControlRoutes @@ ModRoutes @@ ModpackRoutes @@ FileRoutes @@ Startup

UndosOf(programs) ==
    [op \in DOMAIN programs |-> [i \in DOMAIN programs[op] |-> UndoOf(programs[op], i)]]

Undos == UndosOf(Programs)

(* Routes that read an upload between the look for an active job and the creation of theirs. *)
Uploads == {"InstallJava", "CustomizeLauncher", "UploadFile"}

(* Mod jobs only wait for each other, in the queue of the installation. *)
Queued == {"InstallSelected", "InstallByMirror", "InstallOnServers", "UpdateOptional",
           "RemoveOptionalMod", "BulkToggle", "BulkUpdate", "BulkRemove", "ToggleMod",
           "UpdateMod", "RemoveMod", "ImportModpack", "RebuildModpack"}

(* What the API does when it starts is not a job. *)
Unlisted == {"StartupRecovery"}

ASSUME AreasAssumption == Areas \subseteq DOMAIN Operations

-----------------------------------------------------------------------------
(* Places *)

Synced  == {"profile", "client", "mod", "mod2", "modOff", "mod2Off", "modNext",
            "mod2Next", "optionalMod", "override"}
Started == {"config", "modulesConfig", "moduleJar", "discordConfig"}
Trees   == {"client", "java", "workspace", "resources"}

Shared == Synced \cup Started \cup Trees
          \cup {"manifest", "prestarter", "runtime", "custom", "asset", "launcher",
                "installer", "installerVersion", "moduleVersion", "rcConfig",
                "credential", "key", "serverMod", "serverMod2", "serverOverride",
                "resourcesArchive", "file", "file2", "fileNext", "directory", "fileAuthConfig"}

Private == {"profileBackup", "trashProfile", "trashClient", "manifestBackup",
            "workspaceBackup", "prestarterBackup", "runtimeBackup", "resourcesBackup",
            "resourcesPending", "customBackup", "assetBackup", "javaPending",
            "archive", "configBackup", "javaTrash", "moduleStaged", "rcBackup",
            "modPending", "modBackup", "mod2Pending", "mod2Backup", "fileTrash",
            "file2Trash", "fileAuthBackup", "urlBackup"}

Places == Shared \cup Private

(* Where the first content of a place may be found while an operation is under way. *)
Homes(p) ==
    {p} \cup (CASE p = "profile" -> {"profileBackup", "trashProfile"}
                [] p = "client" -> {"trashClient"}
                [] p = "manifest" -> {"manifestBackup"}
                [] p = "workspace" -> {"workspaceBackup"}
                [] p = "prestarter" -> {"prestarterBackup"}
                [] p = "runtime" -> {"runtimeBackup"}
                [] p = "resources" -> {"resourcesBackup"}
                [] p = "custom" -> {"customBackup"}
                [] p = "asset" -> {"assetBackup"}
                [] p = "config" -> {"configBackup", "urlBackup"}
                [] p = "file" -> {"fileNext", "fileTrash"}
                [] p = "fileAuthConfig" -> {"fileAuthBackup"}
                [] p = "java" -> {"javaTrash"}
                [] p = "mod" -> {"modBackup", "modOff", "optionalMod"}
                [] p = "rcConfig" -> {"rcBackup"}
                [] OTHER -> {})

(* What a new installation has, one that has been used, and one whose profile is new. *)
Layouts ==
    LET used  == Shared \ {"modOff", "mod2Off", "modNext", "mod2Next", "credential",
                           "resourcesArchive", "fileNext", "directory"}
        added == {"client", "manifest", "workspace", "prestarter", "runtime", "resources",
                  "custom", "asset", "installer", "installerVersion", "moduleJar",
                  "moduleVersion", "rcConfig", "optionalMod", "key", "java", "file",
                  "fileAuthConfig"}
    IN  {used, used \ added}
        \cup (IF area = "builds" THEN {used \ {"profile", "client"}} ELSE {})

At(r, p) == IF p \in Private THEN own[r][p] ELSE vol[p]

Present(p) == vol[p] # Absent

-----------------------------------------------------------------------------
(* Tasks *)

NoTask == [op |-> "none", mode |-> "none", at |-> 0, un |-> 0, read |-> <<>>, had |-> {},
           base |-> <<>>, live |-> <<>>, tries |-> 1, aborted |-> FALSE, alone |-> FALSE,
           hurt |-> FALSE]

Running(r) == tasks[r].mode \in {"body", "undo"}

(* What job r runs, and what it runs when the step it is at throws. *)
Code(r) == [body |-> Programs[tasks[r].op], undo |-> Undos[tasks[r].op][tasks[r].at]]

Current(r, c) == IF tasks[r].mode = "body" THEN c.body[tasks[r].at] ELSE c.undo[tasks[r].un]

Ended(t, mode) == [t EXCEPT !.mode = mode, !.at = 0, !.un = 0, !.read = <<>>, !.had = {}, !.base = <<>>,
                            !.live = <<>>, !.tries = 1]

(* The task t of code c after the step it is at, and after a jump to step i. *)
ToStep(c, t, i) ==
    IF i > Len(c.body) THEN Ended(t, "done") ELSE [t EXCEPT !.at = i, !.tries = 1]

ToUndo(c, t, k) ==
    IF k > Len(c.undo) THEN Ended(t, "failed") ELSE [t EXCEPT !.mode = "undo", !.un = k]

Onward(c, t) == IF t.mode = "body" THEN ToStep(c, t, t.at + 1) ELSE ToUndo(c, t, t.un + 1)

(* Where the undo steps u go on when step k of them throws: after its block. *)
Outer(u, k) ==
    LET rest == {l \in k + 1 .. Len(u) : u[l].block # u[k].block}
    IN  IF rest = {} THEN Len(u) + 1 ELSE Min(rest)

(* A throw: the first undo step, or what follows the block of the one that threw. *)
Thrown(c, t) == ToUndo(c, t, IF t.mode = "body" THEN 1 ELSE Outer(c.undo, t.un))

Failed(c, s, t) == IF s.quiet THEN Onward(c, t) ELSE Thrown(c, t)

-----------------------------------------------------------------------------
(* Steps *)

Nothing == [p \in {} |-> Absent]

One(p, c) == [x \in {p} |-> c]

Two(p, c, q, d) == [x \in {p, q} |-> IF x = p THEN c ELSE d]

Writes(r, s) ==
    LET t == tasks[r]
        kept == IF s.at \in DOMAIN t.read THEN t.read[s.at] ELSE Absent
        held == IF s.at \in Trees THEN At(r, s.at) ELSE Absent
    IN  CASE s.do = "copy" -> One(s.at, At(r, s.from))
          [] s.do = "move" -> Two(s.from, Absent, s.at, held \cup At(r, s.from))
          [] s.do = "edit" -> One(s.at, kept \cup {r})
          [] s.do = "back" -> One(s.at, kept)
          [] s.do \in {"put", "unpack", "live", "keep"} -> One(s.at, {r})
          [] s.do = "make" -> Two(s.at, {r}, s.from, {r})
          [] s.do = "save" -> One(s.at, server.loaded[s.at] \cup {r})
          [] s.do = "build" -> One(s.at, server.loaded["config"])
          [] s.do = "disable" -> One(s.at, Disabled)
          [] s.do \in {"drop", "unlive", "forget"} -> One(s.at, Absent)
          [] OTHER -> Nothing

Half(r, s) ==
    CASE s.do \in {"copy", "unpack"} -> {One(s.at, Broken)}
      [] s.do = "make" -> {Two(s.at, Broken, s.from, c) : c \in {At(r, s.from), {r}}}
      [] s.do = "drop" /\ s.at \in Trees -> {One(s.at, Broken)}
      [] OTHER -> {}

Store(r, w) ==
    /\ vol' = [p \in Shared |-> IF p \in DOMAIN w THEN w[p] ELSE vol[p]]
    /\ own' = [own EXCEPT ![r] = [p \in Private |-> IF p \in DOMAIN w THEN w[p] ELSE @[p]]]

(* The container is needed by all but what the panel or an agent does itself. *)
Outside == {"look", "read", "find", "miss", "fetch", "restart", "live", "unlive", "keep",
            "forget", "check", "try", "commit", "enough", "healthy"}

Works(r, s) ==
    /\ s.do \notin Outside => server.up
    /\ s.do \in {"find", "read", "copy", "move"} => At(r, s.from) # Absent
    /\ s.do = "miss" => At(r, s.at) = Absent
    /\ s.do = "check" => ~tasks[r].aborted
    /\ s.do = "restart" => ~tasks[r].aborted

Skipped(r, s) ==
    \/ s.do \in {"try", "commit"}
    \/ ~(s.need \subseteq tasks[r].had)
    \/ s.lack \cap tasks[r].had # {}

Loading(s, w) ==
    CASE s.do = "sync" -> [p \in Synced \cup Started |->
                              IF p \in Synced THEN vol[p] ELSE server.loaded[p]]
      [] s.do = "restart" -> [p \in Synced \cup Started |-> vol[p]]
      [] s.do = "save" -> [server.loaded EXCEPT ![s.at] = w[s.at]]
      [] OTHER -> server.loaded

Fault == faults < MaxFaults /\ faults' = faults + 1

Advance(r, t) == tasks' = [tasks EXCEPT ![r] = t]

-----------------------------------------------------------------------------
Init ==
    /\ area \in Areas
    /\ layout \in Layouts
    /\ vol = [p \in Shared |-> IF p \in layout THEN AsFound ELSE Absent]
    /\ own = [r \in Slots |-> [p \in Private |-> Absent]]
    /\ server = [up |-> TRUE, loaded |-> [p \in Synced \cup Started |-> vol[p]]]
    /\ tasks = [r \in Slots |-> NoTask]
    /\ faults = 0

NeverActive == FALSE

(* A route answers 409 while a job of the installation is queued or running; a running job that *)
(* is cancelled stays so until its task has ended. *)
ActiveJob == \E r \in Slots : Running(r) /\ tasks[r].op \notin Unlisted

(* A mod job waits for those before it in the queue, and for no other job. *)
QueueFree == \A r \in Slots : Running(r) => tasks[r].op \notin Queued

MayBegin(op) ==
    CASE op \in Queued   -> QueueFree
      [] op \in Unlisted -> \A r \in Slots : ~Running(r)
      [] OTHER           -> op \in Uploads \/ ~ActiveJob

Begin(r, op) ==
    /\ tasks[r].mode = "none"
    /\ \A q \in Slots : q < r => tasks[q].mode # "none"
    /\ MayBegin(op)
    /\ LET beside == {q \in Slots : Running(q)}
       IN  tasks' = [q \in Slots |->
                        IF q = r THEN [NoTask EXCEPT !.op = op, !.mode = "body", !.at = 1, !.base = vol,
                                                     !.live = server.loaded,
                                                     !.alone = beside = {}]
                        ELSE IF q \in beside THEN [tasks[q] EXCEPT !.alone = FALSE]
                        ELSE tasks[q]]
    /\ UNCHANGED <<area, layout, vol, own, server, faults>>

Skip(r) ==
    /\ Running(r)
    /\ \E c \in {Code(r)} : \E s \in {Current(r, c)} :
          /\ \/ Skipped(r, s)
             \/ s.do = "enough"
             \/ s.do = "healthy" /\ ~server.up
          /\ Advance(r, Onward(c, tasks[r]))
    /\ UNCHANGED <<area, layout, vol, own, server, faults>>

(* The method finds that there is nothing to do. *)
Return(r) ==
    /\ Running(r)
    /\ \E c \in {Code(r)} : \E s \in {Current(r, c)} :
          /\ s.do \in {"enough", "healthy"} /\ ~Skipped(r, s)
          /\ s.do = "healthy" => server.up
          /\ Advance(r, ToStep(c, tasks[r], ReturnFrom(c.body, tasks[r].at)))
    /\ UNCHANGED <<area, layout, vol, own, server, faults>>

Noted(r, s) ==
    CASE s.do = "read" -> [tasks[r] EXCEPT !.read = [p \in DOMAIN @ \cup {s.at} |->
                                                        IF p = s.at THEN At(r, p) ELSE @[p]]]
      [] s.do = "look" -> [tasks[r] EXCEPT !.had = {p \in Shared : Present(p)}]
      [] OTHER -> tasks[r]

Succeed(r) ==
    /\ Running(r)
    /\ \E c \in {Code(r)} : \E s \in {Current(r, c)} : \E w \in {Writes(r, s)} :
          /\ ~Skipped(r, s) /\ s.do \notin {"enough", "healthy"} /\ Works(r, s)
          /\ Store(r, w)
          /\ server' = [up |-> server.up \/ s.do = "restart", loaded |-> Loading(s, w)]
          /\ Advance(r, Onward(c, Noted(r, s)))
    /\ UNCHANGED <<area, layout, faults>>

(* Nothing was done. *)
Refuse(r) ==
    /\ Running(r)
    /\ \E c \in {Code(r)} : \E s \in {Current(r, c)} :
          /\ ~Skipped(r, s) /\ s.tries = 1 /\ s.do \notin {"look", "enough", "healthy"}
          /\ s.do = "check" => ~Works(r, s)
          /\ IF tasks[r].mode = "undo" /\ Works(r, s) THEN Fault ELSE UNCHANGED faults
          /\ Advance(r, Failed(c, s, [tasks[r] EXCEPT !.hurt = @ \/ tasks[r].mode = "undo"]))
    /\ UNCHANGED <<area, layout, vol, own, server>>

(* Something was done, all of it or a part, and an error is reported. *)
Break(r) ==
    /\ Running(r) /\ Fault
    /\ \E c \in {Code(r)} : \E s \in {Current(r, c)} :
          /\ ~Skipped(r, s) /\ s.tries = 1 /\ Works(r, s)
          /\ \E w \in (Half(r, s) \cup {Writes(r, s)}) \ {Nothing} :
                /\ Store(r, w)
                /\ server' = IF s.do = "save" THEN [server EXCEPT !.loaded = Loading(s, w)]
                             ELSE server
          /\ Advance(r, Failed(c, s, [tasks[r] EXCEPT !.hurt = TRUE]))
    /\ UNCHANGED <<area, layout>>

(* An attempt failed: what it left is removed, and the next one starts. *)
Again(r) ==
    /\ Running(r)
    /\ \E c \in {Code(r)} : \E s \in {Current(r, c)} : \E t \in {tasks[r]} :
          /\ ~Skipped(r, s) /\ s.tries > 1
          /\ \/ /\ server.up
                /\ Store(r, One(s.at, Absent))
                /\ Advance(r, IF t.tries < s.tries /\ ~t.aborted THEN [t EXCEPT !.tries = @ + 1]
                              ELSE Thrown(c, t))
                /\ UNCHANGED faults
             \/ /\ \E w \in {Nothing} \cup Half(r, s) : Store(r, w)
                /\ Advance(r, Thrown(c, [t EXCEPT !.hurt = TRUE]))
                /\ Fault
    /\ UNCHANGED <<area, layout, server>>

(* Compose stopped LaunchServer and did not start it, or it did not become ready.  The *)
(* cancellation of the job kills the command that runs. *)
RestartFails(r) ==
    /\ Running(r)
    /\ \E c \in {Code(r)} : \E s \in {Current(r, c)} :
          /\ s.do = "restart"
          /\ \/ server' = [server EXCEPT !.up = FALSE]
             \/ server' = [up |-> TRUE, loaded |-> Loading(s, Nothing)]
          /\ Advance(r, Failed(c, s, [tasks[r] EXCEPT !.hurt = TRUE]))
    /\ IF tasks[r].aborted THEN UNCHANGED faults ELSE Fault
    /\ UNCHANGED <<area, layout, vol, own>>

(* The signal of the job is aborted: it goes on until its task looks at the signal. *)
Cancel(r) ==
    /\ Running(r) /\ ~tasks[r].aborted
    /\ Advance(r, [tasks[r] EXCEPT !.aborted = TRUE])
    /\ UNCHANGED <<area, layout, vol, own, server, faults>>

Crash ==
    /\ \E r \in Slots : Running(r)
    /\ tasks' = [r \in Slots |-> IF Running(r) THEN Ended(tasks[r], "dead") ELSE tasks[r]]
    /\ Fault
    /\ UNCHANGED <<area, layout, vol, own, server>>

Next ==
    \/ \E r \in Slots : \E op \in Operations[area][r] : Begin(r, op)
    \/ \E r \in Slots : \/ Skip(r) \/ Return(r) \/ Succeed(r) \/ Refuse(r) \/ Break(r)
                        \/ Again(r) \/ RestartFails(r) \/ Cancel(r)
    \/ Crash

Spec == Init /\ [][Next]_vars

-----------------------------------------------------------------------------
(* Properties *)

Contents == SUBSET ({-2, -1, 0} \cup Slots)

(* A place holds a set of marks, a task is where its program has a step, and what LaunchServer *)
(* has loaded is the content of a place (client-build.service.ts and the services beside it). *)
VolumeTypeOK ==
    /\ area \in Areas /\ layout \subseteq Shared /\ faults \in 0 .. MaxFaults
    /\ DOMAIN vol = Shared /\ \A p \in Shared : vol[p] \in Contents
    /\ \A r \in Slots : \A p \in Private : own[r][p] \in Contents
    /\ server.up \in BOOLEAN /\ \A p \in Synced \cup Started : server.loaded[p] \in Contents
    /\ \A r \in Slots :
          /\ tasks[r].mode \in {"none", "body", "undo", "done", "failed", "dead"}
          /\ Running(r) =>
                \E c \in {Code(r)} :
                   /\ tasks[r].at \in DOMAIN c.body
                   /\ tasks[r].mode = "undo" => tasks[r].un \in DOMAIN c.undo

Idle == \A r \in Slots : ~Running(r)

Ends(r, mode) == Running(r) /\ tasks'[r].mode = mode

(* The places an operation changes together. *)
Together(op) ==
    CASE op = "RemoveProfile" -> {"profile", "client"}
      [] op \in {"RemoveJava", "UpdateJavaSettings"} -> {"java", "config"}
      [] op = "RemoveModule" -> {"modulesConfig", "moduleJar"}
      [] op = "ApplyWorkspace" -> {"workspace"}
      [] op = "InstallPrestarter" -> {"prestarter"}
      [] op \in {"ReplaceServers", "UpdateProfile", "UpdateProfileJava"} -> {"profile"}
      [] OTHER -> {}

(* An operation that fails, alone and with no step half done, has changed all of the files that *)
(* belong together or none: its catch statements put back what the ones before have done. *)
AllOrNothing ==
    [][\A r \in Slots :
          LET t == tasks[r]
              changed == {p \in Together(t.op) : vol'[p] # t.base[p]}
          IN  Ends(r, "failed") /\ t.alone /\ ~tasks'[r].hurt =>
                 changed \in {{}, Together(t.op)}]_vars

(* Each of the twelve listed places that an operation of a service backs up has its first content *)
(* on the volume, at the place or under a backup, through every failure, crash and cancellation.  *)
(* Mods, the Discord configuration, uploaded and written files are replaced without a backup, a   *)
(* client build and a modpack write over the client: of these it says nothing. *)
OriginalKept ==
    area \notin {"builds", "modpacks"} =>
       \A p \in layout \cap {"profile", "client", "manifest", "workspace", "prestarter", "runtime",
                            "resources", "custom", "asset", "config", "java", "rcConfig"} :
          \E h \in Homes(p) : \E r \in Slots : 0 \in At(r, h)

(* What an operation has published when it reports success. *)
Published(op) ==
    CASE op \in {"ReplaceServers", "UpdateProfile", "UpdateProfileJava", "RemoveProfile",
                 "BuildClient", "ToggleMod", "UpdateMod", "RemoveMod", "InstallByMirror",
                 "InstallSelected", "UpdateOptional", "RemoveOptionalMod", "BulkToggle",
                 "BulkUpdate", "BulkRemove", "ImportModpack", "RebuildModpack"} -> Synced
      [] op \in {"InstallJava", "InstallTemurin", "RemoveJava", "UpdateJavaSettings",
                 "ApplyProvider", "ApplyWithModule", "ApplyDiscord"} -> {"config", "modulesConfig"}
      [] op \in {"RemoveModule", "InstallModule", "InstallBuilt"} -> {"modulesConfig"}
      [] OTHER -> {}

(* An operation that reports success, alone, has left LaunchServer running with the files that *)
(* it wrote: nothing is changed after the last reload or restart. *)
SuccessIsLive ==
    [][\A r \in Slots :
          Ends(r, "done") /\ tasks[r].alone =>
             \A p \in Published(tasks[r].op) : server'.up /\ server'.loaded[p] = vol'[p]]_vars

(* A runtime of the catalog is whole on the disk, unless its installation is being undone. *)
CatalogIsWhole ==
    \A r \in Slots :
       tasks[r].op \in {"InstallJava", "InstallTemurin"} /\ tasks[r].alone
          /\ tasks[r].mode \in {"body", "done"} /\ r \in vol["config"] => vol["java"] = {r}

(* The marker of a cached artifact never tells of a version that the artifact does not have. *)
MarkersTellTruth ==
    /\ \A r \in Slots : tasks[r].alone /\ r \in vol["moduleVersion"] =>
          vol["moduleJar"] \in {Absent, {r}}
    /\ Idle /\ faults = 0 /\ (\A r \in Slots : tasks[r] = NoTask \/ tasks[r].alone) =>
          vol["installer"] = Absent \/ vol["installerVersion"] = vol["installer"]

(* RemoteControl accepts a token that the panel did not store only while the setup runs. *)
NoOrphanToken ==
    \A r \in Slots :
       ~Running(r) /\ tasks[r].op = "ProvisionRemote" /\ ~tasks[r].hurt /\ tasks[r].mode # "dead" =>
          (r \in vol["rcConfig"] <=> r \in vol["credential"])

(* A launcher that a Java operation built offers the runtimes of the configuration. *)
LauncherFollowsConfig ==
    [][\A r \in Slots :
          Ends(r, "done") /\ tasks[r].alone
             /\ tasks[r].op \in {"InstallJava", "InstallTemurin", "RemoveJava", "UpdateJavaSettings"} =>
                vol'["launcher"] = vol'["config"]]_vars

\* What is reported as done is what players get: LaunchServer has loaded what the operation wrote
\* (sync and restart of the services), and a launcher it built is of that configuration.
SuccessIsPublished == SuccessIsLive /\ LauncherFollowsConfig

\* What the volume says of itself is true: its catalog, its markers, its token.
RecordsTellTruth == VolumeTypeOK /\ CatalogIsWhole /\ MarkersTellTruth /\ NoOrphanToken

(* The operations that read the profile and write it back with a change of theirs. *)
Edits == {"ReplaceServers", "UpdateProfile", "UpdateProfileJava", "InstallSelected",
          "UpdateOptional", "RemoveOptionalMod"}

(* Nothing ran beside job r, or only jobs that wait for each other: all of them mod jobs, in    *)
(* their queue, or none, each refused while another one is active. *)
Unmixed(r) ==
    \/ tasks[r].alone
    \/ \A q \in Slots : tasks[q].mode # "none" => (tasks[q].op \in Queued <=> tasks[r].op \in Queued)

(* A change of the profile that is reported as done is in the profile, and what is done after it *)
(* keeps it, cancelled, failed and crashed jobs included, if no job of the other kind ran beside *)
(* it: a mod job looks for no active job (mods.routes.ts:149), so it and another one that edit   *)
(* the profile at a time may lose a change, and the property does not speak of them. *)
NoLostUpdate ==
    \A r \in Slots : tasks[r].mode = "done" /\ tasks[r].op \in Edits /\ Unmixed(r) =>
       \E h \in Homes("profile") : \E q \in Slots : r \in At(q, h)

(* "removal or replacement moves the old file into recoverable profile-local trash" *)
(* (docs/PROJECT_PLAN.md:414) says it of the mods of a profile. *)
OldModRecoverable ==
    \A r \in Slots :
       tasks[r].op \in {"UpdateMod", "RemoveMod"} /\ tasks[r].mode = "done" /\ r = 1 =>
          \E h \in Homes("mod") : \E q \in Slots : 0 \in At(q, h)
=============================================================================
