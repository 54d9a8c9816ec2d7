------------------------------ MODULE ServerInstall ------------------------------
(***************************************************************************)
(* The installation of a game server on its machine: the script that         *)
(* renderScript of server-bootstrap.service.ts writes, run in one directory   *)
(* again and again, and its report to the panel.  ServerBootstrap has the     *)
(* panel's side of drafts and claims; here a claim is only live or spent.     *)
(* What a run writes is its number.  A run dies with its trap, which puts the *)
(* backup back and reports, or without it.                                    *)
(***************************************************************************)
EXTENDS Naturals, Sequences

CONSTANTS MaxInstalls,   \* bound: runs of the script
          ServiceNames   \* what the unit may be called: the server may be renamed

ASSUME InstallAssumption == MaxInstalls \in Nat /\ MaxInstalls < 99 /\ ServiceNames # {}

VARIABLES marker,     \* .gravit-panel-server names this server
          onDisk,     \* onDisk[p]: the run that wrote the part p, 0 for none, or Torn
          unit,       \* unit[n]: the run that wrote the unit of that name
          process,    \* process[n]: what the service n was started from
          agent,      \* the run whose token the running agent has, 0 for none
          run,        \* the run of the script that is under way
          installs,   \* how many runs there have been
          bindingRow, \* deployment_state and updater_token_hash of server_bindings
          unheard     \* a run ended otherwise than the panel heard

installVars == <<marker, onDisk, unit, process, agent, run, installs, bindingRow, unheard>>

Torn == 99

\* The Java runtime, the server and wrapper, server.properties with RCON, gravit-server.env and
\* the start script, and the agent's binding.
InDirectory == {"jre", "jars", "rcon", "env"}
Parts == InDirectory \cup {"binding"}

Stopped == [p \in InDirectory |-> 0]

NoRun == [number |-> 0, at |-> 0, name |-> CHOOSE n \in ServiceNames : TRUE, update |-> FALSE,
          found |-> Stopped, backup |-> FALSE, claim |-> FALSE]

InstallInit ==
    /\ marker = FALSE /\ onDisk = [p \in Parts |-> 0] /\ unit = [n \in ServiceNames |-> 0]
    /\ process = [n \in ServiceNames |-> Stopped] /\ agent = 0
    /\ run = NoRun /\ installs = 0
    /\ bindingRow = [state |-> "pending", token |-> 0] /\ unheard = FALSE

\* Mutant: the directory is marked when the server is in place.
MarksLast ==
    <<"stop", "backup", "fetch", "purge", "jre", "jars", "rcon", "env", "mark", "binding", "verify",
      "unit", "enable", "restart", "active", "report">>

Script ==
    <<"mark", "stop", "backup", "fetch", "purge", "jre", "jars", "rcon", "env", "binding", "verify",
      "unit", "enable", "restart", "active", "report">>

Under(step) == run.number # 0 /\ Script[run.at] = step

NextStep == run' = [run EXCEPT !.at = @ + 1]

-----------------------------------------------------------------------------
(* One run *)

(* The directory is empty, or marked by this server: then it is an update. *)
BeginInstall ==
    /\ run.number = 0 /\ installs < MaxInstalls
    /\ marker \/ \A p \in InDirectory : onDisk[p] = 0
    /\ \E n \in ServiceNames :
          run' = [NoRun EXCEPT !.number = installs + 1, !.at = 1, !.name = n, !.update = marker,
                               !.found = [p \in InDirectory |-> onDisk[p]], !.claim = TRUE]
    /\ installs' = installs + 1
    /\ UNCHANGED <<marker, onDisk, unit, process, agent, bindingRow, unheard>>

MarkDirectory ==
    /\ Under("mark")
    /\ marker' = TRUE
    /\ NextStep
    /\ UNCHANGED <<onDisk, unit, process, agent, installs, bindingRow, unheard>>

\* Mutant: an update leaves the server running.
NothingStopped == process
ServiceStopped == IF run.update THEN [process EXCEPT ![run.name] = Stopped] ELSE process

StopService ==
    /\ Under("stop")
    /\ process' = ServiceStopped
    /\ NextStep
    /\ UNCHANGED <<marker, onDisk, unit, agent, installs, bindingRow, unheard>>

Backup ==
    /\ Under("backup")
    /\ run' = [run EXCEPT !.at = @ + 1, !.backup = run.update]
    /\ UNCHANGED <<marker, onDisk, unit, process, agent, installs, bindingRow, unheard>>

(* Downloads, digests, systemd-analyze, is-active: nothing is changed. *)
Verify ==
    /\ Under("fetch") \/ Under("verify") \/ Under("active")
    /\ NextStep
    /\ UNCHANGED <<marker, onDisk, unit, process, agent, installs, bindingRow, unheard>>

Part(step) == IF step = "purge" THEN "jre" ELSE step

WritePart ==
    /\ \E s \in Parts \cup {"purge"} :
          Under(s) /\ onDisk' = [onDisk EXCEPT ![Part(s)] = IF s = "purge" THEN 0 ELSE run.number]
    /\ NextStep
    /\ UNCHANGED <<marker, unit, process, agent, installs, bindingRow, unheard>>

WriteUnit ==
    /\ Under("unit")
    /\ unit' = [unit EXCEPT ![run.name] = run.number]
    /\ NextStep
    /\ UNCHANGED <<marker, onDisk, process, agent, installs, bindingRow, unheard>>

(* systemctl start: a service that runs is left alone; one whose directory is not whole, or *)
(* beside which the server runs already, does not stay up. *)
Started(n, d, units) ==
    IF /\ units[n] # 0 /\ \A m \in ServiceNames : process[m] = Stopped
       /\ \A p \in InDirectory : d[p] \notin {0, Torn}
    THEN [process EXCEPT ![n] = [p \in InDirectory |-> d[p]]] ELSE process

EnableService ==
    /\ Under("enable")
    /\ process' = Started(run.name, onDisk, unit)
    /\ NextStep
    /\ UNCHANGED <<marker, onDisk, unit, agent, installs, bindingRow, unheard>>

\* Mutant: an agent that runs is not restarted.
StartedAgent == IF agent = 0 THEN onDisk["binding"] ELSE agent
RestartedAgent == onDisk["binding"]

RestartAgent ==
    /\ Under("restart")
    /\ agent' = RestartedAgent
    /\ NextStep
    /\ UNCHANGED <<marker, onDisk, unit, process, installs, bindingRow, unheard>>

-----------------------------------------------------------------------------
(* Reports *)

(* The panel hears that the server is installed, and the script hears that it did. *)
ReportInstalled ==
    /\ Under("report") /\ run.claim
    /\ bindingRow' = [state |-> "installed", token |-> run.number]
    /\ run' = NoRun /\ unheard' = FALSE
    /\ UNCHANGED <<marker, onDisk, unit, process, agent, installs>>

\* Mutant: the environment is not in the backup.
BackedUpJars == {"jars"}
BackedUp == {"jars", "env"}

(* report_failure, the trap of every other end; d is what the failed step leaves, row what the *)
(* panel has, and claim whether the claim is still live.  Its report is not repeated. *)
ReportFailure(d, row, claim) ==
    LET back == [p \in Parts |-> IF run.backup /\ p \in BackedUp THEN run.found[p] ELSE d[p]]
    IN  /\ onDisk' = back
        /\ process' = IF run.backup THEN Started(run.name, back, unit) ELSE process
        /\ \/ claim /\ bindingRow' = [row EXCEPT !.state = "failed"] /\ unheard' = FALSE
           \/ bindingRow' = row /\ unheard' = TRUE
        /\ run' = NoRun

(* What a step leaves that does not come to its end. *)
Leaves == {onDisk} \cup {[onDisk EXCEPT ![Part(s)] = Torn] : s \in {s \in Parts \cup {"purge"} : Under(s)}}

StepFails ==
    /\ run.number # 0
    /\ \E d \in Leaves : ReportFailure(d, bindingRow, run.claim)
    /\ UNCHANGED <<marker, unit, agent, installs>>

(* The answer is lost, and the report that is sent again is refused; or the API stops after it *)
(* stored the state, and the token is not. *)
ReplyLost ==
    /\ Under("report") /\ run.claim
    /\ \E t \in {run.number, bindingRow.token} :
          ReportFailure(onDisk, [state |-> "installed", token |-> t], FALSE)
    /\ UNCHANGED <<marker, unit, agent, installs>>

(* kill -9, or the machine stops; the services that were up may be down then. *)
Interrupted ==
    /\ run.number # 0
    /\ onDisk' \in Leaves
    /\ \/ UNCHANGED <<process, agent>>
       \/ /\ process' = [n \in ServiceNames |-> Stopped]
          /\ agent' = IF agent = 0 THEN 0 ELSE onDisk["binding"]
    /\ run' = NoRun /\ unheard' = TRUE
    /\ UNCHANGED <<marker, unit, installs, bindingRow>>

(* The owner revokes the command while it runs. *)
RevokeClaim ==
    /\ run.number # 0 /\ run.claim
    /\ run' = [run EXCEPT !.claim = FALSE]
    /\ UNCHANGED <<marker, onDisk, unit, process, agent, installs, bindingRow, unheard>>

(* A service is restarted later: by the agent, or by systemd. *)
RestartService(n) ==
    /\ run.number = 0 /\ process[n] # Stopped
    /\ process' = [process EXCEPT ![n] = [p \in InDirectory |-> onDisk[p]]]
    /\ UNCHANGED <<marker, onDisk, unit, agent, run, installs, bindingRow, unheard>>

InstallNext ==
    \/ BeginInstall \/ MarkDirectory \/ StopService \/ Backup \/ Verify \/ WritePart \/ WriteUnit
    \/ EnableService \/ RestartAgent \/ ReportInstalled \/ StepFails \/ ReplyLost \/ Interrupted
    \/ RevokeClaim \/ \E n \in ServiceNames : RestartService(n)

InstallSpec == InstallInit /\ [][InstallNext]_installVars

-----------------------------------------------------------------------------
(* Properties *)

Renamed == \E n, m \in ServiceNames : n # m /\ unit[n] # 0 /\ unit[m] # 0

\* A run that died at whatever step can be repeated: the directory it leaves is never refused
\* as one that is not empty ("Initial installation requires an empty current directory",
\* server-bootstrap.service.ts:658).
CanBeRepeated == marker \/ \A p \in InDirectory : onDisk[p] = 0

\* When the panel has just heard that a server is installed, and the machine that it did, the
\* service runs from what that run installed, and from nothing older.  Not so for a server that
\* was renamed: its former unit is not stopped.
InstalledIsRunning ==
    bindingRow.state = "installed" /\ run.number = 0 /\ ~unheard /\ ~Renamed =>
       \A n \in ServiceNames : unit[n] # 0 => process[n] = [p \in InDirectory |-> bindingRow.token]

\* The token that the agent of an installed server uses is the one that the panel accepts.
AgentIsEnrolled ==
    bindingRow.state = "installed" /\ run.number = 0 /\ ~unheard => agent = bindingRow.token

\* The machine and the panel agree on a server (renderScript, server-bootstrap.service.ts:600):
\* what runs, whom the agent belongs to, and that its directory can be used again.
MachineAgrees == CanBeRepeated /\ InstalledIsRunning /\ AgentIsEnrolled

\* An update that fails by itself after its backup leaves the server, its wrapper and its
\* environment as it found them ("backs up patched JARs before updates", PROJECT_PLAN.md:552);
\* and running, as far as the new Java runtime and server.properties are whole.
FailedUpdateIsUndone ==
    [][(StepFails \/ ReplyLost) /\ run.backup =>
          /\ \A p \in {"jars", "env"} : onDisk'[p] = run.found[p]
          /\ unit[run.name] # 0 /\ (\A p \in InDirectory : onDisk'[p] \notin {0, Torn}) =>
                \E n \in ServiceNames : process'[n] # Stopped]_installVars
=============================================================================
