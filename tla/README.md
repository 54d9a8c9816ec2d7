# Verification of gravit-panel

TLA+ specifications of gravit-panel's own logic, the TLC configurations that check them on
small instances, and TLAPS proofs of what matters most. Every definition is translated from
the source; `PROJECT.json` maps each one to the lines it stands for, lists the hazards of
the code at the lines where they bite, and names for each checked property a plausible bug
that breaks it.

Run a check with `tlc -config RemoteCommandInv_faults.cfg RemoteCommandInv`, a proof with
`tlapm RemoteCommandProofs.tla`.

## The system

gravit-panel administers GravitLauncher installations and the Minecraft servers bound to
them. It has an API (Bun, Elysia, SQLite), a Vue application in the browser, a host agent
in Go that runs beside the game servers, and a Discord module (Java) that the panel builds
into LaunchServer.

| Component | State | Operations | Talks to | Modules |
| --- | --- | --- | --- | --- |
| Server commands (`servers/server-agent.service.ts`, `.store.ts`) | rows of `server_commands`, `sockets`, `bindings`, `pendingSockets` | create a command; an agent's hello, ack, result; send the next one, close, requeue at start | agent (WebSocket), routes, SQLite | `PanelDispatch`, `RemoteCommand`, `CommandPromise` |
| Host agent (`agent/agent.go`, `idempotency.go`) | connection, bounded command queue, worker, result cache and its state file | dial, read loop, admit, execute, replay, reload after a crash | panel, RCON, systemd | `HostAgent`, `CommandCache`, `AgentSocket` |
| Live files and journal (`server-agent.service.ts`, `agent/filesystem.go`, `system.go`) | pending requests with timers, journal cursor and its file | request, answer, time out; stream, acknowledge, persist | agent, browser | `LiveFiles`, `JournalStream` |
| Background jobs (`jobs/jobs.runner.ts`, `jobs.store.ts`) | rows of `jobs` and `job_events`, registries of running and cancelled jobs, queues by key | create, queue, cancel, run, drain, recover after a restart | every route that works longer than a request | `JobRunner` |
| Job event stream (`jobs.events.ts`, `jobs-browser-events.service.ts`, web `job-event-socket.ts`, `useJobLogStream.ts`) | subscriptions; in the page a socket, a log, a polled record | subscribe with history, publish, reconnect, poll, finish | runner, browser | `JobLogStream` |
| Server bootstrap (`server-bootstrap.service.ts`, `.store.ts`, `server-binding.service.ts`) | drafts, their claim and artifacts; state and credentials of the binding; the machine's directory, units and agent | draft, prepare (a job), issue a claim, start, download, report, revoke; the script that runs on the machine | routes, jobs, the server machine (curl) | `ServerBootstrap`, `ServerInstall` |
| Operations on an installation (client builds, Java runtimes, launcher, modules, providers, mods, files) | files on the container volume, what LaunchServer has loaded | long pipelines run as jobs, with backups and rollbacks | Docker CLI, LaunchServer | `Installation` and the `*Programs` |
| LauncherDockered (`docker/launcherdockered.service.ts`, `docker.routes.ts`) | one row, the project directory with its marker, containers and volumes | install, import, remove, roll back, recognise what a dead setup left | Docker, git | `LaunchServerSetup` |
| LaunchServer commands (`gravit/control-file.service.ts` and transports) | the installation that is in use; what LaunchServer has read | send a command, wait, give up; inspect over HTTP or the socket | LaunchServer | `ControlTransport` |
| Accounts of FileAuthSystem (`auth/auth-users.service.ts`) | LaunchServer's memory and `Database.json` | create, change, delete, list | LaunchServer | `FileAuthUsers` |
| Discord module (Java) | accounts and their file, pending links, tickets | log in, refresh, return from the browser, portal | LaunchServer, browser, panel | `DiscordUsers`, `DiscordLogin` |
| Panel authentication, public portal | one-time states, sessions, spent nonces | begin, callback, exchange, log out, expire | browser, Discord | `PanelLogin`, `DiscordLogin` |
| Assets of a client (`clients/minecraft-assets.service.ts`) | the index, the objects on the disk, a list that workers share | look up, download, verify, write, publish | Mojang's servers, client builds | `AssetDownload` |
| What a mod requires (`mods/modrinth.service.ts`) | visited references, calls that have not returned | visit, follow a dependency, return | Modrinth | `ModResolve` |
| Import of a modpack (`ModpackImportCard.vue`, `mods.routes.ts`, `mod-manager.service.ts`) | what the card shows, inspections on their way, the job's input | inspect, select, import; resolve again, fit the profile, compare, install | Modrinth, bindings, profiles | `PackImport` |
| Selection of mods (`ModsView.vue`, `job-notifications.ts`) | picks, the browser's storage, callbacks of jobs | pick, change the profile, install, clear after a success | browser, jobs | `ModSelection` |
| Console of a server (`ServerRuntimeConsole.vue`, `server-browser-events.service.ts`) | lines and reports shown, generations of the socket | open, replay, follow, reconnect | panel's event socket | `ServerConsole` |
| RCON client (`agent/rcon.go`) | one connection, the answer so far | authenticate, send a command, read packets until nothing comes, give up | game server | `RconClient` |
| Self update, setup, other views, server packs | a few files; rendering | handshake with the host | — | — |

The API is one JavaScript thread. What makes it hard is that nearly every operation awaits
a child process or the network many times, that cancelling a job only asks its task to stop (the
job stays `running`, and refuses others, until the task has ended), that some routes look for no
other job at all, and that four other parties (agent, machine, LaunchServer, browser) restart and lose
messages on their own.

### What is hard

* **Commands.** Two processes that both restart, a connection that breaks at any message,
  a state file that may not be written, a bounded result cache. The agent must not run a
  restart or an RCON command twice, and the panel must not report a success that did not
  happen. A new session of an agent may be up before the panel has seen the old one end.
* **Jobs.** A task cannot be stopped, only told; its promise may settle before or after
  the cancellation, or the process may die between a job's status and its event. Queues
  are chained by promises, and an entry may be added just as the queue's last one ends.
* **The log page.** Three sources (a socket's history, its live events, polled records)
  in any order, any of which may be lost, and one end of the job that must be announced
  once.
* **Bootstrap.** Handlers that await network or file access between the check of a row and
  its update, while other requests and a long job change the same rows. On the machine, a
  script that may die at any line, be repeated, and whose report may be lost.
* **The volume.** Pipelines of up to twenty awaits with nested try statements, each of which
  may fail before, in, or after its effect; a cancelled job's task runs on up to the next place
  that looks at the signal; mod jobs and uploads run beside other jobs; the API may die at any
  await.
* **LaunchServer.** It keeps in memory what the panel edits on its disk, it runs a command
  that the panel has given up, and it is stopped and started under both.
* **Logins.** One-time values that come twice, while the first use awaits Discord.
* **Journal.** The stream of an old connection runs on beside the new one and shares its
  cursor.

## Modules

```
ServerCommands                vocabulary: commands, results, fault classes
  CommandCache                agent/idempotency.go, one process and its state file
  AgentSocket                 the sessions between one agent and the panel
    HostAgent                 agent/agent.go for one binding (uses CommandCache)
    PanelDispatch             server-agent.service.ts and .store.ts for one binding
      RemoteCommand           HostAgent and PanelDispatch composed; the properties
        RemoteCommandInv      the inductive invariant
          RemoteCommandProofs the proofs, also those about executions, results and CommandPromise
CommandPromise                abstract: what a command promises; implemented by RemoteCommand

JobRunner                     jobs.runner.ts, jobs.store.ts
  JobLogStream                the panel's event socket and the page    (MCJobs)
    JobProofs                 the proofs about both

ServerBootstrap               server-bootstrap.service.ts and .store.ts, server-binding.service.ts,
                              job exclusivity of an installation       (MCServerBootstrap)
  ServerBootstrapProofs       the proofs

VolumeSteps                   vocabulary: one awaited call as a step, try and catch, places
  ModulePrograms              modules, providers, RemoteControl, provisioning
    ClientPrograms            profiles, client and launcher builds, Java runtimes
      ModPrograms             mods, bulk operations, modpacks
  FilePrograms                the file browser, startup recovery
    Installation              the volume, LaunchServer and two jobs that run these programs
      InstallationInv         what each program makes of the volume, step by step; the
                              inductive invariant
        InstallationProofs    the proofs

AssetDownload                 minecraft-assets.service.ts
PackImport                    the import of a modpack, page and job
ModSelection                  the selection of mods in ModsView.vue
ModResolve                    what a mod requires
ServerConsole                 the console of a server, panel and page
RconClient                    agent/rcon.go
  MCWork                      Installation and these six together, for TLC
    WorkProofs                the proofs about the six

LaunchServerSetup             docker.routes.ts, launcherdockered.service.ts, the installations store
ControlTransport              the control socket and RemoteControl's HTTP
  FileAuthUsers               the accounts of FileAuthSystem over it
    FileAuthUsersProofs       the proofs, also those of LaunchServerSetup
DiscordUsers                  the storage of the Discord module
  DiscordLogin                its logins, and the portal's tickets
PanelLogin                    panel-auth.service.ts and panel-auth.routes.ts
  PanelLoginProofs            the proofs, also those of DiscordLogin
LiveFiles                     requests for live files, panel and agent
JournalStream                 the journal of a game server, agent and panel
ServerInstall                 the installation script on its machine, and its report
  AgentProofs                 the proofs about these three
MCPanel                       this last group together, for TLC
```

Definitions that begin with "Mutant" in their comment are the plausible bugs `PROJECT.json`
names; no specification uses them.

### Server commands

The panel is one JavaScript thread over a synchronous SQLite, so each of its handlers is
one action: `CreateCommand`, `Open`, `HelloMessage`, `AckMessage`, `ResultMessage`,
`SocketClosed`, `PanelRestart`. `Dispatch` is `dispatchNext`, including the recursion that
fails expired commands and the `send` that throws. `active` is `sockets.get(bindingId)`,
`sock[s]` tells whether socket `s` is new, open and unbound, bound or closed, and `status`
the column of that name (`expired` is `failed` with its error text).

The agent's read loop is a small machine (`reader`): a command is acknowledged, then
`begin` has four outcomes (`ReplayCached`, `JoinPending`, `RefuseUnpersisted`,
`TakeOwnership`), then it is put in the bounded queue or refused. The worker takes the
oldest entry and executes it (`StartExecution`, `FinishExecution`); `waiters` are the
goroutines of `replayPending`. `CommandCache` is the cache with its eviction and the file,
whose write may fail and still have taken effect (rename done, directory fsync failed).
`AgentRestart` stops the process at any point and reloads the file.

Each direction of a session is a FIFO. When a connection is lost any suffix of what the
agent sent is lost with it; what the panel had sent and the agent had not read is lost.
When the panel replaces a socket by a newer one of the same agent, the close callback may
run inside `close()` or at a later time; `CloseCallbacks` selects. Bun runs it inline, the
safety runs allow both.

Ids are numbers in the order of `created_at`; rows with equal times are taken to be
ordered by the query. Not in these modules: heartbeats and runtime status,
the two-minute wait of `waitForCommand` (it only stops waiting), SQLite writes that fail,
result texts. `finishCommand` tells success from failure by the presence of an error text,
and the agent never sends an empty one, so a result is its kind.

### Jobs

One action is what the JavaScript thread runs up to an `await`. `at[j]` is the place of
the job's `runJob` call, `drain[k]` that of a queue's `drainQueue` call. A task is what the
runner sees of it: it logs, and returns or throws at some time whether or not its signal
is aborted. A cancellation may come before the microtask that enters `runJob` although the
code gives no other handler a chance in between for `create`; this only adds behaviours.
`Restart` stops the process at any point, also between the write of a terminal status and
the write of its event (`StatusesLeft`), and runs `recoverInterruptedJobs`.

### The log page

`JobLogStream` extends `JobRunner` and follows one page and one job. `wire` holds frames
(sets of event numbers) on their way to the page; `phase` is the WebSocket as the page and
the panel see it, `calls` the `getJob` requests in flight, each answered at a moment and
delivered at another. `finish` is `FinishJob`, with its guard. Frames lost in the middle of
a live connection do not occur (TCP), only a suffix when it breaks. The panel's own close
after a terminal event is a connection that ends with any part of the frames delivered.
Rows of jobs are never deleted, so the close with code 1008 is left out. The interval's
calls may overlap, as in the code; `Calls` bounds how many.

### Installing a server

`ServerBootstrap` is one binding: its row (`config`, `state`, `credential`), its drafts and the jobs
and requests that read and write them. A job or a request that is suspended at an `await` is a
record with what it has read so far, so each action is the code between two awaits:
`PrepareCreates`, `PrepareReads` and `PrepareReady` are the prepare route and `prepare` up to
`getProfile`, up to its downloads, and up to the removal of the staging directory. `IssueRequest`,
`CallReads` and `Issue` or `CallInvalidates` are `issue` around `assertDraftCurrent`;
`StartRequest`, `CallReads`, `StartCompares` and `StartServes` are `start`. `UpdateSaves` is the end
of `apply` together with the route's invalidation of the drafts; `save` inserts a row that is gone,
so a remove beside an update would be undone. A job that rewrites the profile (`ClientRequest`) may
begin at any time, since the mod routes look for no other job (mods.routes.ts:149). The settings of
a binding are one value (everything `assertDraftCurrent` compares), the profile is a version number,
tokens are the run they were made for.

Left out of it: creation of bindings, a crash between two writes of one handler and the fetching of
artifacts. What the machine does with the script is `ServerInstall`. Server packs are disabled in
the routes, and `setDesiredPack` and `reportPack`, which also write the state of a binding, have no
caller.

### Operations on an installation

Some forty operations of eight services have one shape: a sequence of awaited calls (a
command in the container, a command to LaunchServer, Compose, a download) inside try
statements whose catch and finally blocks are again such calls. `VolumeSteps` is the
vocabulary. A program is a sequence of steps; a step names the place it reads or writes
(`Copy`, `Move`, `Edit` what was read, `Put` new bytes, `Drop`, ...), what LaunchServer does
(`Save`, `Build`, `Sync`, `Ask`), or a point of control (`Check` the signal, `Enough` for an
early return, `Try`, `Commit`). A step carries the undo steps of the try statements that it
opens, with the block they belong to; `UndoOf(p, i)` is what runs when step `i` of `p`
throws, innermost statement first, without the blocks that have ended. `Quiet` is
`.catch(() => {})`. `ModulePrograms` to `FilePrograms` are the services, one program for
each method, and the jobs of their routes.

`Installation` runs them. The content of a place is the set of jobs whose change it holds (0 for
what was there before, -1 for half a tree), so that a lost update, a lost original and a stale file
are all visible as sets of numbers. `Succeed`, `Refuse` (a throw without effect) and `Break` (an
effect, whole or half, and a throw: `docker compose exec` is killed after a minute) are the outcomes
of a step; `Skip` and `Return` are its control; `Again` is a retry, `RestartFails` a Compose restart
that stops LaunchServer and does not start it, `Cancel` and `Crash` the job's and the API's end.
`Begin` is a route: single jobs are refused while the installation has an active job, mod jobs wait
in the queue of the installation, uploads await their body between the check and the job
(`MayBegin`). A cancelled job stays active until its task has ended (jobs.runner.ts:80), so it keeps
others away as before. `Areas` pairs the operations that can meet: the first job of a behaviour is
from the one set, the second from the other.

Backups and staged files carry a timestamp and a random id in the code, so each job has its
own (`Private`). Content is not bytes: two writers of one place are told apart, two versions
of one writer are not.

### The LaunchServer of the panel

`LaunchServerSetup` has the setup jobs (`install`, `import`) and the removal as plans of steps with
their log lines: a line written after a cancellation throws, also the first one of the rollback. A
cancelled job counts as active until its task has ended. A process that dies in the recursive
removal leaves a part of the files (`ruined`), perhaps without the marker. The state is the row of
the store, the directory (`none`, `marked`, `plain`, `ruined`) and the containers at the managed
path and at one of the operator's.

`ControlTransport` is `executeCommand`: `active` is `activeInstallations`, a call goes from its
probes for the socket to the line it sends and to the end of socat; `accepted` is what
LaunchServer has read and not finished, which outlives the panel's patience.
`FileAuthUsers` uses it: each job is a list of such commands and file accesses, LaunchServer
holds the accounts in `memory` and writes `disk` when told to save or when it stops. `said` is
what the panel has reported of an account.

### Signing in

`PanelLogin` has the table of states, the cookies of each browser, callbacks that have taken their
state and wait for Discord, and sessions; a clock moves, and what is over is deleted when the next
request looks. An answer that sets or clears a cookie may be lost. `DiscordUsers` is the storage of
the Java module, synchronized call by call, under threads that find an account and write it later;
`DiscordLogin` adds the pending links, the browser that returns any number of times, the launcher
that asks again, and the portal's tickets with the panel's table of spent nonces. A save of the
storage may fail, which is only logged, before or after it has emptied the file (`Save`, `CutOff`),
and a file that was cut off keeps the module from its storage at the next start (`Killed`).
`completeTicket` reads the clock for the ticket and again for the clean-up (`TakeTicket`). What was
completed can be confirmed by the connection and then by the state
(DiscordAuthCoreProvider.java:183, 189); no property counts that. Every nickname is the same, so
that names must differ by their suffix.

### Live files, journal, installation script

`LiveFiles` has requests made in the order of their numbers, each with its timer; the agent's read
loop does one after another and answers on the connection it came from, which the panel may have
replaced. A delete has two paths and may fail when the first is gone already (`Halfway`; up to a
hundred in the code). `JournalStream` has a stream for each connection, all of which write one
cursor; the journal drops old lines, the cursor file or a row may fail to be written. The panel
keeps the newest `KeptRows` rows of a server (2000 in the code), among them events of other kinds
(`OtherEvent`); `dropped` remembers the lines that had to go. `ServerInstall` is the script of
`renderScript`, line by line where it changes something, with its `trap`: a run fails by itself (and
undoes), is killed (and does not), or its report is lost; what a run writes is its number. The
panel's side is there a claim that is live or spent.

`MCPanel` extends the modules of the last three sections, so that one run of TLC checks them. They
share no state; `part` picks the one whose actions a behaviour takes. `MCJobs` does the same with
several jobs in queues and the page of one job, `MCWork` with `Installation` and the modules of the
next section.

### Mods, assets, consoles

These six stand beside the operations on an installation and share no state with them.

`AssetDownload` is `ensureAssets`: a call looks up three files (`main`), then its workers share the
list `left`. When one of them throws, `Promise.all` fails the job at once and the others work on, so
a call of a later job may run beside them. The file of an object may be there from before, with
whatever bytes.

`ModResolve` is `resolveInstall`, which calls itself; `visits` are the calls that have not returned.
It begins with any graph of requirements, but of no project on itself. A required project without a
version for the profile is left out without a word. The selected project is marked by its slug and a
dependency by its id, so on a cycle the selected one is resolved twice, and its entries are told
apart by `as`.

`PackImport` is the card of a modpack in the page and the job that installs what it shows. A pack is
a record of what the job compares: platform, loader version, paths, bytes. The page sends what it
has, so the questions are whether an inspection that arrives late belongs to what is sent, and what
the job takes for the same pack: for one of Modrinth the version's id is not compared. The profile
is built again before the selections are compared, so an import that is refused may leave a rebuilt
profile. `Elsewhere` is what others do at any time until the import ends: profiles are rebuilt or
removed, servers bound elsewhere, versions published. A client job that was active when the import
was asked for may write the profile under it; `overrun` tells of that.

`ModSelection` is what an operator picks in `ModsView.vue`, the browser's storage of it, and the
callbacks of a job that has installed it. They clear the selection of the profile that is selected
then, which need not be the job's (ModsView.vue:1091, 1211), and with it what was picked since; an
update of mods clears it as well. `of` in a pick is a history variable.

`ServerConsole` has one server and the connections of one page, numbered by
`connectionGeneration`; an old one may still call back. `RconClient` is one call of `executeRCON`.
Its server is not fixed to the protocol: it may send other packets in between, and pause longer than
the client waits. The reading may end before the answer does, by the quiet gap, the deadline or the
end of the connection: what was read is then returned without a mark (rcon.go:115, 135). A call that
fails may have been executed, and an empty packet that comes after
output of exactly the limit is reported as truncation.

## Runs

| Run | Question | Bounds |
| --- | --- | --- |
| `command_faults` | Under every fault class at once: is a command executed at most once, is its acceptance on disk before its effect, is one in flight and are they sent in order, and do panel and agent implement `CommandPromise`? | 2 commands, 3 sessions, 1 agent crash, 1 panel restart, cache of 3, queue of 1 |
| `command_order` | With more commands than the cache retains and a crash: are commands executed in order of creation, is what was executed settled truly (`HistoryInv`), and is a command always answered the same? | 4 commands, 3 sessions, 1 agent crash |
| `command_live` | Does every command settle? | 2 commands, 2 sessions, 1 crash, 1 restart |
| `command_expired` | (violated) 'Command expired before delivery' of a command that was executed | 1 command |
| `jobs` | Do statuses, events, queues and registries agree under cancellation and a restart, is a terminal status final, and does every job end? Has the page's log no hole, is a live log complete, is the job finished once and truly, is the page quiet afterwards, and does it learn of the end, also when the panel died before writing the event? | 3 jobs, 2 queues, 1 log event, 1 restart; or the page of 1 job in no queue, history of 2, 2 calls, 2 faults, 1 restart |
| `bootstrap_current` | Does a command that is out, and a binding shown as installed, match the settings of the binding, whatever came in at the awaits, and does the invariant of the proof (`CurrentInv`, which contains `LiveClaimIsCurrent`) hold? | 2 values, 2 drafts, 2 jobs, 2 requests, 1 restart, 1 script |
| `bootstrap_cancel` | With cancelled jobs, mod jobs and changing profiles: does a removed binding stay removed, is an ended claim dead for good, does every preparation end? | 1 draft, 2 jobs, 1 request, 1 script |
| `bootstrap_cancelled` | (violated) with cancelled updates, a command that is out matches the settings | 1 job, 1 request |
| `volume` | For two jobs of each group of operations: is what was there kept, is what belongs together changed together or not at all, is what is reported also served, are catalog, markers and token true, is no update lost? (Module `MCWork`, with the work beside them:) Is an index of assets complete, is a mod resolved to what it requires, is a pack installed as it was shown, does a selection stay with its profile, does a console show the end of the journal, and is what RCON returns the beginning of what the server answered? | 2 jobs, 16 groups, 1 fault besides clean failures and cancellations; the constants of `MCWork_volume.cfg` |
| `tables` | Does the invariant of the proofs about `Installation` hold, and are the tables of the forty programs that it refers to complete and good? | 2 jobs, 6 groups, 1 fault besides clean failures and cancellations; the tables are of all operations and have no bound |
| `trash` | (violated) a mod that was removed or replaced is in a trash | 2 jobs, 1 group, no fault |
| `panel` | Setup, commands to LaunchServer, accounts, logins, live files, journal and installation script: the properties below | the constants of `MCPanel_panel.cfg`: among them two rows of the journal that are kept and one request to LaunchServer of which a save may fail; of two live files one is there at first, and where the files are checked perhaps the other |

Several properties are conjunctions of named parts:

| Property | Parts |
| --- | --- |
| `JobInv` (`jobs`) | types; a cancelled job never succeeds (`CancelWins`); a queue runs one job (`OneAtATime`), is drained (`QueueIsDrained`), and the registries forget what ended (`NothingLeaks`) |
| `PageInv` (`jobs`) | types; `LogHasNoHole`, `LiveLogIsComplete`, `QuietAfterFinish` |
| `JobsEndAndAreSeen` (`jobs`) | `EveryJobEnds`, `PageLearnsTheEnd` |
| `RecordsTellTruth`, `SuccessIsPublished` (`volume`) | `CatalogIsWhole`, `MarkersTellTruth`, `NoOrphanToken`; `SuccessIsLive`, `LauncherFollowsConfig` |
| `AssetsAreComplete` (`volume`) | types; `IndexIsComplete`, `CompletedIsInPlace`, `WorkersEndTogether` |
| `PackIsAsShown` (`volume`) | `SourceIsShown`, `InstallsAsShown` |
| `WorkIsSound` (`volume`) | `ResolvedIsClosed` (`ResolvesWhatIsRequired`, `ResolvesInOrder`), `SelectionIsSound` (`SelectionsAreApart`, `ReloadIsCurrent`), `ConsoleIsComplete` (`NothingIsMissed`, `ConsoleGoesOn`), `RconIsSound` (`CommandIsExecutedOnce`, `OutputIsTrue`) |
| `SetupKnowsItsOwn` (`panel`, as all below) | `InterruptedIsRecognized`, `SetupErasesOnlyItsOwn` |
| `ControlInv` | `OneCallAtATime`, `SentAtMostOnce` |
| `AccountsAreAsReported` | `ReportedIsKept`, `DeletedStaysGone` |
| `LoginsAreOneTime`, `AccountsLast` | `CompletedOnce`, `OneSessionPerTicket`, `LinkIsTheOneThatWaits`; `NamesDiffer`, `NameIsKept`, `ReportedSessionIsStored` |
| `SessionsAreSound` | `OneSessionPerLogin`, `LetInIsLive`, `SessionIsOfItsBrowser` |
| `FilesAreAsReported` | `ReportedIsInPlace`, `AnswerIsItsOwn` |
| `JournalIsWhole` | `StoredOnceInOrder`, `NoHoleBeforeCursor` |
| `MachineAgrees` | `CanBeRepeated`, `InstalledIsRunning`, `AgentIsEnrolled` |
| `WaitersAreAnswered` | `AccountWorkEnds`, `RequestSettles`, `LineArrives` |

Some of them state where they hold. These are limits of the code, each found by TLC when the
condition was left out:

* `DeletedStaysGone`: a page that lists the accounts, or a LaunchServer that stops, between the
  write of the file and its reload writes the deleted account back. `ReportedIsKept`: not when
  LaunchServer dies before the save.
* `NameIsKept`: not when two requests create one account at once, or a start of LaunchServer did not
  get at its file; an account leaves the file when a write does not get to its end.
  `ReportedSessionIsStored`: not in memory when another request works on the account, and not in the
  file when the last save failed, of which nobody is told (JsonUserStorage.java:100).
* `OneSessionPerTicket`: a ticket that is repeated in the instant between the two readings of the
  clock makes a second session (public-portal.service.ts:103, 118).
* `FailedSetupLeavesNothing`: not when the job was cancelled, as the rollback begins with a line
  that it may not log any more; not when the rollback fails itself or the API dies.
* `InterruptedIsRecognized`: not when the API dies while the files are removed, as the marker may be
  gone before them.
* `FilesAreAsReported` says nothing of the paths of a request that failed: a delete may have moved
  some.
* `JournalIsWhole` is about the rows that are kept. A line that had been dropped comes again when the
  stream of an old connection sends it again, and then it is out of order.
* `NoLostUpdate`: between mod jobs, or between other jobs. A mod job beside another job that edits the
  profile loses an update, as it looks for none (mods.routes.ts:149).
* `WritesToTheProfile`: not when another job writes the profile after the import has read or rebuilt
  it (`overrun`).
* `RconIsSound`: an answer is marked as cut when something that was read is left out, not when the
  reading ended before the answer.
* `AllOrNothing`, `SuccessIsLive`: for an operation that runs alone; `AllOrNothing` also needs that
  no step was half done, as an undo of what cannot be known is not attempted.
* `OriginalKept` is about the twelve places that an operation backs up. It leaves out client builds and
  modpacks, which replace files in place, and mods, the Discord configuration, uploaded and written
  files, which are replaced without a backup.
* `InstalledIsRunning`: not for a server that was renamed, whose former unit is not stopped.

The bounds are enough for the cases that matter: two commands are needed for one to wait
behind another, three sessions for a second reconnection while messages of the first are
still under way, a cache of three with a queue of one is the smallest `RetentionAssumption`
allows and is overrun by four commands. Two queues and three jobs let one queue have a
successor while another runs. A history shorter than the log makes the page's window
slide. Two drafts, two jobs and two requests are what a race of a preparation with an update
and of two requests for one binding takes. In the groups of `volume` two jobs are what an
installation can have under way (a mod job beside another one, or an upload), and one
fault besides any number of clean failures reaches every line of every catch block. `tables`
has six of the groups, because `IInv` is a large formula and a run should take minutes; the same
configuration also passes with each of the others. Of the work beside them: two calls of two workers
over two objects, one of which may be on the disk, are a worker that goes on after its call has
failed, beside the next call; three projects are a cycle, a diamond and a selected project that a
dependency requires, and three visits are fewer than some of these take; five packs differ from the
first in one thing each; the server is bound to the profile of the page when the behaviour begins,
and one change elsewhere unbinds it or changes profile or pack; two mods with one that may be
selected reach the limit, and two openings of the page are one that was left with a callback to
come; four connections are two that come late; an answer of three packets of at most two is one that
fits a limit of three, fills it or exceeds it. In
`panel` two of each (jobs, browsers, callbacks, threads, requests, connections) make every
race of the code, three lines of a journal a hole between a stored one and the cursor, and a
clock of three an expired session beside a live one; two installations are a first one and an
update. Bounds are CONSTANTS, and where one stops a fault (the last session is not lost) the
action says so.

`bootstrap_current` uses symmetry: no definition chooses among jobs, requests or settings,
and it checks invariants only. Deadlock is off where the system stops when everything bounded
has happened.

The three runs that are expected to be violated state what a comment, a doc or an error
text of the repository says; `PROJECT.json` quotes it under "findings".

Fairness. The agent's goroutines go on when they can, RCON and systemctl calls run under
deadlines, and the panel's event loop reaches every message and timer: weak fairness of
these actions (`Fairness`). Jobs: microtasks run and tasks end (each waits on deadlines or
on a process that ends); nobody has to create or cancel one. The page: timers fire and
requests are answered or fail. A preparation goes on, as it reads
files and downloads under deadlines, and nobody has to prepare anything. An account job goes
on and its calls end by their timers, while LaunchServer need not answer, nor start again
(`UsersFairness`). A live request has its timer (`LiveFairness`; the agent is not fair). The
journal's stream goes on, the connection comes back and the panel answers (`JournalFairness`).
No fault is fair, and each is bounded, which is the
assumption that faults end. `command_live` has close callbacks inline: if the callback of a
replaced socket ran later, after the new session's last message, its requeued commands
would have nothing to dispatch them.

## Proofs

`RemoteCommandProofs` proves for any number of commands, sessions, crashes and restarts,
any set of faults, and any cache limit and queue capacity with
`CacheLimit > QueueCapacity + 1` (4096 and 64 in the code): `TypeCorrect`, `InvariantHolds`
(`Inv`), `ExecutedAtMostOnce`, `OneInFlight` and `AcceptanceIsDurable`.

At-most-once execution is not inductive: the agent forgets old results, so the argument
needs the panel. The panel sends only the oldest unfinished command (`TouchedInOrder`),
what arrives is never older than what the agent owns (`IncomingInOrder`), so only the
newest owned command can come back; each command in flight occupies one slot of the queue,
the reader or the worker (`PendingHeld`), so at most `QueueCapacity + 2` results can be
appended before that one is settled, and it is still retained in memory and, for a new
process, on disk (`RememberedInMemory`, `RememberedOnDisk`). The proof has one lemma per
conjunct and action, and a theorem per property.

`JobProofs` proves for any number of jobs, queues, log events and restarts
`QueuesAndCancellations` (`JobInv`), `LogsTellTheTruth` (`LogTellsStatus`) and
`StatusesAreFinal` (`TerminalIsFinal`). None is inductive. That a cancelled job is never
written as succeeded needs that the place of its `runJob` call determines its row, its signal
and its mark together (`Agrees`): a call that has not begun belongs to a queued job, or to a
cancelled one that is still marked; a call that awaits its task belongs to a running job whose
signal is aborted exactly when it is marked. That the jobs of a queue run one after the other
needs that a job is in one place of one queue (`EntriesApart`) and that the head is where
`drainQueue` believes it to be (`HeadsAreRun`). A crash leaves a terminal status without its
event, so after a restart the log may end without one, but no event contradicts a row. The
lemma `Entered` covers the three ways into `runJob`, `Created` the two ways to make a job.

`ServerBootstrapProofs` proves for any settings, number of drafts, jobs, requests, profiles,
scripts and restarts:

* with cancelled jobs too, `TypeInvariant`, and from it `BootstrapTypeCorrect` and `RemovalLasts`
  (`RemovedStays`). An update saves its row without looking whether it is still there, so it matters
  that a removed row has no job that is to save it (`RemovalStands`): a job that writes the row is
  created in the same step that found no active job, and jobs that are created after an `await`, or
  without looking (mod jobs), do not write it (`OneWriter`).
* with cancelled jobs too, `ClaimsStayDead` (`NoClaimRevived`). The store writes 'ready' to a draft
  whatever its status is, so the argument is about who may still do so: a preparation that has not
  finished works on a draft that was never issued, and a draft that was issued is neither in
  preparation nor ready (`ClaimsSpent`).
* while no job is cancelled, `CurrentInvariant`, and from it `CommandsAreCurrent` and
  `InstalledShownTruly`.

The last two are not inductive. An issue request compares what it read of a draft
before its `await`, so it matters that a bundle is made once: each draft has one preparation
and no bundle until that preparation finishes (`PreparationsApart`), hence a finished bundle
that a request holds is still the draft's (`BundleStands`). An update writes a state it read
before its `await`; no other job changes the settings meanwhile (`OneWriter`), so a state it
keeps fits the settings, and a report that arrives in between comes from a command that is
current (`KeptStateFits`, `LiveClaimIsCurrent`). The assumption is needed: a cancelled update
saves the settings and does not invalidate the drafts (`bootstrap_cancelled`).

`PanelLoginProofs` proves for any number of browsers, logins and callbacks, any lifetimes
and any clock: `PanelTypeCorrect` and `SessionsSound`. That one login makes one session is
inductive only with what the two tables mean (`PanelInv`): a login's state is in the table
or was taken by one callback, never both, so no second callback finds it; a cookie of a state
or a session is of a login that this browser began; a session that was logged out is in no
table, and what a browser shows is looked up there.

`FileAuthUsersProofs` proves `OneCommandAtATime` for any number of jobs, accounts and events.
`ControlInv` is not inductive: an answer, a timeout and a stop of LaunchServer clear
`activeInstallations` whoever waits, so it matters that whatever LaunchServer has read and
somebody still awaits belongs to the one caller that holds the installation (`AwaitedIsHeld`,
`OneAwaited`), and that nothing is sent before the last phase (`SentOnce`). The lemma
`CallMoves` covers every step of a call that waits for no answer, `CallReleases` those that
end one.

`AccountsTruly` (`AccountsAreAsReported`) rests on it. Commands that nobody waits for any more stay
with LaunchServer, so the question is what they may still do. A command that changes an account is
about one of which nothing is reported (`NothingSaid`): its job is under way or has failed. And
commands run in the order they were sent, so a job that has been answered once has nothing of former
jobs before it (`Clear`, `InTurn`): what it changed is in memory, and after its save on disk
(`Registered`); what it read of the file, and writes, is the file without the one account
(`Removed`). A list saves memory, which is why a deletion may be undone by it and a registration may
not. A job that is cancelled stays active until its task ends, so it is alone all the same. Each of
the four parts needs that LaunchServer did not stop (`Undisturbed`), which is what the property says.

The same module proves `SetupLeavesNothing` and `SetupsKnowTheirOwn` for any number of setup jobs,
faults and cancellations. One setup is at work, cancelled or not, and it is alone until it has
registered (`Alone`); what is at the managed path before a row names it belongs to the one
clone that is past its place (`Accounted`), so the rollback and the removal find only what that
clone made. The proof corrected the model: a rollback could still reach the `erase` of its own
plan, which the code leaves with the exception that begins the rollback.

The second half of `RemoteCommandProofs` adds the history of a command to `Inv`.
`ExecutionFollowsCreation` (`ExecutedInOrder`): what waits in the queue and what is being admitted
are in order and later than everything executed (`QueueInOrder`), since the panel offers only its
oldest unfinished command. `PromiseIsKept` is the refinement: a step of panel, agent or sessions is
a step of `CommandPromise` for one command at most, or none (`RowMoves`); a claim of success is of a
run that succeeded (`ClaimsAreTrue`), whoever carries it: cache, file, goroutine or wire.
`AnswersAreTheSame` (`OneAnswer`) has the hypothesis that the state file can be written: then file
and memory agree (`DiskIsCurrent`), and what was answered and may come again is remembered
(`AnsweredInOrder`). When it cannot, a new process may not know what the former one answered.
`HistoryHolds` is the conjunction of these invariants, which `command_order` checks.

The same module proves `PageIsSound` (`PageInv`) and `FinishedTruly` (`FinishedOnceAndTrue`) for
any number of events, calls and faults and any length of the history, on top of the invariant of
the jobs. Frames on the wire are runs of events, each going on from the one before, the
first of them from what is shown, or replacing it (`FramesFit`); a live connection has the
newest event shown or in its last frame (`NewestComes`); a record with a terminal status that was
fetched at any time is the last one of its job (`CallsAreTrue`), as no status follows a terminal one.
Both are about one page; older lines that a limited history did not bring are not shown, and the page
does not say so.

`AgentProofs` has the three parts of an agent beside its commands:

* `FilesTruly` (`FilesAreAsReported`): connections follow each other and each carries its requests
  in the order they were made, so the request that the agent does next is newer than all that it has
  done (`DoneBefore`): what it does to a path is undone by later requests only, also by one that
  fails halfway.
* `ConsoleIsWhole` (`JournalIsWhole`): two streams run side by side after a reconnection, and each
  believes the shared cursor. As long as no line was passed over, what was ever stored (`Reached`:
  it is there or was dropped) goes on from the first line without a gap, and every line that either
  stream sends or has on its way is among it or the next one (`StoredGoesOn`); the cursor is of a
  line that was stored (`AckedIsStored`).
* `MachineTruly` (`MachineAgrees`) and `UpdateIsUndone` (`FailedUpdateIsUndone`): a run that is at a
  step has written all that comes before it (`WrittenByNow`), and the service is down from its stop
  to its start (`DownUntilStarted`), so that when panel and machine agree that a server is
  installed, all its parts are of one run (`AgreedIsWritten`).

`PanelLoginProofs` also proves `DiscordLoginsAreOneTime` (`LoginsAreOneTime`) for any number of
threads, states, tickets and a finite number of accounts. A
state that was completed is in no table any more (`CompletedIsGone`), so a second return of the
browser finds nothing; the report that waits is the one of the link on the launcher's screen
(`LinkIsTheOneThatWaits`); a nonce is kept as long as its ticket is valid (`TicketIsOfWhoIsOver`), so
a second session takes the instant at which it ends. How often a report is confirmed is not counted.

Of the accounts of Discord users it proves `DiscordAccountsLast` (`AccountsLast`) for any number of
requests, failing saves and kills. What the file has of an account is what memory has of it, unless
a start did not get at the file (`StoredIsHeld`); a request that is to save holds the object that is
found for its account, unless two requests created the account (`ThreadsHoldObjects`); and an
account whose tokens are not in the file is one that somebody is about to save, or the last save
failed (`SavedOrSaving`). The proof corrected the model: it had a fixed number of names, which
several requests that create one account at once could use up, where `createUser` always finds a
suffix.

### The operations on an installation

`InstallationProofs` proves for any groups of operations (`AreasAssumption`), one or two jobs
(`SlotsAssumption`) and any number of faults (`FaultsAssumption`): `InvariantHolds` (`IInv`), and
from it `OriginalIsKept` (`OriginalKept`), `RecordsAreTrue` (`RecordsTellTruth`), `NoUpdateIsLost`
(`NoLostUpdate`), `FailuresAreAllOrNothing` (`AllOrNothing`) and `SuccessesArePublished`
(`SuccessIsPublished`).

The programs are data: forty constant sequences of steps, each with the undo steps that run when it
throws. The argument has two halves.

* *About each program alone.* `InstallationInv` executes a program on names instead of contents:
  what was at a place when the job began (`Old`), what the job writes (`Mine`), half a tree
  (`HalfDone`), a configuration switched off (`Off`), what LaunchServer had loaded (`Held`).
  `Bodies` and `Undoings` are the tables of what can be at each step, wherever it threw, returned
  early or was cut off, and however often. They are functions, not RECURSIVE operators. The
  `ASSUME`s of that module are closed formulas about these constants, without a parameter: that the
  tables are closed under the steps (`TablesAreClosed`), that their places are touched by one job
  (`ViewsAreApart`), and that what they hold is good, such as `OriginalsAreNamed` (wherever an
  operation is or ends, it has the first content of what it replaces), `FailuresAreWhole`,
  `PublishedIsLoaded`, `RuntimesAreWhole`, `MarkersFollow`, `TokensAgree`. To unfold forty programs
  step by step is evaluation and not proof, and the provers have no evaluator, so TLC computes them
  in the run `tables`: not on an instance but as they stand.
* *About two jobs, faults, cancellations and crashes.* TLAPS proves that the tables say what happens:
  every action of a job (`StepFollows`) leads from an entry of its table to one that may follow, in
  every view of the volume that no other job disturbs (`Views`), and that what remains of a job when it
  has ended is not undone by the other.

The invariant has these parts, and each is needed:

| Part | Why |
| --- | --- |
| `TypeInv`, `OrderInv`, `FreshInv` | jobs begin in order, a job that has not begun has written nothing anywhere, the second one is from the second set of its group |
| `BaseInv` | what a job found when it began is what its names mean for good; while it is alone nobody else changes it |
| `TrackedInv` | a job that runs stands at an entry of its table, with the contents, reads, LaunchServer's memory and the steps it still owes as there |
| `OwnedInv` | after a job has ended or died, what was there before is still at the place or in its backup, which no later job touches |
| `SureInv`, `HandedInv` | profile, client and configuration are edited by both jobs at once: each reads before it writes, and every copy or staged file of it holds what was there first |
| `UpdateInv` | of two jobs of one kind that edit the profile the second began after the first was over, cancelled or not, so it read the first one's profile and all it does with it keeps that |
| `RuntimeInv`, `MarkerInv`, `NoOrphanToken` | what a job left in catalog, markers and token stays true while the other job works |
| `CacheInv` | artifact and version of a cached installer agree whenever nobody is at work, in groups that build only without faults |

The proofs asked for three changes of the model that alter none of its behaviours: a task keeps
what LaunchServer had loaded when it began (`live`, a history variable), the writes of a step are
functions built by `One` and `Two`, and the search for the next undo step is an operator of its own
(`Outer`).

### Mods and assets

`WorkProofs` proves for any number of objects, calls, workers, attempts and faults `AssetsHold`
(`AssetsAreComplete`). A worker that has ended well holds nothing and one that runs holds one object
at most (`HoldsAreSingle`), and no worker runs before its call has the index (`WorkersWait`); so when
all have ended, what the index lists is completed, and what is completed is in place. Nothing takes
an object away, so what the workers of a failed call still do cannot harm.

For any packs, profiles, servers and changes elsewhere it proves `ImportsAreAsShown`
(`PackIsAsShown`) and `ImportsFitTheProfile` (`WritesToTheProfile`). Each check of the job stays true
until the job ends, because it is about what the job itself holds (`ResolvedAsSeen`, `FilesAsSeen`).
The profile may be changed under it: what the import has read of it is so unless another job has
written it since (`ProfileFits`, `overrun`), and that is all the second theorem says. That servers
stay bound nobody promises.

`SelectionHolds` (`SelectionIsSound`, a part of `WorkIsSound`) is for any mods, profiles and openings
of the page. It needs that the servers a page knows are of the profile that is selected
(`PageIsOfTheProfile`), as the destinations of a pick come from there.

`ResolvedAsRequired` (`ResolvedIsClosed`, a part of `WorkIsSound`) is for any finite set of projects,
any requirements and any limit of references. The definition of what is required speaks of closed
sets, the code of a stack of calls, so the invariant (`ResolveInv`) joins them: what was marked is
resolved, is being visited, or has no version (`MarkedIsThere`), what a version requires was marked or
is still to be done by its call (`Followed`), and calls are made only for what the outer ones require
(`CallsAreRequired`). At the end there are no calls, and what is resolved is closed. What a resolved
project requires comes before it or is being visited by an outer call, and then it is on a cycle
(`OrderedSoFar`).

### The console and RCON

`ConsoleShowsTheEnd` (`ConsoleIsComplete`, a part of `WorkIsSound`) is for any number of events, of
connections and of lines shown. A frame on its way knows its number: the last one has the newest
event, so what is drawn, what is pending and the frames divide the end of the journal between them.
That this stays so needs that a page shows nothing before its connection is answered and has then seen
exactly what it shows (`ShownFollows`), else an event would be dropped as a repeated one; and that no
connection is used before its turn or subscribed after its end (`LinksFollow`). Drawing sorts what is
in order already (`AnEndIsSorted`) and keeps its last ones (`LastOnesAreAnEnd`).

`RconAnswersTruly` (`RconIsSound`, the other part) is for any answer in packets of any sizes and any
limit of the output; what was not read, as the reading ended before, is not told. What is on its way
goes on where the call has read to (`StreamGoesOn`), and call and server are in phases that fit
(`PhasesAgree`): a packet of an answer means that the command was executed, and a command that the
password was accepted. Where a packet begins in the answer (`at`) is a history variable.

`WorkHolds` puts `SelectionHolds`, `ResolvedAsRequired` and these two together: `WorkIsSound` holds in
every behaviour of `MCWork`.

### Left to TLC

* liveness (`EveryCommandSettles`, `JobsEndAndAreSeen`, `PreparationEnds`, `WaitersAreAnswered`),
  as fairness and ENABLED are out of the prover's reach;
* the tables of `Installation`, as said above.

Every other property of a passing run is stated by a theorem.

## Not modelled

Whole components: server packs (the routes answer that they are disabled, and `setDesiredPack` and
`reportPack` have no caller), the agent's configuration and systemd calls, the handshake of the self
update (one request file that a script on the host takes). Of the web views: rendering, and the pages
that show what they fetch and keep nothing of their own; of the job routes: lists and pagination.

Left out for good: formatting and parsing of configuration, the Docker CLI's own behaviour, and
the bytes of downloads, which are inputs that succeed or fail.

Weak spots of the code that no property covers, as each is a matter of judgement or a single
step, not of several actors:

* `waitForCommand` stops waiting after two minutes while its command stays queued
  (server-agent.service.ts:104).
* A store write that throws inside `runJob`'s catch leaves the queue waiting
  (jobs.runner.ts:152).
* A record polled before a cancellation may be shown after it (useJobLogStream.ts:81).
* `assertDraftCurrent` invalidates every draft of a binding when one is stale
  (server-bootstrap.service.ts:477); a draft stays 'preparing' after a restart of the API (:213);
  the token that a failed report leaves behind (:812).
* A restart of LaunchServer that is cancelled between stop and up leaves it down
  (launcherdockered.service.ts:381).
* A client build that fails after its new tree is in place loses the metadata of the old one
  (client-build.service.ts:1535); the mirror manifest is overwritten outside its try statement
  (:1056).
* A read that fails after a Java runtime was installed rolls the configuration back
  (java-runtime-manager.service.ts:268).
* Mod routes do not look for jobs of other routes (mods.routes.ts:141), upload routes look before
  their body is read (clients.routes.ts:295, launchserver-files.routes.ts:73,
  servers.routes.ts:233); startup recovery is not awaited before requests are served
  (main.ts:21). `Installation` has these interleavings, and the properties that hold for an
  operation alone, or for jobs of one kind, do not claim more.
* A completed login can be confirmed twice, by its connection and by its state
  (DiscordAuthCoreProvider.java:183, 189).
* The configuration of the Discord module is replaced without a backup
  (auth-provider.service.ts:360).
* The cookie of a second login in the same browser is cleared by the first callback
  (panel-auth.routes.ts:110).
