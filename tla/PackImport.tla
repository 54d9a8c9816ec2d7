-------------------------------- MODULE PackImport --------------------------------
(***************************************************************************)
(* The import of a modpack: what the page shows of a pack (the card          *)
(* ModpackImportCard.vue, modpacks/inspect of mods.routes.ts) and what the   *)
(* job installs later (importModpack and importLocalModpack of               *)
(* mod-manager.service.ts).  The job resolves the pack again; meanwhile the  *)
(* answers of the inspections may be late, another profile may be selected,  *)
(* another file chosen, and another version published.                       *)
(***************************************************************************)
EXTENDS Naturals, FiniteSets

CONSTANTS Packs,        \* contents of .mrpack files
          PackProfiles, \* the profiles of the installation
          Platforms,    \* a version of Minecraft and a loader
          Rebuilt,      \* those whose profiles an import builds again, FORGE and NEOFORGE
          Modpacks,     \* modpacks of Modrinth
          Servers,      \* managed servers
          MaxAsks,      \* bound: inspections of the page
          MaxNews       \* bound: changes made elsewhere

ASSUME PackAssumption ==
    /\ \A pack \in Packs : pack.platform \in Platforms
    /\ Rebuilt \subseteq Platforms /\ MaxAsks \in Nat /\ MaxNews \in Nat

VARIABLES catalog,  \* catalog[q]: platform and loader version of profile q
          homes,    \* homes[b]: the profile that server b is bound to
          newest,   \* newest[p]: the pack that Modrinth has for project p
          page,     \* the profile and the platform that are selected
          listed,   \* the servers that the page knows of the profile
          shown,    \* the inspection, {} or {[project, pack]}
          source,   \* "modrinth" or "local"
          file,     \* the local file, {} or {pack}
          chosen,   \* the servers that are to receive files
          inspecting, asks, \* the inspections: one is on, those not answered yet
          asked, news,      \* how many there have been, and changes
          import,   \* the input of the job, {} or {record}
          stage,    \* where the job is
          downloads, \* its attempt to download the pack
          unpacked, \* the pack that it has resolved, {} or {pack}
          profiled, \* what it has read of the profile, {} or {platform and loader}
          overrun   \* another job has written the profile since the import read or rebuilt it

pageVars == <<page, listed, shown, source, file, chosen, inspecting, asks, asked>>
jobVars == <<import, stage, downloads, unpacked, profiled, overrun>>
packVars == <<catalog, homes, newest, news, pageVars, jobVars>>

Loaders == {pack.loader : pack \in Packs}
LocalProject == "local"

Missing == [platform |-> "missing", loader |-> 0]

PackInit ==
    /\ page \in [profile : {CHOOSE q \in PackProfiles : TRUE}, platform : Platforms]
    /\ \E loader \in Loaders :
          catalog = [q \in PackProfiles |-> [platform |-> page.platform, loader |-> loader]]
    /\ \E q \in PackProfiles : homes = [b \in Servers |-> q]
    /\ newest \in [Modpacks -> Packs]
    /\ listed = {} /\ shown = {} /\ source = "modrinth" /\ file = {} /\ chosen = {}
    /\ inspecting = FALSE /\ asks = {} /\ asked = 0 /\ news = 0
    /\ import = {} /\ stage = "none" /\ downloads = 1 /\ unpacked = {}
    /\ profiled = {} /\ overrun = FALSE

(* Other jobs and other people.  The queue of the import keeps other mod jobs away, and a client *)
(* job that was active when the import was asked for runs beside it; what comes after the import *)
(* is not followed.                                                                              *)
Elsewhere ==
    /\ news < MaxNews /\ news' = news + 1 /\ stage \notin {"done", "refused"}
    /\ \/ /\ \E q \in PackProfiles : \E now \in [platform : Platforms, loader : Loaders] \cup {Missing} :
                /\ catalog' = [catalog EXCEPT ![q] = now]
                /\ overrun' = (overrun \/ \E input \in import : input.profile = q)
          /\ UNCHANGED <<homes, newest>>
       \/ \E b \in Servers, q \in PackProfiles : homes' = [homes EXCEPT ![b] = q]
          /\ UNCHANGED <<catalog, newest, overrun>>
       \/ \E p \in Modpacks, pack \in Packs : newest' = [newest EXCEPT ![p] = pack]
          /\ UNCHANGED <<catalog, homes, overrun>>
    /\ UNCHANGED <<pageVars, import, stage, downloads, unpacked, profiled>>

-----------------------------------------------------------------------------
(* What a pack is *)

(* describeModpack *)
Fits(pack, platform) == pack.platform = platform

(* readModpackArchive: the pack, or a refusal of its size, its manifest or its paths. *)
ReadArchive(packs) == {{}, packs}

(* resolveModpack: the newest version for the platform; resolveLocalModpack: the file. *)
Resolves(project, local, platform) ==
    {pack \in (IF project = LocalProject THEN local ELSE {newest[project]}) :
        Fits(pack, platform)}

-----------------------------------------------------------------------------
(* The page *)

SelectProfile ==
    /\ \E now \in [profile : PackProfiles, platform : Platforms] : now # page /\ page' = now
    /\ news < MaxNews /\ news' = news + 1
    /\ listed' = {} /\ shown' = {} /\ source' = "modrinth" /\ file' = {} /\ chosen' = {}
    /\ UNCHANGED <<catalog, homes, newest, inspecting, asks, asked, jobVars>>

(* The list of the servers is fetched, now or again. *)
ListServers ==
    /\ listed' = {b \in Servers : homes[b] = page.profile}
    /\ UNCHANGED <<catalog, homes, newest, news, page, shown, source, file, chosen,
                   inspecting, asks, asked, jobVars>>

AskFor(project) ==
    /\ asked < MaxAsks /\ asked' = asked + 1 /\ inspecting' = TRUE
    /\ asks' = asks \cup {[number |-> asked', project |-> project, local |-> file,
                           platform |-> page.platform, answered |-> FALSE, pack |-> {}]}
    /\ UNCHANGED <<catalog, homes, newest, news, page, listed, shown, source, file, chosen, jobVars>>

(* A pack of the search's results: its button is there while another inspection is on. *)
Inspect(p) == AskFor(p)

InspectLocal == ~inspecting /\ file # {} /\ AskFor(LocalProject)

(* Another file, or none, or one that is no pack: only the first of these resets the page. *)
SelectFile ==
    /\ ~inspecting
    /\ \/ \E pack \in Packs : file' = {pack}
          /\ source' = "local" /\ shown' = {} /\ chosen' = {}
       \/ file # {} /\ file' = {} /\ UNCHANGED <<source, shown, chosen>>
    /\ UNCHANGED <<catalog, homes, newest, news, page, listed, inspecting, asks, asked, jobVars>>

(* modpacks/inspect and modpacks/local/inspect *)
AnswerInspection(a) ==
    /\ ~a.answered
    /\ \E found \in ReadArchive(Resolves(a.project, a.local, a.platform)) :
          asks' = (asks \ {a}) \cup {[number |-> a.number, project |-> a.project, local |-> a.local,
                                       platform |-> a.platform, answered |-> TRUE, pack |-> found]}
    /\ UNCHANGED <<catalog, homes, newest, news, page, listed, shown, source, file, chosen,
                   inspecting, asked, jobVars>>

\* Mutant: the source was set when the file was selected.
SourceKept(local) == IF local THEN source ELSE "modrinth"
SourceOf(local) == IF local THEN "local" ELSE "modrinth"

(* In the order of their arrival, whatever is selected by then. *)
InspectionArrives(a) ==
    /\ a.answered /\ asks' = asks \ {a} /\ inspecting' = FALSE
    /\ IF a.pack = {} THEN UNCHANGED <<shown, source, chosen>>
       ELSE /\ shown' = {[project |-> a.project, pack |-> pack] : pack \in a.pack}
            /\ source' = SourceOf(a.project = LocalProject)
            /\ chosen' \in {{}, listed}  \* no file of the pack is for a server, or one is
    /\ UNCHANGED <<catalog, homes, newest, news, page, listed, file, asked, jobVars>>

ToggleServer(b) ==
    /\ shown # {} /\ b \in listed
    /\ chosen' = IF b \in chosen THEN chosen \ {b} ELSE chosen \cup {b}
    /\ UNCHANGED <<catalog, homes, newest, news, page, listed, shown, source, file,
                   inspecting, asks, asked, jobVars>>

(* The selections are those of the inspection, one for each of its files. *)
ImportPack ==
    /\ shown # {} /\ ~inspecting /\ stage = "none"
    /\ source = "local" => file # {}
    /\ import' = {[local |-> source = "local", project |-> s.project, seen |-> s.pack, file |-> file,
                   profile |-> page.profile, platform |-> page.platform, servers |-> chosen] : s \in shown}
    /\ stage' = "queued"
    /\ UNCHANGED <<catalog, homes, newest, news, pageVars, downloads, unpacked, profiled, overrun>>

-----------------------------------------------------------------------------
(* The job *)

OfJob == <<downloads, unpacked, profiled, overrun, catalog>>

Refused == stage' = "refused" /\ UNCHANGED OfJob

StartImport ==
    /\ stage = "queued" /\ stage' = "resolving"
    /\ UNCHANGED <<OfJob, homes, newest, news, pageVars, import>>

(* download: three attempts, and a refusal that is no matter of time at once. *)
DownloadFails ==
    /\ stage = "resolving" /\ \E input \in import : ~input.local
    /\ \/ /\ downloads < 3 /\ downloads' = downloads + 1
          /\ UNCHANGED <<stage, unpacked, profiled, overrun, catalog>>
       \/ Refused
    /\ UNCHANGED <<homes, newest, news, pageVars, import>>

\* Mutants: the checks of importLocalModpack and applyResolvedModpack, one left out of each.
AnyFile(input, pack) == TRUE
SameFile(input, pack) == input.local => input.seen = pack
AnyLoader(input, pack) == TRUE
SameLoader(input, pack) == input.seen.loader = pack.loader
AnyFiles(input, pack) == TRUE
SameFiles(input, pack) == input.seen.paths = pack.paths

(* The pack as it is now. *)
ResolvePack ==
    /\ stage = "resolving"
    /\ \E input \in import :
       \E now \in ReadArchive(IF input.local THEN Resolves(LocalProject, input.file, input.platform)
                              ELSE Resolves(input.project, {}, input.platform)) :
          \/ now = {} /\ Refused
          \/ \E pack \in now :
                IF SameFile(input, pack) /\ SameLoader(input, pack)
                THEN /\ unpacked' = {pack} /\ stage' = "resolved"
                     /\ UNCHANGED <<downloads, profiled, overrun, catalog>>
                ELSE Refused
    /\ UNCHANGED <<homes, newest, news, pageVars, import>>

(* listProfiles *)
ReadProfile ==
    /\ stage = "resolved"
    /\ \/ /\ \E input \in import : profiled' = {catalog[input.profile]}
          /\ stage' = "read" /\ overrun' = FALSE /\ UNCHANGED <<downloads, unpacked, catalog>>
       \/ Refused
    /\ UNCHANGED <<homes, newest, news, pageVars, import>>

Built(pack) == [platform |-> pack.platform, loader |-> pack.loader]

\* Mutant: the version of the loader is not compared.
SamePlatform(old, pack) == old.platform = pack.platform
AsWanted(old, pack) == old = Built(pack)

(* Every file has a selection, and the servers are those of the profile. *)
Selected(input, pack) ==
    SameFiles(input, pack) /\ \A b \in input.servers : homes[b] = input.profile

(* In one turn: a profile that is as the pack wants it, and the selections. *)
FitProfile ==
    /\ stage = "read"
    /\ \E input \in import, pack \in unpacked, old \in profiled :
          IF AsWanted(old, pack) /\ Selected(input, pack)
          THEN stage' = "installing" /\ UNCHANGED OfJob
          ELSE (AsWanted(old, pack) \/ old = Missing \/ input.platform \notin Rebuilt) /\ Refused
    /\ UNCHANGED <<homes, newest, news, pageVars, import>>

(* buildClient, with what the operator was shown. *)
RebuildProfile ==
    /\ stage = "read"
    /\ \E input \in import, pack \in unpacked, old \in profiled :
          /\ ~AsWanted(old, pack) /\ old # Missing /\ input.platform \in Rebuilt
          /\ \/ /\ catalog' = [catalog EXCEPT ![input.profile] =
                                   [platform |-> input.platform, loader |-> input.seen.loader]]
                /\ stage' = "rebuilt" /\ overrun' = FALSE /\ UNCHANGED <<downloads, unpacked, profiled>>
             \/ Refused
    /\ UNCHANGED <<homes, newest, news, pageVars, import>>

CheckSelections ==
    /\ stage = "rebuilt"
    /\ \E input \in import, pack \in unpacked :
          IF Selected(input, pack) THEN stage' = "installing" /\ UNCHANGED OfJob ELSE Refused
    /\ UNCHANGED <<homes, newest, news, pageVars, import>>

(* ApplyModpack of ModPrograms says what is written, and what a failure leaves. *)
EndImport ==
    /\ stage = "installing" /\ stage' \in {"done", "refused"}
    /\ UNCHANGED <<OfJob, homes, newest, news, pageVars, import>>

(* One import: what the page does after it is about another one. *)
PageStep ==
    /\ stage = "none"
    /\ \/ SelectProfile \/ ListServers \/ InspectLocal \/ SelectFile \/ ImportPack
       \/ \E p \in Modpacks : Inspect(p)
       \/ \E a \in asks : AnswerInspection(a) \/ InspectionArrives(a)
       \/ \E b \in Servers : ToggleServer(b)

ImportJob ==
    \/ StartImport \/ DownloadFails \/ ResolvePack \/ ReadProfile \/ FitProfile \/ RebuildProfile
    \/ CheckSelections \/ EndImport

PackNext == Elsewhere \/ PageStep \/ ImportJob

PackSpec == PackInit /\ [][PackNext]_packVars

-----------------------------------------------------------------------------
(* Properties *)

\* What the page sends as a local file was inspected as one, and what it sends by the name of a
\* project was shown as that project, in whatever order inspections and files come.
SourceIsShown == \A s \in shown : (source = "local") = (s.project = LocalProject)

\* A job that installs a pack has the files and the loader that the operator was shown when the
\* import was asked for, for a local file the same bytes, in a profile of that loader.
\* (Of Modrinth another version with the same files and loader is taken for the same.)
InstallsAsShown ==
    stage \in {"installing", "done"} =>
       \A input \in import, pack \in unpacked :
          /\ pack.paths = input.seen.paths /\ pack.loader = input.seen.loader
          /\ input.project = LocalProject => pack = input.seen
          /\ pack.platform = input.platform

PackIsAsShown == SourceIsShown /\ InstallsAsShown

\* From its rebuild to its end, an import is about a profile of the platform and the loader that its
\* pack wants, whatever was done to the profile between the inspection and the import, in the queue
\* before it or while the pack was downloaded (applyResolvedModpack).  A client job that was active
\* when the import was asked for may write the profile once more after the import has read it
\* (mods.routes.ts:149 looks for none): overrun tells of it, and nothing is said then.
WritesToTheProfile ==
    stage \in {"rebuilt", "installing", "done"} /\ ~overrun =>
       \A input \in import, pack \in unpacked : catalog[input.profile] = Built(pack)
=============================================================================
