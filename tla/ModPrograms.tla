----------------------------- MODULE ModPrograms ------------------------------
(***************************************************************************)
(* The operations of mod-manager.service.ts: mods of a client, optional      *)
(* ones, and the same files on the game servers bound to the profile.        *)
(***************************************************************************)
EXTENDS ClientPrograms

InstallServerMod == <<Fetch, Live("serverMod")>>

InstallOnServers == InstallServerMod

(* Chosen destinations: the client's files, the profile, then the servers. *)
InstallSelected ==
    <<Fetch, Put("mod"), Fetch, Put("optionalMod")>>
    \o Call(<<"upsert">>, UpsertOptional) \o InstallServerMod \o <<Sync>>

(* MirrorHelper installs the files itself; their hashes are looked up afterwards. *)
InstallByMirror == <<Fetch, Make("mod"), Find("mod"), Fetch, Sync>>

UpdateOptional == Call(<<"optional">>, MakeOptional) \o <<Sync>>

RemoveOptionalUnsynced == Call(<<"optional">>, RemoveOptional)

RemoveOptionalMod == Call(<<"optional">>, RemoveOptional) \o <<Sync>>

(* A modpack may ask for another loader: the client is built again first. *)
ApplyModpack(rebuild) ==
    <<Fetch, Find("profile")>>
    \o (IF rebuild THEN Call(<<"build">>, BuildClient) ELSE <<>>)
    \o <<Fetch, Put("mod"), Fetch, Put("optionalMod"), Live("serverMod"),
         Put("override"), Live("serverOverride")>>
    \o Call(<<"upsert">>, UpsertOptional) \o <<Sync>>

ImportModpack  == ApplyModpack(FALSE)
RebuildModpack == ApplyModpack(TRUE)

(* One file of a profile's mods: its enabled name is m, its disabled one d. *)
ToggleFile(m, d) == <<Find(m), Miss(d), Move(m, d)>>

UpdateFile(m, next, pending, backup) ==
    <<Find(m), Fetch, Enough, Miss(next), Fetch, Put(pending), Move(m, backup),
      Try(<<Move(backup, m), Drop(pending)>>), Move(pending, next), Commit(<<>>),
      Drop(backup)>>

RemoveFile(m, s) == <<Find(m), Unlive(s), Drop(m)>>

ToggleMod == ToggleFile("mod", "modOff") \o <<Sync>>
UpdateMod == UpdateFile("mod", "modNext", "modPending", "modBackup") \o <<Sync>>
RemoveMod == RemoveFile("mod", "serverMod") \o <<Sync>>

(* Several files, one after another: one synchronisation when all have been done. *)
BulkToggle ==
    <<Check>> \o ToggleFile("mod", "modOff") \o <<Check>> \o ToggleFile("mod2", "mod2Off") \o <<Sync>>

BulkUpdate ==
    <<Check>> \o Call(<<"first">>, UpdateFile("mod", "modNext", "modPending", "modBackup"))
    \o <<Check>> \o Call(<<"second">>, UpdateFile("mod2", "mod2Next", "mod2Pending", "mod2Backup"))
    \o <<Sync>>

BulkRemove ==
    <<Check>> \o RemoveFile("mod", "serverMod") \o <<Check>> \o RemoveFile("mod2", "serverMod2")
    \o <<Sync>>

-----------------------------------------------------------------------------
(* The jobs of mods.routes.ts, each in the queue of its installation. *)
ModRoutes ==
    [InstallSelected |-> InstallSelected, InstallByMirror |-> InstallByMirror,
     InstallOnServers |-> InstallOnServers,
     UpdateOptional |-> UpdateOptional, RemoveOptionalMod |-> RemoveOptionalMod,
     BulkToggle |-> BulkToggle, BulkUpdate |-> BulkUpdate, BulkRemove |-> BulkRemove,
     ToggleMod |-> ToggleMod, UpdateMod |-> UpdateMod, RemoveMod |-> RemoveMod]

ModpackRoutes == [ImportModpack |-> ImportModpack, RebuildModpack |-> RebuildModpack]
=============================================================================
