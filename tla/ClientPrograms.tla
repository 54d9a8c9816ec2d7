---------------------------- MODULE ClientPrograms ----------------------------
(***************************************************************************)
(* The operations of client-build.service.ts and of the services it uses:   *)
(* profiles and their optional mods, the MirrorHelper workspace, the loader  *)
(* installer, LauncherRuntime, the launcher build, Java runtimes.           *)
(***************************************************************************)
EXTENDS ModulePrograms

(* A module that comes with LaunchServer. *)
LoadBundled == Call(<<"module">>, InstallModule)

-----------------------------------------------------------------------------
(* Profiles *)

WriteProfile ==
    <<Copy("profile", "profileBackup"), Edit("profile"),
      Try(<<Back("profile"), Quiet(Sync)>>), Sync>>

ReplaceServers    == <<Read("profile")>> \o WriteProfile
UpdateProfile     == <<Read("profile")>> \o WriteProfile
UpdateProfileJava == <<Read("profile")>> \o WriteProfile
UpsertOptional    == <<Read("profile")>> \o WriteProfile

(* An installed mod becomes optional: its file moves, undone if the profile cannot be written. *)
MakeOptional ==
    <<Read("profile"), Find("mod"), Miss("optionalMod"),
      Undo(Move("mod", "optionalMod"), <<Quiet(Move("optionalMod", "mod"))>>)>>
    \o Call(<<"write">>, WriteProfile) \o <<Commit(<<>>), Find("profile")>>

RemoveOptional ==
    <<Read("profile")>> \o Call(<<"write">>, WriteProfile) \o <<Drop("optionalMod")>>

RemoveProfileOneWay ==
    <<Read("profile"), Look,
      Undo(Move("profile", "trashProfile"), <<Move("trashProfile", "profile")>>),
      If({"client"}, Move("client", "trashClient")), Sync>>

RemoveProfile ==
    <<Read("profile"), Look, Try(<<Quiet(Sync)>>),
      Undo(Move("profile", "trashProfile"), <<Move("trashProfile", "profile")>>),
      Undo(If({"client"}, Move("client", "trashClient")),
           <<Move("trashClient", "client")>>),
      Sync>>

(* The installer of the loader, cached with the version it is for. *)
EnsureLoaderInstaller ==
    <<Look, If({"installer"}, Drop("installer")), Try(<<Quiet(Drop("installer"))>>),
      Fetch, Put("installer"), Put("installerVersion")>>

(* MirrorHelper writes profile and client; what identified the old profile is put back. *)
BuildClient ==
    <<Find("workspace"), Look, If({"profile"}, Quiet(Read("profile"))), Ask>>
    \o Call(<<"installer">>, EnsureLoaderInstaller)
    \o <<Step("make", "client", "profile"), Find("profile"), Fetch,
         If({"profile"}, Edit("profile")), Sync>>

-----------------------------------------------------------------------------
(* The workspace, the prestarter, LauncherRuntime and the launcher *)

ApplyWorkspace ==
    LoadBundled
    \o <<Fetch, Look, If({"manifest"}, Copy("manifest", "manifestBackup")), Put("manifest"),
         If({"workspace"}, Move("workspace", "workspaceBackup")),
         Try(<<Drop("workspace"),
               If({"workspace"}, Move("workspaceBackup", "workspace")),
               If({"manifest"}, Copy("manifestBackup", "manifest")),
               IfNot({"manifest"}, Drop("manifest"))>>),
         Retry(3, Make("workspace"))>>

InstallPrestarterUnsaved ==
    <<Fetch, Put("prestarter"), Try(<<Drop("prestarter")>>)>> \o LoadBundled \o <<Restart>>

InstallPrestarter ==
    <<Fetch, Look, If({"prestarter"}, Copy("prestarter", "prestarterBackup")),
      Put("prestarter"),
      Try(<<Drop("prestarter"),
            If({"prestarter"}, Copy("prestarterBackup", "prestarter"))>>)>>
    \o LoadBundled \o <<Restart>> \o LoadBundled

(* Extraction of an archive beside its target, which must not exist. *)
Extract(target, pending) ==
    <<Miss(target), Try(<<Drop(pending)>>), Unpack(pending), Move(pending, target),
      Drop(pending)>>

FixResources == <<Read("resources"), Edit("resources")>>

(* An old module and incomplete resources are replaced, together or not at all. *)
InstallRuntime ==
    LET files(s) == In(<<"files">>, s)
        cleared  == Drop("resourcesArchive")
    IN  <<Look, Ask, Try(<<In(<<"finally">>, cleared)>>),
          Undo(If({"runtime"}, Move("runtime", "runtimeBackup")),
               <<files(Move("runtimeBackup", "runtime"))>>),
          Undo(Put("runtime"), <<files(Drop("runtime"))>>),
          Undo(If({"resources"}, Move("resources", "resourcesBackup")),
               <<files(Move("resourcesBackup", "resources"))>>),
          Fetch, Put("resourcesArchive")>>
        \o Call(<<"extract">>, Extract("resources", "resourcesPending"))
        \o <<Commit(<<"files">>), Commit(<<"finally">>), cleared>>
        \o FixResources \o <<Restart, Ask>>

(* A runtime that is current is only looked at. *)
CheckRuntime == <<Touch, Ask, Drop("resourcesArchive")>>

(* The Windows executable is missing although its prestarter is there. *)
InitPrestarter == <<Enough, Restart>> \o InstallModule

RunBuild == Call(<<"windows">>, InitPrestarter) \o <<Build("launcher"), Find("launcher")>>

BuildLauncher   == CheckRuntime \o RunBuild
InstallAndBuild == Call(<<"runtime">>, InstallRuntime) \o RunBuild

CustomizeLauncher ==
    CheckRuntime
    \o <<Look, If({"custom"}, Copy("custom", "customBackup")),
         If({"asset"}, Copy("asset", "assetBackup")), Put("asset"),
         If({"custom"}, Quiet(Read("custom"))), Edit("custom")>>
    \o RunBuild

-----------------------------------------------------------------------------
(* Java runtimes *)

BuildThenReload == Call(<<"build">>, BuildLauncher) \o <<Restart, Find("config")>>

ReloadAndBuild == <<Restart>> \o Call(<<"build">>, BuildLauncher) \o <<Find("config")>>

RestoreRuntimeConfig == <<Quiet(Back("config")), Quiet(Restart)>>

InstallJavaRegisteredFirst ==
    <<Read("config"), Miss("java"), Try(RestoreRuntimeConfig), Put("archive"), Edit("config")>>
    \o Call(<<"extract">>, Extract("java", "javaPending")) \o ReloadAndBuild

InstallJava ==
    LET cleared == Quiet(Drop("archive"))
    IN  <<Read("config"), Miss("java"),
          Try(RestoreRuntimeConfig \o <<In(<<"finally">>, cleared)>>), Put("archive")>>
        \o Call(<<"extract">>, Extract("java", "javaPending"))
        \o <<Try(<<Drop("java")>>), Find("java"), Touch,
             Copy("config", "configBackup"), Edit("config")>>
        \o ReloadAndBuild \o <<cleared>>

InstallTemurin == <<Fetch>> \o InstallJava

RemoveJava ==
    <<Read("config"), Look, Copy("config", "configBackup"),
      If({"java"}, Move("java", "javaTrash")),
      Try(<<Quiet(Back("config")), If({"java"}, Quiet(Move("javaTrash", "java"))),
            Quiet(Restart)>>),
      Edit("config")>>
    \o ReloadAndBuild

UpdateJavaSettings ==
    <<Read("config"), Copy("config", "configBackup"), Edit("config"),
      Try(RestoreRuntimeConfig)>>
    \o ReloadAndBuild

-----------------------------------------------------------------------------
(* The jobs of clients.routes.ts. *)
ProfileRoutes ==
    [ReplaceServers |-> ReplaceServers, UpdateProfile |-> UpdateProfile,
     RemoveProfile |-> RemoveProfile, UpdateProfileJava |-> UpdateProfileJava]

JavaRoutes ==
    [InstallJava |-> InstallJava, InstallTemurin |-> InstallTemurin,
     RemoveJava |-> RemoveJava, UpdateJavaSettings |-> UpdateJavaSettings]

BuildRoutes ==
    [ApplyWorkspace |-> ApplyWorkspace, InstallPrestarter |-> InstallPrestarter,
     InstallAndBuild |-> InstallAndBuild, BuildLauncher |-> BuildLauncher,
     RestartServer |-> <<Restart>>, CustomizeLauncher |-> CustomizeLauncher,
     BuildClient |-> BuildClient]
=============================================================================
