---------------------------- MODULE ModulePrograms ----------------------------
(***************************************************************************)
(* The operations of module-management.service.ts and                       *)
(* discord-auth-system-build.service.ts: LaunchServer keeps the list of the  *)
(* modules it loads and writes it to modules.json itself.  Those of          *)
(* auth-provider.service.ts, remote-control-setup.service.ts and             *)
(* profile-provisioning.service.ts: the providers in the configuration of    *)
(* LaunchServer, the modules they need, and the RemoteControl token.         *)
(***************************************************************************)
EXTENDS VolumeSteps

(* A module of the image, and the one that the panel builds. *)
LoadModule  == <<Ask, Enough, Save("modulesConfig"), Ask>>
InstallModule == <<Ask>> \o LoadModule
InstallBuilt  == <<Find("moduleJar")>> \o LoadModule

(* What LaunchServer starts with, and the jar, are restored when it does not start. *)
RemoveModule ==
    <<Find("moduleJar"), Read("modulesConfig"), Edit("modulesConfig"),
      Try(<<In(<<"stage">>, Back("modulesConfig"))>>),
      Move("moduleJar", "moduleStaged"), Commit(<<"stage">>),
      Try(<<In(<<"unload">>, Quiet(Move("moduleStaged", "moduleJar"))),
            In(<<"unload">>, Quiet(Back("modulesConfig"))),
            In(<<"unload">>, Quiet(Restart))>>),
      Restart, Commit(<<"unload">>), Drop("moduleStaged")>>

BuildDiscordMarkedFirst == <<Fetch, Put("moduleVersion"), Put("moduleJar"), Find("moduleJar")>>

(* The jar is built in an image, copied out of it and published with its version. *)
BuildDiscord == <<Fetch, Put("moduleJar"), Find("moduleJar"), Put("moduleVersion")>>

-----------------------------------------------------------------------------
(* The jobs of modules.routes.ts. *)
ModuleRoutes ==
    [InstallModule |-> InstallModule, InstallBuilt |-> InstallBuilt,
     RemoveModule |-> RemoveModule, BuildDiscord |-> BuildDiscord \o <<Restart>>]

-----------------------------------------------------------------------------
(* Providers and tokens. *)

InstallFileAuth ==
    <<Read("config")>> \o Call(<<"module">>, InstallModule)
    \o <<Read("config"), Enough, Copy("config", "configBackup"), Save("config"),
         Read("config")>>

(* Nothing undoes a provider that does not load: the backup is for the operator. *)
WriteProvider ==
    <<Read("config"), Copy("config", "configBackup"), Edit("config"), Restart,
      Read("config")>>

ApplyProvider   == WriteProvider
ApplyWithModule == Call(<<"module">>, InstallModule) \o WriteProvider

EnsureDiscordModule ==
    <<Look, If({"moduleJar", "moduleVersion"}, Enough)>> \o BuildDiscord \o <<Restart>>

ApplyDiscord ==
    Call(<<"module">>, EnsureDiscordModule)
    \o <<Look, If({"discordConfig"}, Read("discordConfig")), Put("discordConfig")>>
    \o Call(<<"module">>, InstallBuilt) \o WriteProvider

SetupRemoteControlUnguarded ==
    <<Ask, Look, Put("rcConfig"), Ask, Save("modulesConfig"), Ask, Keep("credential")>>

(* The token is live before its credential is stored; a failure disables it. *)
SetupRemoteControl ==
    <<Ask, Look, If({"rcConfig"}, Copy("rcConfig", "rcBackup")), Put("rcConfig"),
      Try(<<Disable("rcConfig"), Forget("credential"), Quiet(Ask)>>),
      Ask, Save("modulesConfig"), Ask, Keep("credential")>>

(* The first preparation of an installation; the key of the panel is made before. *)
ProvisionRemote == <<Keep("key")>> \o Call(<<"remote">>, SetupRemoteControl)

-----------------------------------------------------------------------------
(* The jobs of auth.routes.ts, and of gravit.routes.ts and docker.routes.ts. *)
AuthRoutes ==
    [InstallFileAuth |-> InstallFileAuth, ApplyProvider |-> ApplyProvider,
     ApplyWithModule |-> ApplyWithModule, ApplyDiscord |-> ApplyDiscord]

RemoteControlRoutes ==
    [SetupRemoteControl |-> SetupRemoteControl, ProvisionRemote |-> ProvisionRemote]
=============================================================================
