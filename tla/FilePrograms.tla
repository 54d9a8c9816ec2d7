----------------------------- MODULE FilePrograms -----------------------------
(***************************************************************************)
(* The file browser of LaunchServer (launchserver-files.service.ts), the     *)
(* configuration of FileAuthSystem (auth-module-config.service.ts), and what *)
(* the API does to an unhealthy LaunchServer when it starts                  *)
(* (launchserver-startup.service.ts).                                       *)
(***************************************************************************)
EXTENDS VolumeSteps

(* A file is written over another one only when the request says so. *)
WriteFile     == <<Touch, Put("file2")>>
UploadFile    == <<Touch, Miss("file"), Put("file")>>
MakeDirectory == <<Touch, Miss("directory"), Put("directory")>>
MoveFile      == <<Touch, Touch, Miss("fileNext"), Move("file", "fileNext")>>

(* Removed files go to the trash of the volume, one after another. *)
RemoveFiles ==
    <<Touch, Touch, Move("file", "fileTrash"), Touch, Move("file2", "file2Trash")>>

FileRoutes ==
    [WriteFile |-> WriteFile, UploadFile |-> UploadFile, MakeDirectory |-> MakeDirectory,
     MoveFile |-> MoveFile, RemoveFiles |-> RemoveFiles,
     ApplyFileAuthConfig |->
        <<Look, If({"fileAuthConfig"}, Copy("fileAuthConfig", "fileAuthBackup")),
          Put("fileAuthConfig")>>,
     SyncProfiles |-> <<Sync>>, InspectServer |-> <<Ask>>]

(* The public URLs follow the settings of the panel; the panel writes the file itself. *)
SynchronizeUrls == <<Read("config"), Enough, Copy("config", "urlBackup"), Edit("config")>>

(* A healthy LaunchServer is left alone; the permissions of the runtimes are repaired. *)
Startup ==
    [StartupRecovery |->
        Call(<<"health">>, <<Healthy>> \o Call(<<"urls">>, SynchronizeUrls) \o <<Restart>>)
        \o <<Read("config"), Touch>>]
=============================================================================
