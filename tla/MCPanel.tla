-------------------------------- MODULE MCPanel --------------------------------
(***************************************************************************)
(* The conversations of the panel that share no state, for one run of TLC: a *)
(* behaviour is one of them, the others stay in their initial states.         *)
(***************************************************************************)
EXTENDS LaunchServerSetup, FileAuthUsers, DiscordLogin, PanelLogin, LiveFiles, JournalStream,
        ServerInstall

VARIABLE part \* the conversation of this behaviour

vars == <<part, setupVars, usersVars, loginVars, panelVars, liveVars, journalVars, installVars>>

\* One file is there before the first request, and perhaps the other.
Init ==
    /\ part \in {"setup", "users", "discord", "panel", "files", "journal", "install"}
    /\ SetupInit /\ UsersInit /\ LoginInit /\ PanelInit /\ LiveInit /\ JournalInit
    /\ InstallInit
    /\ file["a"] = Before /\ (part = "files" \/ file["b"] = 0)

SetupPart ==
    /\ part = "setup" /\ SetupNext
    /\ UNCHANGED <<part, usersVars, loginVars, panelVars, liveVars, journalVars, installVars>>
UsersPart ==
    /\ part = "users" /\ UsersNext
    /\ UNCHANGED <<part, setupVars, loginVars, panelVars, liveVars, journalVars, installVars>>
DiscordPart ==
    /\ part = "discord" /\ LoginNext
    /\ UNCHANGED <<part, setupVars, usersVars, panelVars, liveVars, journalVars, installVars>>
PanelPart ==
    /\ part = "panel" /\ PanelNext
    /\ UNCHANGED <<part, setupVars, usersVars, loginVars, liveVars, journalVars, installVars>>
FilesPart ==
    /\ part = "files" /\ LiveNext
    /\ UNCHANGED <<part, setupVars, usersVars, loginVars, panelVars, journalVars, installVars>>
JournalPart ==
    /\ part = "journal" /\ JournalNext
    /\ UNCHANGED <<part, setupVars, usersVars, loginVars, panelVars, liveVars, installVars>>
InstallPart ==
    /\ part = "install" /\ InstallNext
    /\ UNCHANGED <<part, setupVars, usersVars, loginVars, panelVars, liveVars, journalVars>>

Next == SetupPart \/ UsersPart \/ DiscordPart \/ PanelPart \/ FilesPart \/ JournalPart \/ InstallPart

Spec == Init /\ [][Next]_vars /\ UsersFairness /\ LiveFairness /\ JournalFairness

\* Who waits is answered: the work on accounts ends, a request for a file is settled, and a line of
\* the journal arrives.
WaitersAreAnswered == AccountWorkEnds /\ RequestSettles /\ LineArrives
=============================================================================
