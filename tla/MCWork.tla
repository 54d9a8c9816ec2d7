--------------------------------- MODULE MCWork ---------------------------------
(***************************************************************************)
(* The operations on an installation, and the work around them that shares   *)
(* no state with them: a behaviour is one of these, the others stay as they  *)
(* begin.                                                                     *)
(***************************************************************************)
EXTENDS Installation, AssetDownload, ModResolve, PackImport, ModSelection, ServerConsole, RconClient

VARIABLE part \* the work of this behaviour

workVars == <<part, vars, assetVars, resolveVars, packVars, selectionVars, consoleVars, rconVars>>

\* Modpacks that differ in one thing each from the first.
MCPacks ==
    LET first == [platform |-> "neoforge", loader |-> 1, paths |-> "few", bytes |-> 1]
    IN  {first, [first EXCEPT !.bytes = 2], [first EXCEPT !.paths = "more"],
         [first EXCEPT !.loader = 2], [first EXCEPT !.platform = "fabric"]}

\* A mod for servers and one for clients.
MCSides == ("m" :> [client |-> "unsupported", server |-> "required"])
           @@ ("n" :> [client |-> "required", server |-> "unsupported"])

Fixed(q) == q = CHOOSE one \in Packs : TRUE

WorkInit ==
    /\ part \in {"volume", "assets", "resolve", "pack", "selection", "console", "rcon"}
    /\ area \in Areas /\ (part # "volume" => area = CHOOSE one \in Areas : TRUE)
    /\ layout \in Layouts /\ (part # "volume" => layout = CHOOSE one \in Layouts : TRUE)
    /\ Init
    /\ newest \in [Modpacks -> Packs] /\ (part # "pack" => \A p \in Modpacks : Fixed(newest[p]))
    /\ PackInit
    /\ page.platform \in Rebuilt /\ \A q \in PackProfiles : catalog[q].loader = 1
    /\ \A b \in Servers : homes[b] = page.profile
    /\ AssetInit /\ \A o \in Objects : (o # 1 \/ part # "assets") => disk[o] = "missing"
    /\ SelectionInit /\ (part # "selection" => viewed = CHOOSE q \in ModProfiles : TRUE)
    /\ RconInit /\ (part # "rcon" => password)
    /\ ResolveInit /\ ConsoleInit

VolumePart ==
    /\ part = "volume" /\ Next
    /\ UNCHANGED <<part, assetVars, resolveVars, packVars, selectionVars, consoleVars, rconVars>>
AssetPart ==
    /\ part = "assets" /\ AssetNext
    /\ UNCHANGED <<part, vars, resolveVars, packVars, selectionVars, consoleVars, rconVars>>
ResolvePart ==
    /\ part = "resolve" /\ ResolveNext
    /\ UNCHANGED <<part, vars, assetVars, packVars, selectionVars, consoleVars, rconVars>>
PackPart ==
    /\ part = "pack" /\ PackNext
    /\ UNCHANGED <<part, vars, assetVars, resolveVars, selectionVars, consoleVars, rconVars>>
SelectionPart ==
    /\ part = "selection" /\ SelectionNext
    /\ UNCHANGED <<part, vars, assetVars, resolveVars, packVars, consoleVars, rconVars>>
ConsolePart ==
    /\ part = "console" /\ ConsoleNext
    /\ UNCHANGED <<part, vars, assetVars, resolveVars, packVars, selectionVars, rconVars>>
RconPart ==
    /\ part = "rcon" /\ RconNext
    /\ UNCHANGED <<part, vars, assetVars, resolveVars, packVars, selectionVars, consoleVars>>

WorkNext ==
    VolumePart \/ AssetPart \/ ResolvePart \/ PackPart \/ SelectionPart \/ ConsolePart \/ RconPart

WorkSpec == WorkInit /\ [][WorkNext]_workVars

\* Mods are resolved to all that they require, a selection stays with its profile, a console
\* shows the end of the server's journal, and what RCON returns is the beginning of what the
\* server has answered, as much as was read and fits.
WorkIsSound == ResolvedIsClosed /\ SelectionIsSound /\ ConsoleIsComplete /\ RconIsSound
=============================================================================
