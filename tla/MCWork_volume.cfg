SPECIFICATION WorkSpec
CONSTANTS
  Slots = {1, 2}
  MaxFaults = 1
  Areas = {"profiles", "builds", "workspace", "launcher", "java", "modules", "auth", "discord", "mods", "optional", "bulk", "modpacks", "beside", "files", "startup", "restarts"}
  Objects = {1, 2}
  Syncs = {1, 2}
  Fetchers = {1, 2}
  Attempts = 2
  MaxAssetFaults = 1
  Projects = {1, 2, 3}
  MaxVisits = 3
  Packs <- MCPacks
  PackProfiles = {"a", "b"}
  Platforms = {"neoforge", "fabric"}
  Rebuilt = {"neoforge"}
  Modpacks = {"p"}
  Servers = {"s"}
  MaxAsks = 2
  MaxNews = 1
  ModProfiles = {"a", "b"}
  Picked = {"m", "n"}
  Sides <- MCSides
  SelectionLimit = 1
  MaxMounts = 2
  MaxInstalls = 1
  MaxShown = 2
  MaxReports = 4
  MaxLinks = 4
  OutputLimit = 3
  Sizes = {0, 1, 2}
  MaxPackets = 3
CHECK_DEADLOCK FALSE
INVARIANTS OriginalKept RecordsTellTruth NoLostUpdate AssetsAreComplete PackIsAsShown WritesToTheProfile WorkIsSound
PROPERTIES AllOrNothing SuccessIsPublished
