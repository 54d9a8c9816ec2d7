SPECIFICATION Spec
CONSTANTS
    SetupJobs = {1, 2}
    MaxSetupFaults = 1
    MaxCancels = 1
    Callers = {1, 2, 3}
    AccountJobs = {1, 2}
    Listing = 3
    Names = {"a", "b"}
    MaxEvents = 1
    Threads = {1, 2}
    Accounts = {1, 2}
    Unlucky = {1}
    States = {1, 2}
    MaxPortals = 1
    Browsers = {1, 2}
    Logins = {1, 2}
    Visits = {1, 2}
    StateLife = 1
    SessionLife = 2
    MaxClock = 3
    Requests = {1, 2}
    Files = {"a", "b"}
    Conns = {1, 2}
    MaxLines = 3
    KeptRows = 2
    Links = {1, 2}
    MaxJournalFaults = 1
    MaxInstalls = 2
    ServiceNames = {"main", "other"}
CHECK_DEADLOCK FALSE
INVARIANTS FailedSetupLeavesNothing ControlInv AccountsAreAsReported LoginsAreOneTime SessionsAreSound FilesAreAsReported JournalIsWhole MachineAgrees
PROPERTIES AccountsLast SetupKnowsItsOwn FailedUpdateIsUndone WaitersAreAnswered
