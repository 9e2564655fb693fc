SPECIFICATION Spec
SYMMETRY Symmetry
CONSTANTS
    Nics = {"NIC"}
    Disks = {"mmcblk0"}
    Users = {"0"}
    Threads = {t1, t2}
    MaxNum = 3
    MaxRequests = 3
    MaxKills = 1
    MaxPatches = 2
    MaxStarts = 2
    MaxSaves = 2
    MaxDeaths = 1
    MaxSets = 2
    MaxUserOps = 2
    MaxUser = 4
    MinRows = 3
    HourShown = 2
    HourStep = 2
    DayShown = 1
    DayStep = 3
    MaxSamples = 8
    MaxRestarts = 1
INVARIANTS
    StartFailsOnlyOnDamage OnlyUnwrittenIsLost RemovedStaysRemoved LinksAreRestored
    AnsweredPatchIsKept RefusedPatchLeavesNothing OnlyForgottenIsLost
    NumbersAgree  AnsweredTaskIsCompleted MountedIsListed
    SavedPageIsWhole PublishedIsSaved OneDirectory
    FruFilesFollowMemory SettingFilesFollowDisplay
     NewestAreShown
CHECK_DEADLOCK FALSE
