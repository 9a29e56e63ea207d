CONSTANTS
    Clients = {c1, c2}
    MaxJobs = 2
    MaxDeaths = 1
    Devices <- MCDevices
    ImageFile <- MCImageFile
    Slashes <- MCSlashes
    Methods <- MCMethods
    Alone <- MCAlone
SPECIFICATION FairSpec
INVARIANTS
    ServiceInvariant
    ToldTheTruth
PROPERTIES
    EveryJobAnswered
    LateReplyAlwaysAnswered
CHECK_DEADLOCK FALSE
