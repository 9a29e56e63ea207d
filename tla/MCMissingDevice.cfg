CONSTANTS
    Clients = {c1}
    MaxJobs = 1
    MaxDeaths = 0
    Devices <- MCDevices
    ImageFile <- MCImageFile
    Slashes <- MCSlashes
    Methods <- MCMethods
    Alone <- MCNone
SPECIFICATION Spec
INVARIANT NoFileForDevice
CHECK_DEADLOCK FALSE
