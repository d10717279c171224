SPECIFICATION FairSpec
CONSTANTS
    v1 = v1
    v2 = v2
    None = None
    Volumes = {v1}
    PodName <- SameName
    Slots = {1, 2}
    Env = {"force"}
    MaxFaults = 1
PROPERTIES
    UnpublishCompletes
