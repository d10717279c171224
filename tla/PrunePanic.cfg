SPECIFICATION Spec
CONSTANTS
    v1 = v1
    v2 = v2
    None = None
    Volumes = {v1}
    PodName <- SameName
    Slots = {1, 2}
    Env = {}
    MaxFaults = 1
PROPERTIES
    PruneContinues
