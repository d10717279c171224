SPECIFICATION FairSpec
CONSTANTS
    v1 = v1
    v2 = v2
    None = None
    Volumes = {v1, v2}
    PodName <- SameName
    Slots = {1, 2}
    Env = {"error", "timeout", "crash", "force", "lookup"}
    MaxFaults = 1
INVARIANTS
    TypeOK
    PublishedIsServed
    PublishedIsMounted
    MountedOnce
    UnpublishedIsClean
    PruneSparesLive
    FirstCopyOnTmpfs
PROPERTIES
    UnpublishNeverRefused
    ImplementsContract
    UnpublishSucceeds
    OrphanFilePruned
