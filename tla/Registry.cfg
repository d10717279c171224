SPECIFICATION FairSpec
CONSTANTS
    s1 = s1
    s2 = s2
    n1 = n1
    n2 = n2
    None = None
    Placeholder = Placeholder
    Missing = Missing
    Malformed = Malformed
    Unset = Unset
    Unparsable = Unparsable
    DefaultInterval = 10
    Payloads <- ConfigFiles
    Shares = {s1}
    Namespaces = {n1, n2}
    Ids = {1, 2, 3, 4, 5}
    Env = {"setShare", "grantAccess", "edit", "crash", "signal"}
    MaxChanges = 2
INVARIANTS
    TypeOK
    NoOrphanInformer
    ListerFollowsWatch
    OneInformerPerNamespace
PROPERTIES
    ReferencedIsWatched
    UnneededIsPruned
    ConfigFollowed
CHECK_DEADLOCK FALSE
