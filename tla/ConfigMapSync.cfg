SPECIFICATION FairSpec
CONSTANTS
    v1 = v1  v2 = v2  s1 = s1  s2 = s2  o1 = o1  o2 = o2  d1 = d1  d2 = d2
    Volumes = {v1, v2}  Shares = {s1}  Objects = {o1}
    Data = {d1, NoKeys}  NoKeys = NoKeys  None = None
    ShareOf <- OneShare  Refresh <- AllOff  RefreshResources = FALSE
    Kind = "ConfigMap"  InitApi <- Ready
    Env = {"createShare", "deleteShare", "putObj", "deleteObj", "grant", "revoke",
           "crash", "unpublish"}
    MaxChanges = 2
INVARIANTS OnlyAuthorized PersistedIsWired
PROPERTIES ContentConverges RevokedContentRemoved
CHECK_DEADLOCK FALSE
