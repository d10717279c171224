SPECIFICATION Spec
CONSTANTS
    v1 = v1  v2 = v2  s1 = s1  s2 = s2  o1 = o1  o2 = o2  d1 = d1  d2 = d2
    Volumes = {v1}  Shares = {s1, s2}  Objects = {o1, o2}
    Data = {d1, NoKeys}  NoKeys = NoKeys  None = None
    ShareOf <- OneShare  Refresh <- AllOn  RefreshResources = TRUE
    Kind = "Secret"  InitApi <- Ready
    Env = {"retarget", "deleteShare", "crash", "deleteObj", "resync", "unpublish"}
    MaxChanges = 1
INVARIANTS TypeOK OnlyAuthorized Provenance PersistedIsWired
PROPERTY ImplementsView
CHECK_DEADLOCK FALSE
