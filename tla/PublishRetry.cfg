SPECIFICATION FairSpec
CONSTANTS
    v1 = v1  v2 = v2  s1 = s1  s2 = s2  o1 = o1  o2 = o2  d1 = d1  d2 = d2
    Volumes = {v1}  Shares = {s1}  Objects = {o1}
    Data = {d1, NoKeys}  NoKeys = NoKeys  None = None
    ShareOf <- OneShare  Refresh <- AllOn  RefreshResources = TRUE
    Kind = "Secret"  InitApi <- Ready
    Env = {"deleteObj","putObj"}
    MaxChanges = 2
PROPERTY PublishedContentConverges
CHECK_DEADLOCK FALSE
