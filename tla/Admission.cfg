SPECIFICATION Spec
CONSTANTS
  r1 = r1
  r2 = r2
  p1 = p1
  osName = osName
  freeName = freeName
  wordA = wordA
  wordB = wordB
  Blank = Blank
  None = None
  Requests = {r1, r2}
  Pods = {p1}
  OpenShiftWords = {osName}
  PodSpecs <- MCPodSpecs
  Shares <- MCShares
  Refs <- MCRefs
  Envs <- MCEnvs
  MaxVolumes = 4
  MaxRequests = 3
  MaxRollouts = 1
INVARIANTS
  TypeOK
  ReservationsAsListed
  GatesAgree
  PopulatedConforms
  AdmittedPodsAreReadOnly
  ValidateShareNeverPanics
PROPERTIES
  AdmittedAsJudged
  RequestsAnswered
CHECK_DEADLOCK FALSE
