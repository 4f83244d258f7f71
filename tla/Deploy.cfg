SPECIFICATION Spec
CONSTANTS
  Process = {p1, p2}
  None = None
  Error = Error
  Partial = Partial
  Conf <- MCConf
  Efi <- MCEfi
  NameOrder <- MCNameOrder
  Containers <- MCContainers
  Digest <- MCDigest
  Jobs <- MCJobs
  SetupConfs <- MCSetupConfs
INVARIANTS
  EntriesLead
  DeploymentBoots
  ImagesAreContainers
PROPERTY
  StateKept
CHECK_DEADLOCK FALSE
