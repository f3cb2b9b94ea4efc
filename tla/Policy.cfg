CONSTANTS
  Requests = {q1, q2}
  MaxNow = 2
  MaxRows = 4
  Budgets <- Mixes
  Register <- MCRegister
  Packs <- MCPacks
  Disclosing = {"c1"}
  Environment = "dev"
  Elective = {"c1"}
  OptionSets <- MCOptionSets
  HomeScope = "j1"
  KillSwitchId = {"s1"}
  Capabilities = {"c1", "c2"}
  Descriptor <- MCDescriptor
  Environments = {"dev", "prod"}
  HomeEnvironment = "dev"
  Scopes = {"j1"}
  EveryScope = "every"
  PortCeilings <- MCCeilings
  ConsentAnswers <- MCConsents
  LicensingAnswers <- MCLicences
  ProviderAnswers <- MCProviders
  AssignmentInputs <- MCAssignments
  AvailabilityInputs <- MCAvailabilityInputs
  GrantInputs <- MCGrants
  Questions <- MCQuestions
SPECIFICATION MCSpec
SYMMETRY RequestSymmetry
CHECK_DEADLOCK FALSE
INVARIANTS
  CeilingStands
  RestrictionIsObeyed
  AllowedByLedger
  ExposureIsAccounted
PROPERTIES
  WindowsAreHistory
  ReplayIsStable
