SPECIFICATION OnboardingSpec
CONSTANTS
  planner = planner
  admin1 = admin1
  admin2 = admin2
  k1 = k1
  k2 = k2
  g1 = g1
  g2 = g2
  legacy = legacy
  Agent <- OneAgent
  Editor <- TwoEditors
  Content = {1, 2}
  Token <- Tokens
  NoToken = NoToken
  Bootstrap = planner
  Gateway <- Gateways
  NoGateway = NoGateway
  Legacy = legacy
  Migrated = 1
  Manifest <- Manifests
  MaxFetch = 1
  MaxRevision = 3
  MaxCard = 2
  MaxRegistration = 1
  MaxRequest = 1
SYMMETRY EditorSymmetry
CHECK_DEADLOCK FALSE
INVARIANTS
  OnboardingTypeOK
  CredentialsMatch
  CardsCurrent
PROPERTIES
  RevisionTracksChanges
  RegisteringAgainIsIdle
