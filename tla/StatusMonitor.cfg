SPECIFICATION FairSpec
CONSTANTS
  planner = planner
  writer = writer
  good = good
  bad = bad
  post1 = post1
  Agent <- TwoAgents
  Endpoint <- Endpoints
  NoEndpoint = NoEndpoint
  Unprobeable <- NotParsed
  Request <- OneRequest
  MaxEpoch = 3
INVARIANT FreshIsRight
PROPERTIES
  PromiseSpec
  SnapshotsCatchUp
