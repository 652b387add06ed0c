SPECIFICATION MonitoredSpec
CONSTANTS
  planner = planner
  good = good
  bad = bad
  call1 = call1
  Agent <- OneAgent
  Endpoint <- Endpoints
  NoEndpoint = NoEndpoint
  Unprobeable <- NotParsed
  Request <- OneCall
  MaxEpoch = 2
  QueueSize = 1
  MaxEvent = 1
  MaxIncident = 1
PROPERTY PageSpec
CONSTRAINT OneDisturbance
