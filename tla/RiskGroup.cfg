CONSTANTS
  p1 = p1
  p2 = p2
  s1 = s1
  Ids = {s1}
  Processes = {p1, p2}
  Adapters = {"account", "filtering"}
  Clients = {"venue", "null"}
  MaxFills = 2
  MaxFaults = 1
SPECIFICATION Spec
INVARIANTS TypeOK NoFillSkipped OpenPositionsCovered NoTrustWithoutVenue
PROPERTIES HealthyIsLatest OwnerRecovers
