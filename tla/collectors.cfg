CONSTANTS
  Clusters = {"c1", "c2"}
  Joined = {{"c1"}, {"c1", "c2"}}
  AllViews = {"target", "endpoints"}
  Values = {0, 1, 2}
  MaxEvents = 2
  MaxFaults = 2
  MaxRetries = 1
  RegionOf <- MCRegionOf
  ZoneOf <- MCZoneOf
SPECIFICATION FairSpec
INVARIANTS InformersCurrent NearestServed
PROPERTIES Reported Served
CHECK_DEADLOCK FALSE
