SPECIFICATION TripSpec
CONSTANTS
  Catalog <- CycleCatalog
  Needs <- CycleNeeds
  PartOf <- NoParts3
  Versions <- OneVersion3
  Removable = {}
  GrowOnly = {}
INVARIANT UpReachesDesired
CHECK_DEADLOCK FALSE
