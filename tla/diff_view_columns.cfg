SPECIFICATION TripSpec
CONSTANTS
  Catalog <- ViewCatalog
  Needs <- ViewNeeds
  PartOf <- NoParts2
  Versions <- ViewVersions
  Removable = {}
  GrowOnly = {}
INVARIANT UpReachesDesired
CHECK_DEADLOCK FALSE
