SPECIFICATION TripSpec
CONSTANTS
  Catalog <- RoleCatalog
  Needs <- NoParts1
  PartOf <- NoParts1
  Versions <- RoleVersions
  Removable = {1}
  GrowOnly = {}
INVARIANT ReversibleMeansReversed
CHECK_DEADLOCK FALSE
