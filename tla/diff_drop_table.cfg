SPECIFICATION TripSpec
CONSTANTS
  Catalog <- ShopCatalog
  Needs <- ShopNeeds
  PartOf <- ShopParts
  Versions <- ShopVersions
  Removable = {3, 5, 6, 8}
  GrowOnly = {1}
INVARIANT UpReachesDesired
CHECK_DEADLOCK FALSE
