SPECIFICATION TripSpec
CONSTANTS
  Catalog <- ShopCatalog
  Needs <- ShopNeeds
  PartOf <- ShopParts
  Versions <- ShopVersions
  Removable = {5, 7, 8}
  GrowOnly = {1}
INVARIANTS RoundTripTypeOK UpReachesDesired ReversibleMeansReversed
CHECK_DEADLOCK FALSE
