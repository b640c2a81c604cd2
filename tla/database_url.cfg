SPECIFICATION Spec
CONSTANTS
  Catalog <- ShopCatalog
  Needs <- ShopNeeds
  PartOf <- ShopParts
  Versions <- ShopVersions
  Removable = {4}
  GrowOnly = {}
  Modes = {TRUE}
  InPublic = {1, 2, 3, 4}
  Fresh <- JustCreated
  FirstDb <- UserData
  FirstDirs = {TRUE}
  KeepsDowns = FALSE
  Faults = FALSE
  MaxFiles = 2
  MaxKills = 0
INVARIANT TargetUntouched
CHECK_DEADLOCK FALSE
