SPECIFICATION Spec
CONSTANTS
  Catalog <- ShopCatalog
  Needs <- ShopNeeds
  PartOf <- ShopParts
  Versions <- ShopVersions
  Removable = {4}
  GrowOnly = {}
  Modes = {FALSE}
  InPublic = {1, 2, 3, 4}
  Fresh <- JustCreated
  FirstDb <- JustCreated
  FirstDirs = {TRUE}
  KeepsDowns = TRUE
  Faults = FALSE
  MaxFiles = 2
  MaxKills = 0
INVARIANT NothingRefused
CHECK_DEADLOCK FALSE
