SPECIFICATION Spec
CONSTANTS
  Catalog <- ShopCatalog
  Needs <- ShopNeeds
  PartOf <- ShopParts
  Versions <- ShopVersions
  Removable = {4}
  GrowOnly = {}
  Modes = {TRUE, FALSE}
  InPublic = {1, 2, 3, 4}
  Fresh <- JustCreated
  FirstDb <- UserData
  FirstDirs = {TRUE}
  KeepsDowns = FALSE
  Faults = TRUE
  MaxFiles = 2
  MaxKills = 1
INVARIANTS CommandTypeOK UpsRebuildSchema MigrateConverges NothingRefused ContainersStopped
CHECK_DEADLOCK FALSE
