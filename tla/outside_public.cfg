SPECIFICATION Spec
CONSTANTS
  Catalog <- OutsideCatalog
  Needs <- OutsideNeeds
  PartOf <- NoParts2
  Versions <- OutsideVersions
  Removable = {}
  GrowOnly = {}
  Modes = {FALSE}
  InPublic = {}
  Fresh <- NoSchema2
  FirstDb <- NoSchema2
  FirstDirs = {TRUE}
  KeepsDowns = FALSE
  Faults = FALSE
  MaxFiles = 2
  MaxKills = 0
INVARIANT NothingRefused
CHECK_DEADLOCK FALSE
