SPECIFICATION Spec
CONSTANTS
  Enums = {"mood"}
  Composites = {"span"}
  Tables = {"users", "logs", "ledger"}
  Skipped = {"ledger"}
  TypeNamed <- MoodNames
  PascalCase <- PascalNames
  SnakeCase <- SnakeNames
  ModelFile <- ShopModels
  BindingFile <- ShopBindings
  Shapes <- ShopShapes
  ExtFields <- ShopFields
  OwnPackages = {"time"}
  OwnBlocks <- OwnConstants
  Sources <- HomeSources
  Starts <- ShopStarts
INVARIANT CleanRemovesOrphans
CHECK_DEADLOCK FALSE
