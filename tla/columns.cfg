SPECIFICATION Spec
CONSTANTS
  Columns = {"a", "b"}
  Types = {"integer", "bigint", "text"}
  Wide = {"bigint", "text"}
  Casts <- SomeCasts
  Defaults = {"1", "'x'"}
  Fits <- SomeFits
  Definitions <- SomeDefinitions
  Partitioned = FALSE
  MaxVersions = 3
PROPERTIES
  UpMakesTheTable
  DownMakesTheOldTable
  ValuesStay
CHECK_DEADLOCK FALSE
