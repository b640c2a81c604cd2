SPECIFICATION Spec
CONSTANTS
  Columns = {"a", "b"}
  Types = {"integer", "bigint", "text"}
  Wide = {"bigint", "text"}
  Casts <- SomeCasts
  Defaults = {"1", "'x'"}
  Fits <- SomeFits
  Definitions <- SomeDefinitions
  Partitioned = FALSE
  MaxVersions = 3
PROPERTY ReversibleIsReversed
CHECK_DEADLOCK FALSE
