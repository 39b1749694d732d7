CONSTANTS
  Names = {"a", "b"}
  Files <- AllFiles
  Panels = {p1}
  Offsets = {0, 1}
  Handles = {0, 1, 2, 3, 4, 5, 6, 7}
  Plans <- Everyday
  CoreFiles = {"a", "b", "u", "t", "v"}
  CoreKind <- KindOf
  CoreWay <- WayOf
  CoreGood = {"a", "u", "t", "v"}
  CoreCalls = 4
  IntakeDrops <- TheDrops
  IntakeOffsets = {8, 13}
  IntakeUlp = 4
SPECIFICATION StoreSpec
INVARIANTS SourcesReadable ReadersOwned IdsUnique CalibrationCurrent AnswersExact EachFileOnce CopiesOwned
CHECK_DEADLOCK FALSE
