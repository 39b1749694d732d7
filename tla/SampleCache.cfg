CONSTANTS
  Caches = {1, 2}
  Handles = {0, 1}
  N = 3
  Keyframes = {1}
  Size <- Sizes
  Budget = 2
  Floor = 3
  Ceiling = 4
  Readers = {panel, capture}
  Capturers = {capture}
  Batch = 2
  Ahead = 0
  IndexCap = 1
  Plans <- Everyday
SPECIFICATION CacheSpec
INVARIANTS AccountExact CadenceExact
PROPERTIES SharesCeiling
CHECK_DEADLOCK FALSE
