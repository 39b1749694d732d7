CONSTANTS
  N = 8
  PtsOf <- Reordered
  SyncSamples = {1, 4}
  Pts = {2, 4, 6, 8, 10, 12, 14, 16}
  REORDER_HOLD_FRAMES = 1
  MAX_QUEUE = 5
  Cursors = {5, 9}
  PRIMING_BATCH = 2
  ENCODED_RING_BATCH = 2
  ENCODED_RING_TARGET = 2
  REFILL_LOW_WATER = 1
  DECODED_AHEAD_CAP = 2
  LOOKAHEAD = 4
  MAX_SELF_HEAL_ATTEMPTS = 2
  DECODER_HOLD = 1
  DECODER_ORDER = "presentation"
  Plans <- Everything
  MaxOps = 3
  MaxFaults = 2
SPECIFICATION FairSpec
INVARIANTS FedInOrder OnlyThisStream ErrorIsHealed
PROPERTIES ShowsAsFrameBlit RunsAsStreamControl ChainDrains LogPausedPicture
CHECK_DEADLOCK FALSE
