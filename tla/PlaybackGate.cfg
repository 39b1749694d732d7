CONSTANTS
  EndNs = 22
  Panels = {p1}
  Speeds = {1}
  MaxGap = 1
  N = 10
  FrameEvery = 2
  Pts = {0, 2, 4, 6, 8, 10, 12, 14, 16, 18}
  REORDER_HOLD_FRAMES = 4
  MAX_QUEUE = 16
  PRIMING_BATCH = 6
  REFILL_LOW_WATER = 4
  DECODED_AHEAD_CAP = 8
  LOOKAHEAD = 4
  AHEAD_MARGIN = 1
  SCRUB_THRESHOLD = 3
  READY_EPSILON = 2
  FRAME_LIVE_WINDOW = 2
  STALLED_TIMEOUT = 6
  DECODE_TIME = 1
  MaxToggles = 2
  MayDie = TRUE
SPECIFICATION FairGateSpec
INVARIANTS HealthyNeverStalls
PROPERTIES PlaybackEnds
CHECK_DEADLOCK FALSE
