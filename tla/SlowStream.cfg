CONSTANTS
  EndNs = 48
  Panels = {p1}
  Speeds = {1}
  MaxGap = 1
  N = 16
  FrameEvery = 4
  Pts = {0, 4, 8, 12, 16, 20, 24, 28, 32, 36, 40, 44, 48, 52, 56, 60}
  REORDER_HOLD_FRAMES = 4
  MAX_QUEUE = 16
  PRIMING_BATCH = 8
  REFILL_LOW_WATER = 4
  DECODED_AHEAD_CAP = 8
  LOOKAHEAD = 10
  AHEAD_MARGIN = 1
  SCRUB_THRESHOLD = 5
  READY_EPSILON = 3
  FRAME_LIVE_WINDOW = 3
  STALLED_TIMEOUT = 50
  DECODE_TIME = 1
  MaxToggles = 1
  MayDie = FALSE
SPECIFICATION GateSpec
INVARIANTS HealthyNeverStalls
CHECK_DEADLOCK FALSE
