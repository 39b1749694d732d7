SPECIFICATION ViewsSpec
CONSTANTS
  Pts = {2, 4, 6, 8}
  REORDER_HOLD_FRAMES = 2
  MAX_QUEUE = 3
  Cursors = {0, 4, 5, 8}
  MaxDisplacement = 2
  VideoPanels = {"v1", "v2"}
  LoopEnd = 5
  Speeds = {1, 2}
  MaxGap = 2
  CloudChannels = {"k1", "k2"}
  CloudTimes <- TimesOf
  CloudEntries = 2
  CloudActs = 5
  PanelChannels = {"a", "b", "e"}
  PanelKinds = {"plot", "table", "value", "enum", "map"}
  PanelSuits <- SuitsOf
  PanelSpan <- SpanOf
  PanelBound = 2
  PanelActs = 5
INVARIANTS
  PausedShowsNewest
  ShowsBound
  LoadEnds
  DotAgrees
  SceneShowsSpin
  OverlayShowsSpin
  MergeExact
PROPERTIES
  MonotoneDisplay
  TicksAtSpeed
  AnchorFixed
CHECK_DEADLOCK FALSE
