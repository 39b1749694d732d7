CONSTANTS
  Times = {0, 1, 2}
  MaxQueue = 3
  SETCURSOR_DELTA = 1
  AHEAD_MARGIN = 1
  SCRUB_THRESHOLD = 2
  MaxActs = 3
  MaxInbox = 3
  Acts = {"scrub", "hasty"}
SPECIFICATION PanelSpec
INVARIANTS CursorFresh
CHECK_DEADLOCK FALSE
