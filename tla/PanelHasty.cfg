CONSTANTS
  Times = {0, 1, 2, 3, 4}
  MaxQueue = 3
  SETCURSOR_DELTA = 2
  AHEAD_MARGIN = 1
  SCRUB_THRESHOLD = 4
  MaxActs = 3
  MaxInbox = 3
  Acts = {"scrub", "play", "hasty"}
SPECIFICATION PanelSpec
INVARIANTS BeliefHolds PatientCursorFresh
CHECK_DEADLOCK FALSE
