CONSTANTS
  Times = {0, 1}
  MaxQueue = 3
  SETCURSOR_DELTA = 1
  AHEAD_MARGIN = 1
  SCRUB_THRESHOLD = 2
  MaxActs = 3
  MaxInbox = 3
  Acts = {"scrub", "play", "retry", "unmount", "fault", "early", "hasty"}
SPECIFICATION PanelSpec
INVARIANTS LastSeekWins PlaybackAgrees GoneIsClosed
CHECK_DEADLOCK FALSE
