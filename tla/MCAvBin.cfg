SPECIFICATION BinSpec
CONSTANTS
  BinTracks = {"video", "audio"}
  MaxCalls = 2
  MaxSessions = 2
INVARIANT BinSound
PROPERTY StopCompletes
CHECK_DEADLOCK FALSE
