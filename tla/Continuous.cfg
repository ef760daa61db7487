SPECIFICATION FairSpec
CONSTANTS
  Readers = {r1}
  Streams = {s1, s2}
  MaxFrames = 2
  Base = 16
  HexLen = 2
  Channels = {1, 2}
  Broadcasts <- TwoFrames
INVARIANTS
  HeardRight
  WakeFindsNewFrame
  StreamsMissNothing
PROPERTIES
  ExitEndsStreams
CHECK_DEADLOCK FALSE
