CONSTANTS
  S = 3
  P = 4
  PageLen = 2
  PerMsec = 2
  DETECT_FRAMES = 2
  Targets = {0, 1, 2, 4}
  MaxSeeks = 1
  CdPerSec = 2
  Cues <- MCCues
  Untils = {0, 3}
  Streams <- MCStreams
  MaxChunk = 3
  RingSize = 3
  MaxOuts = 4
  Tees = {"file", "none"}
SPECIFICATION MCSpec
INVARIANTS
  FileHeard
  StreamKept
PROPERTIES
  EveryTrackEnds
