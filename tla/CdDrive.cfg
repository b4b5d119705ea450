SPECIFICATION FairSpec
CONSTANTS
  NBlocks = 2
  SectorWords = 2
  DsaQueueSize = 2
  ResponseTicks = 2
  SeekTicks = 1
  FillTicks = 2
  DrainReads = 2
  RefillTicks = {2, 3}
  TocWords = 1
  Commands = {"play", "mute", "stop", "toc3", "toc14", "pause", "unpause", "minsec", "frame", "single"}
  Enables = {{"master", "dsa"}, {"master", "fifo", "dsa"}}
  MaxMoves = 3
INVARIANTS
  WordOnItsWay
PROPERTIES
  PlayingKeepsTimer
  HeadsJumpOnlyBySeek
  FifoServed
