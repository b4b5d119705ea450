\* What comments of cdrom.c say and the code does not keep.  TLC stops at the
\* first it finds violated: delete that line to see the next.
SPECIFICATION FairSpec
CONSTANTS
  NBlocks = 2
  SectorWords = 2
  DsaQueueSize = 2
  ResponseTicks = 2
  SeekTicks = 1
  FillTicks = 2
  DrainReads = 2
  RefillTicks = {2}
  TocWords = 1
  Commands = {"play", "mute", "stop", "toc3", "toc14", "pause", "unpause", "minsec", "frame", "single"}
  Enables = {{"master", "dsa"}, {"master", "fifo", "dsa"}}
  MaxMoves = 4
INVARIANTS
  HiddenOnlyByGoto
  FoundBeforeStop
  MultiOnlyForToc
  PlayFillsFifo
  TocOnItsWay
PROPERTIES
  UnreadStaysVisible
  SeekKeepsFifoQuiet
  EveryEdgeServed
