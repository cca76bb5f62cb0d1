SPECIFICATION FairSpec
CONSTANTS
  d1 = d1
  d2 = d2
  NoFile = NoFile
  Dest <- TwoDests
  DestOf <- FirstAndLast
  Files = 3
  Slots = 2
  Attempts = 2
INVARIANTS
  OneWriter
  LastFetchedWins
  WholeFiles
  CleanReturn
PROPERTIES
  DownloadReturns
CHECK_DEADLOCK FALSE
