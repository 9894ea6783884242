SPECIFICATION MCSpec
CONSTANTS
  DISKIMG_SECTOR_SIZE = 4
  INO_PER_BLOCK = 2
  BNUMS_PER_BLOCK = 2
  DIR_PER_BLOCK = 2
  INDIR_ADDR = 2
  SIZE_BASE = 8
  DIRNAME_MAX_LEN = 2
  MaxNumEntries = 10
  Leading = 2
  Tree <- Trees
  Length <- LengthOf
  Undefined = Undefined
  kNumToPrint = 1
  Actor <- Actors4
  Film <- Films3
  Database <- Databases
  Requested = {0, 1, 3}
  kMaxDegreeOfSeparation = 3
INVARIANT InodesAreDumped
INVARIANT PathsAreFound
INVARIANT FilesAnswer
INVARIANT NoShortcut
INVARIANT AnswerIsShortest
CHECK_DEADLOCK FALSE
