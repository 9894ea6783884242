SPECIFICATION MCSpec
CONSTANTS
  Char <- Chars
  Newline = "n"
  Input <- TwoChars
  Count = 2
  PipeSize = 2
  Longest = 3
  MaxJobs = 2
  Typed <- Commands
  MaxTyped = 1
  Tracer = {"t1", "t2"}
  Asked <- Requests
  NumberLines <- NumberDefines
  ErrorLines <- ErrorDefines
  Macros <- KernelMacros
  Names <- CallNames
  Readable = {100, 101, 102}
  NoFile = NoFile
  Nowhere = Nowhere
INVARIANT OnlyRedirectionsLeak
INVARIANT OutputIsWhole
INVARIANT CallsAreReported
INVARIANT SignaturesAreRight
PROPERTY PipelineEnds
PROPERTY TraceEnds
CHECK_DEADLOCK FALSE
