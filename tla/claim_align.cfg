SPECIFICATION Spec
CONSTANTS
  Streams <- AllStreams
  DataStart = 2
  MaxInt64 = 31
  streamBufferSize = 4
  writeToBufferSize = 3
  maxPreSize = 5
  BufLens = {0, 1, 2, 3, 6}
  SeekFrames <- Frames
  Limits = {0, 3, 6}
  MaxFaults = 2
  MaxResets = 2
  MaxExists = 6
INVARIANTS
  ConvertedBytesAreSamples
CHECK_DEADLOCK FALSE
