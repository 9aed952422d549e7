SPECIFICATION Spec
CONSTANTS
  MaxUint32 = 109
  MaxDataSize = 400
  MaxInt64 = 200
  Places = {4}
  MaxSent = 3
  s1 = s1
  s2 = s2
  p1 = p1
  p2 = p2
  NoSink = NoSink
  Sinks = {s1, p1}
  SeekableSinks = {s1}
  WriteSizes = {1, 3}
  Configs <- AutoConfigs
INVARIANTS
  EveryCleanCloseReadsBack
