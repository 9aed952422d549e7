SPECIFICATION FairSpec
CONSTANTS
  MaxUint32 = 109
  MaxDataSize = 400
  MaxInt64 = 5
  Places = {4}
  MaxSent = 6
  s1 = s1
  s2 = s2
  p1 = p1
  p2 = p2
  NoSink = NoSink
  Sinks = {s1, p1}
  SeekableSinks = {s1}
  WriteSizes = {1, 4}
  Configs <- ModeConfigs
INVARIANTS
  SealedReadsBack
  ContainerMatchesLength
  PlainRIFFNeverOutgrown
  CloseCanStamp
  LengthIsRepresentable
PROPERTIES
  ImplementsRecorder
  CallReturns
