SPECIFICATION Spec
CONSTANTS
  MaxUint32 = 200
  MaxUint16 = 60
  MaxSampleRate = 50
  MaxDataSize = 400
  MaxChunkPayload = 40
  Files <- AllFiles
  Stored <- Bodies
  bextFixedSize = 6
  width <- Widths
  WordSize = 8
  MaxInt64 = 400
  nsPerSecond = 30
INVARIANTS
  AcceptedMeansWholeHeader
  ErrorsAreNotDamage
  MetadataIsTheFirst
  BextRoundTrips
  DurationIsExact
  WrittenHeadersReadBack
CHECK_DEADLOCK FALSE
