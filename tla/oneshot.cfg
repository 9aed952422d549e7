SPECIFICATION Spec
CONSTANTS
  Callers = {c1, c2}
  Encoders = {e1, e2}
  Decoders = {d1, d2}
  Nobody = Nobody
  Discard = Discard
  EncodeJobs <- SomeEncodes
  DecodeJobs <- SomeDecodes
  MaxCalls = 2
SYMMETRY Interchangeable
INVARIANTS
  EachSinkItsOwnStream
  FailuresStayWithTheirCall
  EachResultItsOwn
  PooledObjectsPinNothing
CHECK_DEADLOCK FALSE
