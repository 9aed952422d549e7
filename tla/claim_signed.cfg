SPECIFICATION Spec
CONSTANTS
  Jobs <- AllJobs
  blockSamples = 2
  MaxInt = 31
  FloatPrecision = 9
  FloatUnit = 10
INVARIANT
  ConvertedIsSigned
CHECK_DEADLOCK FALSE
