SPECIFICATION Spec
CONSTANTS
  Jobs <- AllJobs
  blockSamples = 2
  MaxInt = 31
  FloatPrecision = 9
  FloatUnit = 10
INVARIANTS
  IntegersAreShifted
  OthersAreNearest
  RefusedExactlyWhenTooLong
CHECK_DEADLOCK FALSE
