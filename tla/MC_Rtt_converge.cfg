\* A constant stream of 5 ns samples, long enough for both averages to settle.
CONSTANTS
  Samples = {5}
  MaxSamples = 6
SPECIFICATION ConstantSpec
PROPERTY ConvergesToSample
CHECK_DEADLOCK FALSE
