\* Any sequence of up to five samples from a spread of values (ns), with
\* failures between them.  The harness stops when its samples run out.
CONSTANTS
  Samples = {0, 1, 5, 9, 19, 99}
  MaxSamples = 5
SPECIFICATION Spec
INVARIANT NoDrift
CHECK_DEADLOCK FALSE
