SPECIFICATION Spec
CONSTANTS
  HalfSecond = 10
  HashRange = 86
  Intervals <- MCIntervals
INVARIANT JitterReachesTenPercent
