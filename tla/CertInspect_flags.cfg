CONSTANTS
  TimeoutSecs = 10
  Day = 4
  None = None
  Servers <- MCLapsed
SPECIFICATION Spec
INVARIANT FlagsAreExact
