CONSTANTS
  a1 = a1
  site = site
  fallback = fallback
  None = None
  Refuse = Refuse
  TimeoutSecs = 10
  Suites = {1, 2}
  Day = 4
  Servers <- MCModern
SPECIFICATION Spec
INVARIANT NonEphemeralWasNegotiated
