CONSTANTS
  TimeoutSecs = 10
  Day = 4
  None = None
  Servers <- MCServers
SPECIFICATION FairSpec
INVARIANTS
  TypeOK
  ThirdPartyAnswersAreReal
  NoneMeansNotRun
  ExpiryFlagLagsByLessThanADay
  LeafIsClassifiedByEvidence
PROPERTIES
  AdvisoryIsNeverFatal
  InspectReturns
  ImplementsReport
