\* The constants of the code: six suites, five permits.
CONSTANTS
  SuiteCount = 6
  Permits = 5
  TimeoutSecs = 10
  Servers <- MCServers
SPECIFICATION FairSpec
INVARIANTS
  TypeOK
  AtMostPermitsOnNetwork
  PermitsConserved
  ReportMatchesTasks
PROPERTIES
  NoVerdictWithoutDialling
  VerdictsAreFinal
  EnumerationReturns
  ImplementsReport
