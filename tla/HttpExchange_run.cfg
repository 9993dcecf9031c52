\* Octets as in the code; a head that arrives in two pieces.
CONSTANTS
  Base = 256
  LenOctets = 4
  Peers <- MCPeers
  HeadUnits = 2
  Limited = TRUE
SPECIFICATION FairSpec
INVARIANTS
  TypeOK
  AnswerIsThePeers
  CutStatusIsNoStatus
  WholeAnswerIsUnderstood
  RequestNamesTheLeaf
PROPERTIES
  ExchangeEnds
