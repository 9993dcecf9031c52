\* An octet of three bits: lengths from 4 on are long, of at most two octets.
CONSTANTS
  Base = 8
  LenOctets = 2
  Inputs <- MCInputs
SPECIFICATION FairSpec
INVARIANTS
  TypeOK
  ChildrenTile
  WalkInvertsEncoding
  WalkIsChildren
PROPERTIES
  WalkEnds
