CONSTANTS
  a1 = a1
  a2 = a2
  site = site
  fallback = fallback
  NoAddress = NoAddress
  NoLeaf = NoLeaf
  Refuse = Refuse
  Leaves = {site, fallback}
  Addresses = {a1, a2}
  TimeoutSecs = 10
  Servers <- MCDualStack
SPECIFICATION RuntimeSpec
PROPERTY TimeoutBoundsInspect
