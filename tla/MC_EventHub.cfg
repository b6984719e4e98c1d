CONSTANTS
  MaxPublishes <- MCMaxPublishes
  LibMayFail = TRUE

SPECIFICATION Spec

INVARIANTS
  HubOwnership
  NoDoubleFree

CHECK_DEADLOCK FALSE
