SPECIFICATION Spec
CONSTANTS
  a1 = a1
  a2 = a2
  n1 = n1
  n2 = n2
  n3 = n3
  d1 = d1
  d2 = d2
  Accounts <- MCAccounts
  Names <- MCNames
  Dids <- MCDids
  FirstHandle <- MCFirstHandle
  Foreign = d1
  FirstKeys = 1
  Clients = {c1, c2}
  MaxKeys = 4
  MaxRequests = 3
  MaxElsewhere = 1
  MaxLost = 1
SYMMETRY Symmetry
INVARIANTS
  
  ControlKept
CHECK_DEADLOCK FALSE
