SPECIFICATION FairSpec
CONSTANTS
  r1 = r1
  r2 = r2
  r3 = r3
  c1 = c1
  c2 = c2
  Servers = {r1, r2, r3}
  Known = {r1, r2}
  Clients = {c1, c2}
  None = None
  Environments <- MCEnvironments
  MaxChanges = 3
CHECK_DEADLOCK FALSE
INVARIANTS
  ListsAreReal
  ClientsInformed
PROPERTIES
  ClientRecovers
