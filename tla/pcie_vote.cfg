SPECIFICATION PcieFairSpec
CONSTANTS
  Users = {u1, u2}
  MsiInOrder = TRUE
  InTime = TRUE
INVARIANTS LinkSafe
PROPERTIES Served IdleRemoves
