CONSTANTS
  Ids = {i1, i2, i3, i4}
  Clients = {c1, c2}
  Axes <- MCAxes
  MaxAmount = 3
  Ceilings <- MCCeilings
  Amounts <- MCAmounts
  Statuses = {"success"}
  Receipts = {"none"}
SPECIFICATION LedgerSpec
INVARIANTS
  OneDispositionPerId
PROPERTIES
  ImplementsHardCeiling
CHECK_DEADLOCK FALSE
