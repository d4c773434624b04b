CONSTANTS
  Ids = {1, 2, 3}
  Clients = {t1, t2}
  Axes <- MCAxes
  MaxAmount = 3
  Ceilings <- MCCeilings
  Amounts <- MCAmounts
  Statuses = {"success", "refusal", "timeout", "cancelled_after_call"}
  Null = Null
  Receipts = {r1, r2, Null}
  ComponentOf <- MCComponentOf
  Capacity <- MCCapacity
  MaximumsOf <- MCMaximumsOf
  Usages <- MCUsages
  Elapsed = {1, 3}
  MaxInterrupts = 1
  MaxSnapshots = 1
SYMMETRY Symmetry
SPECIFICATION Spec
INVARIANTS
  OneFundedCallPerSlot
  PlacesAreSlots
  UsableIsAttested
  AcceptedManifestIsExact
  CompleteSnapshotIsAccepted
  OnlyInterruptsLoseCalls
PROPERTY
  ImplementsAttemptOnce
CHECK_DEADLOCK FALSE
