SPECIFICATION Spec
CONSTANTS
  Wishes <- MCWishes
  Numbers <- MCNumbers
  Decimal <- MCDecimal
  MaxExact = 8
  KnownIds = {7, 8}
  KnownFlags <- MCKnownFlags
  Unsendable <- MCUnsendable
  None = None
INVARIANTS
  TransportsAgree
  RefusedHasNoEffect
CHECK_DEADLOCK FALSE
