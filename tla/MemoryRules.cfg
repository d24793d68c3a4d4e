SPECIFICATION Spec
CONSTANTS
  Rows = {r1, r2, r3}
  Requests = {q1, q2}
  short = short
  long = long
  loose = loose
  everywhere = everywhere
  mail = mail
  anywhere = anywhere
  key = key
  Rules <- MCRules
  Slots <- MCSlots
  KeyOf <- MCKeyOf
  ScopeOf <- MCScopeOf
  SlotOf <- MCSlotOf
  TextOf <- MCTextOf
  Patterns <- MCPatterns
  Threshold = 2
  MaxSeen = 3
  None = None
CHECK_DEADLOCK FALSE
SYMMETRY Symmetry
INVARIANTS
  TypeOK
  OneActivePerSlot
  NothingSilent
  LostOnlyInTheGap
PROPERTY DismissedStaysDismissed
