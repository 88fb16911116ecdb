CONSTANTS
  Keys = {k1, k2}
  NoRow = NoRow
  MaxOps = 2
  MaxSequence = 1
  MaxVersion = 1
  MaxUnsent = 3
  MaxDead = 1
  MaxActions = 2
  MaxToggles = 1
  MaxShown = 0
SYMMETRY KeySymmetry
SPECIFICATION Spec
INVARIANTS NothingStranded ActiveIsCurrent
PROPERTY AcceptedActionIsSound
CHECK_DEADLOCK FALSE
