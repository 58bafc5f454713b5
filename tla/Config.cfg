\* Two settings are changed at a time; two browsers and two saves.
CONSTANTS
  MaxID = 4
  MaxEdits = 2
  Editors = {e1, e2}
  MaxSaves = 2
SPECIFICATION Spec
SYMMETRY Browsers
INVARIANTS
  SavedStartsOtherwise
  ListsMeanWhatTheySay
  SavesAreKept
  InForceIsTold
CHECK_DEADLOCK FALSE
