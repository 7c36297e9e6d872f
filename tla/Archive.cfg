CONSTANTS
  Configs <- SomeConfigs
  Words <- SomeWords
  Contents <- SomeContents
  Keys = {k1, k2}
  Magic = "vcdiff"
  MaxCreates = 1
  MaxSigns = 2
  MaxEdits = 1
  MaxRepacks = 1
  MaxCrashes = 1
SPECIFICATION Spec
SYMMETRY KeySymmetry
CHECK_DEADLOCK FALSE
INVARIANTS VerifySound OutputVerifies SignAtomic
