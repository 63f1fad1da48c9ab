SPECIFICATION LoopSpec
CONSTANTS
  Empty = Empty
  Key = {k1, k2, k3, k4}
  Val = {v1, v2}
  Hashes <- MCHashes
  InitCap = 4
INVARIANTS LookupIsExact NeverFull SteadyLoopIsExact
PROPERTIES IsStore
SYMMETRY KeySymmetry
