SPECIFICATION Spec
CONSTANTS
  NoFile = NoFile
  Dir <- MCDir
  Name <- MCName
  Search <- MCSearch
  Files <- MCFiles
  Entry <- MCEntry
  Builtins <- MCBuiltins
  MaxImports = 2
  Classes <- MCClasses
  Generators <- MCGenerators
INVARIANTS TypeOK CycleIsReal ModulesAreReady BindsByName IdsUnique
PROPERTIES LoadsInOrder Ends
