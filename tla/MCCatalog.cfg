\* Two callers build, move, fill and delete folders, in turn or interleaved.
CONSTANTS
  Folders = {f1, f2, f3, f4}
  NoFolder = NoFolder
  Names = {a, b}
  Features = {x1}
  Callers = {c1, c2}
  MaxDepth = 3
  MaxCalls = 5
  MaxFailures = 1
SPECIFICATION Spec
SYMMETRY CatalogSymmetry
CHECK_DEADLOCK FALSE
INVARIANTS LevelCountsPath PathsInTurn
PROPERTIES DeletionTakesSubtree AssignedCountExact
