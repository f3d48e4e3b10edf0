\* Two imports that overlap in one folder, with two further changes: exports, renamings, unfilings or deletions.
CONSTANTS
  Callers = {c1, c2}
  Files <- MCFiles
  Width <- JoinedWidth
  NewName <- Renamed
  MaxUploads = 2
  MaxChanges = 2
SPECIFICATION Spec
SYMMETRY ImportSymmetry
CHECK_DEADLOCK FALSE
INVARIANTS
  CsvRowsAccounted
  AnswersTrue
  CountMatchesRows
  ExportParsesBack
