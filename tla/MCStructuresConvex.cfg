CONSTANTS
  Unchosen = Unchosen
  EmptyCell = EmptyCell
  DeletedCell = DeletedCell
  Raw = Raw
  ClosedFile = ClosedFile
  Nothing = Nothing
SPECIFICATION Spec
INVARIANT OnTheLineCounts
CHECK_DEADLOCK FALSE
