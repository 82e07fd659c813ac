CONSTANTS
  Unchosen = Unchosen
  EmptyCell = EmptyCell
  DeletedCell = DeletedCell
  Raw = Raw
  ClosedFile = ClosedFile
  Nothing = Nothing
SPECIFICATION Spec
INVARIANTS WellFormed HoldsWhatItShould ComputesRight
CHECK_DEADLOCK FALSE
