CONSTANTS
  Thread = {t1, t2}
  MaxNode = 4
  MaxItem = 3
  Width = 8
  Null = Null
  Nobody = Nobody
SPECIFICATION FairSpec
INVARIANTS TypeOK NodesSafe LengthTracks
PROPERTIES FifoSpec OperationEnds
