CONSTANTS
  Thread = {t1, t2, t3}
  Null = Null
  Data = Data
  InitSize = 1
  MaxBlock = 7
  MaxOut = 3
  MaxTag = 7
SPECIFICATION FairSpec
INVARIANTS TypeOK EachBlockOnce
PROPERTIES GrowsOnDemand OperationEnds
