CONSTANTS
  Thread = {t1, t2, t3}
  NoThread = NoThread
  Sizes = {1, 5}
  Align = 2
  InitSize = 4
  MaxCalls = 3
  MaxClears = 1
  CacheThread = {t1, t2}
  CacheSizes = {1, 2, 3}
  MaxSize = 2
  MaxBlock = 3
  MaxTag = 8
  Null = Null
  Data = Data
SPECIFICATION EitherSpec
INVARIANTS EitherTypeOK AllocationsSound UpgradeSeesFullChunk EachBlockOnce ReferencesStable CapacitySuffices
PROPERTIES NoChunkWasted OperationEnds
