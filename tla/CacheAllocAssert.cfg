CONSTANTS
  Thread = {t1, t2}
  NoThread = NoThread
  Sizes = {1, 2}
  MaxSize = 2
  MaxBlock = 3
  MaxTag = 6
  Null = Null
  Data = Data
SPECIFICATION Spec
INVARIANTS SizeMatches
