CONSTANTS
  Thread = {t1, t2, t3, t4}
  NoThread = NoThread
SPECIFICATION FairSnapshotSpec
INVARIANTS TypeOK MutualExclusion WordExact
PROPERTIES AbstractSpec SnapshotStable OwnerEnters SomeWriterEnters
