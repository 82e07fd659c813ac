CONSTANTS
  Thread = {t1, t2}
  NoThread = NoThread
SPECIFICATION SnapshotSpec
INVARIANTS UpgradeKeepsSnapshot
