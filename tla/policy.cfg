SPECIFICATION SnapshotSpec
INVARIANTS
  IntentsLegal
  CallerIsServed
