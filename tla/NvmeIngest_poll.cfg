SPECIFICATION FairSpec
CONSTANTS
  ReadPath = "gpudirect"
  SlotCount = 2
  QueueSlots = 1
  ReadLens = {1}
  SqEntries = 1
  MaxReads = 3
INVARIANTS NothingStranded TelemetryBalanced ZeroCopyVerdict
PROPERTIES PublishedBytesAreOwn SlotsComeBack
