SPECIFICATION FairSpec
CONSTANTS
  Messages = {m1, m2}
  Torn = Torn
  SYNC_EVERY = 3
  BUFFER = 2
  CHANNEL = 2
  MaxMessages = 4
  MaxFailures = 3
INVARIANTS
  TypeOK
  SeqContiguous
  SyncedBeforeTearSurvives
  LossIsBounded
PROPERTIES
  EverythingIsSynced
  RefinesJournal
CHECK_DEADLOCK FALSE
