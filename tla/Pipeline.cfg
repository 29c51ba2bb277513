SPECIFICATION FairSpec
CONSTANTS
  ClientOrderIds = {1}
  ORDER_CHANNEL = 1
  OUTBOUND_CHANNEL = 1
  CONN_CHANNEL = 1
  CLIENT_CHANNEL = 1
  MaxClients = 2
  MaxMessages = 2
CHECK_DEADLOCK FALSE
INVARIANTS
  TypeOK
  StreamsHaveNoGaps
  AckedIdsDiffer
PROPERTIES
  PipelineDrains
  ClosedAreForgotten
