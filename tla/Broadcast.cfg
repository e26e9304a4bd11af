\* Two clients with queues of one, which bursts overflow, also behind a sender
\* suspended in send_json.
SPECIFICATION FairSpec
CONSTANTS
  a = a
  b = b
  None = None
  Clients <- TwoClients
  QueueMax = 1
  MaxEvents = 3
  MaxBurst = 2
INVARIANT TypeOK
PROPERTIES
  ClientsAreQueues
  NewestArrives
  DeadClientsForgotten
CHECK_DEADLOCK FALSE
