\* The bus on its own and under two nodes: its safety, and progress of both.
SPECIFICATION LiveSpec
CONSTANTS
  Calls = {p1, p2}
  Channels = {n1, n2}
  Replicas <- MCBusReplicas
  Configs <- MCLive
  Absent = Absent
INVARIANTS BusTypeOK OnePublisher NoSendOnClosed DeliveredOrBuffered AwaitCountsChannels
PROPERTIES EventuallyNotified PendingClears CallsReturn StaleIsRemoved
CHECK_DEADLOCK FALSE
