SPECIFICATION Spec
CONSTANTS
  InConns = {"a", "b"} Locals <- MCLocals InsidePackets <- MCPackets IpMap <- MCIpMap
  PoolNet = {0, 1, 2, 3, 4} ReservedIps = {1} MaxBatch = 2 MaxDatagrams = 3
  NoIp = NoIp NoInConn = NoInConn
  RxSizes = {1, 2, 3} RxCapacity = 2 RxBatch = 2 MaxArrivals = 4
  StatConns = {"c1"} OldAge = 4 Intervals = {1, 2, 3} MaxIdleAge = 3 MaxBytes = 2 MaxIds = 3
CHECK_DEADLOCK FALSE
INVARIANTS InsideSafe ReceiveExact StatsSafe
PROPERTIES  QueueDrains
