SPECIFICATION PacketsSpec
CONSTANTS
  W = 3 MaxCounter = 7 Workers = {w1, w2}
  MAX_USER_PASS_LENGTH = 2 MAX_TOKEN_BYTES = 4 MAX_SERVER_CONFIG_BYTES = 2 MAX_STR_SIZE = 2
  SessionSize = 2 U64Size = 2 KeySize = 2 AuthFailureSize = 3
  FrameSamples <- Samples HeaderVersions <- Headers MaxFramesSent = 2
  Intervals = 2 Capacity = 2 MaxPongs = 1 MaxCalls = 4
  RingSize = 2 Polls = {TRUE, FALSE} MaxTunPackets = 2 MaxSends = 2 MaxRingErrors = 1
  Sealers = {s1, s2} LaneKeys = {"k1", "k2"} MAX_POOLED = 1 MaxReserved = 2 MaxStaged = 2 MaxBuilt = 4
  WordBase = 16 InsideMtu = 3 MssLimit = 6 Hosts <- PHosts Chains <- PChains
  TunIp <- PTunIp TunDns <- PTunDns ClientIp <- PClientIp ServerDns <- PServerDns PoolIp <- PPoolIp
CHECK_DEADLOCK FALSE
INVARIANTS NeverTwice UringSafe LaneSafe TunnelTransparent
PROPERTIES OnlyAuthenticMoves Implements FramesIntact NoFalseAlarm SilenceFound SendsDrain
