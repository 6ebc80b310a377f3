SPECIFICATION DatapathSpec
CONSTANTS
  MAX_PROBES = 2 PROBE_BIG_STEP = 2 PROBE_SMALL_STEP = 1
  BasePlpmtu = 2 MaxPlpmtu = 5 IdSpace = 3
  PathSizes = {1, 3, 5} MaxPathChanges = 1 MaxTicks = 1 Timelies = {TRUE, FALSE}
  IdSpaces = {1, 2} Plpmtus = {17, 23} PacketSizes = {20} Capacities = {1, 2}
  MaxPackets = 2 Duplicates = {TRUE, FALSE}
  MAX_TLS_PENDING_QUEUE_PACKETS = 2 MAX_GSO_SEGS = 2 SeqSpace = 3
  FrameSizes = {1, 2} GsoSizes = {1, 2} Payloads = {3} InsideMtu = 3
  MaxFrames = 4 MaxRoom = 4 SendSettings <- Kinds
  ENCODING_REQUEST_PKT_MAX_RETRANSMISSION_ATTEMPTS = 2 MaxRequests = 3
  Authorizations = {TRUE, FALSE}
  MIN_PACKETS_FOR_LOSS_CHECK = 2 EXPRESSLANE_DEGRADE_STRIKES = 3
  EXPRESSLANE_MISSING_STATS_LIMIT = 2 CounterSpace = 16
  Bursts = {0, 2} InFlights = {0, 2, 5} MaxReplies = 3 Paths <- PathKinds
  Endpoints = {client, server} Client = client Enabled = {client, server} MaxVersion <- Mixed
  KeyOutcomes = {TRUE, FALSE} MayDegrade = {client, server} MaxRetransmit = 0 Timely = FALSE
  MaxCounter <- ClientRotates MaxElapsed = 1 MaxLost = 1 MaxData = 1 None = None
CHECK_DEADLOCK FALSE
INVARIANTS DiscoverySafe FragmentsRejoined SendSafe NegotiationSafe HealthExact
PROPERTIES DatapathSettles DegradedIsTerminal
