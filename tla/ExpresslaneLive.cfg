SPECIFICATION FairSpec
CONSTANTS
  Endpoints = {client, server}
  Client = client
  Enabled = {client, server}
  MaxVersion <- BothV2
  KeyOutcomes = {TRUE}
  MayDegrade = {}
  MaxRetransmit = 1
  Timely = TRUE
  MaxCounter <- FiveConfigs
  MaxElapsed = 2
  MaxLost = 3
  MaxData = 1
  None = None
INVARIANTS GraceKept
PROPERTIES
  Settles
CHECK_DEADLOCK FALSE
