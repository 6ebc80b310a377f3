SPECIFICATION Spec
CONSTANTS
  Endpoints = {client, server}
  Client = client
  Enabled = {client, server}
  MaxVersion <- Mixed
  KeyOutcomes = {TRUE}
  MayDegrade = {client}
  MaxRetransmit = 1
  Timely = FALSE
  MaxCounter <- ClientRotates
  MaxElapsed = 1
  MaxLost = 0
  MaxData = 1
  None = None
CHECK_DEADLOCK FALSE
INVARIANTS PromotedWasInstalled VersionAgreed
