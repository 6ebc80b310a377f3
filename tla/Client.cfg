SPECIFICATION Spec
CONSTANTS
  Servers = {0, 1, 2}
  MaxChanges = 3 MaxSwallowed = 2
  Gateways = {"wifi", "wire"} MaxRouteEvents = 3
  Contents = {"first", "second"} Services = {"s1", "s2"} MaxRuns = 3 MaxEdits = 2
  Addresses = {"tun", "a"} TunAddr = "tun" Window = 1 Cooldown = 2
  MaxClock = 4 MaxAddrChanges = 2 MaxMisreads = 1
  Endpoints = {0, 1, 2}
CHECK_DEADLOCK FALSE
INVARIANTS ChoiceSafe TaskSafe NetworkSafe HostRestored
PROPERTIES ClientLive
