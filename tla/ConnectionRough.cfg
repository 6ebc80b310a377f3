SPECIFICATION Spec
CONSTANT Environments <- RoughOnly
CHECK_DEADLOCK FALSE
INVARIANTS TunnelSafe
PROPERTIES DisconnectedFinal
