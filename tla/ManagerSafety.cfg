SPECIFICATION Spec
CONSTANTS
  Transports = {TRUE, FALSE}
  Conns = {c1, c2}
  Addrs = {a1, a2}
  IPs = {ip1}
  Receivers = {r1, r2}
  Workers = {w1}
  MaxSessions = 3
  NoConn = NoConn
  PoolOrder <- Order
SYMMETRY Symmetry
CHECK_DEADLOCK FALSE
INVARIANTS IpsConserved MapsExact EndedForgotten
