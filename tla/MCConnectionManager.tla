-------------------------- MODULE MCConnectionManager -------------------------
(* A server with a handful of connections, addresses and session ids.        *)
EXTENDS ConnectionManager, TLC

Order == CHOOSE f \in [1..Cardinality(IPs) -> IPs] :
           \A i, j \in 1..Cardinality(IPs) : f[i] = f[j] => i = j

Symmetry == Permutations(Conns) \cup Permutations(Addrs) \cup Permutations(Receivers)
=============================================================================
