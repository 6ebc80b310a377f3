---------------------------- MODULE MCExpresslane -----------------------------
(* Two ends of an ExpressLane connection, small bounds.                      *)
EXTENDS Expresslane

BothV2 == [e \in Endpoints |-> 2]
Mixed == [e \in Endpoints |-> IF e = Client THEN 2 ELSE 1]

ClientRotates == [e \in Endpoints |-> IF e = Client THEN 2 ELSE 1]
FiveConfigs == [e \in Endpoints |-> 5]
=============================================================================
