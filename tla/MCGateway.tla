------------------------------ MODULE MCGateway ------------------------------
(***************************************************************************)
(* What becomes of a request, in two worlds: in one the way of requests    *)
(* through envoy is looked at (EnvoyResources), in the other the sessions  *)
(* of the clients that send them (Access).  The variables of the other     *)
(* world stand still.                                                      *)
(***************************************************************************)
EXTENDS MCEnvoyResources, MCAccess

VARIABLE world

RoutingIdle ==
  /\ file = "" /\ overlay = "" /\ published = "" /\ current = "" /\ built = "" /\ authz = "" /\ changes = 0
  /\ answer = [set |-> TRUE, route |-> [policy |-> NoPolicy]]
AccessIdle == AccessInit /\ setup = CHOOSE s \in Setups : TRUE

GatewayInit ==
  \/ world = "routing" /\ Init /\ AccessIdle
  \/ world = "access" /\ AccessInit /\ RoutingIdle
GatewayNext ==
  \/ world = "routing" /\ Next /\ UNCHANGED <<accessVars, world>>
  \/ world = "access" /\ AccessNext /\ UNCHANGED <<vars, world>>
GatewaySpec ==
  GatewayInit /\ [][GatewayNext]_<<vars, accessVars, world>> /\ \A c \in Clients : Answers(c)
=============================================================================
