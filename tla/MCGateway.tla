----------------------------- MODULE MCGateway -------------------------------
(* Finite instances of two parts of the Gateway that share nothing but its       *)
(* process: the strategy queue with its workers, and the relay of activation      *)
(* events.  A behaviour is of one part; part says which.                         *)
EXTENDS MCQueue, MCRelay

VARIABLE part

GatewayInit ==
    /\ QueueInit /\ RelayInit
    /\ \/ part = "queue" /\ log = <<>>
       \/ part = "relay" /\ log # <<>> /\ queue \in Plain

GatewayNext ==
    \/ part = "queue" /\ QueueNext /\ UNCHANGED <<relayVars, part>>
    \/ part = "relay" /\ RelayNext /\ UNCHANGED <<qvars, part>>

\* The relay of an empty partition has nothing to do, and fairness asks nothing of it.
GatewaySpec == GatewayInit /\ [][GatewayNext]_<<qvars, relayVars, part>> /\ RelayFairness
=============================================================================
