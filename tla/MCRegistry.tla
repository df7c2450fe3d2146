---------------------------- MODULE MCRegistry -----------------------------
(* A small instance of Registry. *)
EXTENDS Registry, TLC

CONSTANTS s1, d1, r1, p1, g1, c1, c2, h1

\* A gateway with all profiles, and one with the routing-profile only
MCRequests == {[serviceProfileID |-> s1, gatewayProfileID |-> p1,
                routingProfileID |-> r1, location |-> 0],
               [serviceProfileID |-> None, gatewayProfileID |-> None,
                routingProfileID |-> r1, location |-> 0]}
MCLocations == {None, 1}

ClientSymmetry == Permutations(Clients)
=============================================================================
