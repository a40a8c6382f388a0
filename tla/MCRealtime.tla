------------------------------ MODULE MCRealtime ------------------------------
(* A user with two connections and one with a single one; the direct channel  *)
(* that can be made is between the first and somebody who is not connected.   *)
EXTENDS Realtime, TLC

CONSTANTS a, b, c, a1, a2, b1, z1, z2

MCUserOf == a1 :> a @@ a2 :> a @@ b1 :> b
\* Two hubs, a level that previews the first, and no level although the session says hub.
MCPlaces == {[zone |-> z1, hub |-> TRUE, previews |-> {}],
             [zone |-> z2, hub |-> TRUE, previews |-> {}],
             [zone |-> z2, hub |-> FALSE, previews |-> {z1}],
             [zone |-> None, hub |-> TRUE, previews |-> {}]}
MCPairs == {{a, c}}
===============================================================================
