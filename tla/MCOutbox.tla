------------------------------- MODULE MCOutbox -------------------------------
(* Two keys; one of them is carried by a request, its duplicate and a request *)
(* with another payload.                                                      *)
EXTENDS Outbox, TLC

CONSTANTS k1, k2, r1, r2, r3, r4, h1, h2

MCKeyOf == r1 :> k1 @@ r2 :> k1 @@ r3 :> k1 @@ r4 :> k2
MCHashOf == r1 :> h1 @@ r2 :> h1 @@ r3 :> h2 @@ r4 :> h1
===============================================================================
