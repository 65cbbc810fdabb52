------------------------- MODULE MCFlightVarsClient -------------------------
(* FlightVarsClient with two threads that share a variable; one of them also *)
(* asks for a variable that the server lacks.                                *)
EXTENDS FlightVarsClient, TLC

CONSTANTS c1, c2, v1, v2

Ids == 1..MaxCalls
SharedVars == (c1 :> {v1, v2}) @@ (c2 :> {v1})
=============================================================================
