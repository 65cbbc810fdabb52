------------------------- MODULE MCFlightVarsServer -------------------------
(* FlightVarsServer with a name of an offset and a name that is no offset.  *)
EXTENDS FlightVarsServer, TLC

OneVar == {"0x0354:2", "not-an-offset"}
MCOffset == {"o852"}
OneOffsetOf == ("0x0354:2" :> "o852") @@ ("not-an-offset" :> "none")
MCSpan == ("o852" :> 2)
=============================================================================
