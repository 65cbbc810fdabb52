------------------------- MODULE MCFsuipcFlightVars -------------------------
(* FsuipcFlightVars with two names of one offset, a second offset and a     *)
(* name that is no offset.                                                  *)
EXTENDS FsuipcFlightVars, TLC

MCVar == {"0x0354:2", "852:2", "0x0700:1", "not-an-offset"}
MCOffset == {"o852", "o1792"}
MCOffsetOf == ("0x0354:2" :> "o852") @@ ("852:2" :> "o852")
              @@ ("0x0700:1" :> "o1792") @@ ("not-an-offset" :> "none")
MCSpan == ("o852" :> 4) @@ ("o1792" :> 2)
=============================================================================
