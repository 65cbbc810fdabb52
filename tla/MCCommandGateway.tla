-------------------------- MODULE MCCommandGateway --------------------------
(* Two buttons, one of them with a second LVAR, a knob that moves over and
   within its tolerance, a master switch, a selector of two positions, a key
   and an unknown one on two controllers; an event of two digits. *)
EXTENDS CommandGateway

MCMasterLVar == [m \in {22} |-> "AB_PDS_Eng1Master"]
MCKeyLVar == [k \in {0} |-> "MCDU_LSK1L"]
MCLVarValue ==
  [l \in {"AB_ECAM_CLR_Light", "ECAM_MODE"} |-> IF l = "ECAM_MODE" THEN {0, 13} ELSE {0, 1}]
=============================================================================
