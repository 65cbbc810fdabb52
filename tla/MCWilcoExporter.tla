--------------------------- MODULE MCWilcoExporter ---------------------------
(* WilcoExporter with the flight director and the mach number on the panel,   *)
(* the two controls the aircraft keeps in FSUIPC, and a Wilco and another.   *)
EXTENDS WilcoExporter

MCPanel == {"5601", "563C"}
=============================================================================
