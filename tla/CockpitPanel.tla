---------------------------- MODULE CockpitPanel ----------------------------
(***************************************************************************)
(* The tables a Wilco cockpit is mapped with: which FSUIPC cell of the     *)
(* range 0x5600 - 0x57FF stands for which control of the flight control    *)
(* unit and of the EFIS control panel (liboac/src/cockpit-fsuipc.cpp),     *)
(* what an event of that control does to the aircraft                      *)
(* (liboac/src/cockpit.cpp, wilco-exporter/src/wilco-fcu.cpp and           *)
(* wilco-efis.cpp), and which cell shows which part of the aircraft.       *)
(*                                                                         *)
(* A cell is named by its address.  The aircraft is a function of named    *)
(* variables; a value is a small number.  What a command does inside the   *)
(* aircraft's own DLL is external: a button inverts its function, a knob   *)
(* selects or manages its mode, a value is taken as it is.                 *)
(***************************************************************************)
EXTENDS Integers, Sequences

Press(cell, event) == [at |-> cell, does |-> event]

\* The buttons and knobs of the flight control unit, in the order its events
\* are polled.
FcuPresses == <<
  Press("5620", "SPD_BTN"),  Press("5621", "GUI_MODE_BTN"),
  Press("5622", "ALT_UNITS_BTN"),
  Press("5608", "LOC"),      Press("560B", "ATHR"),     Press("560C", "EXPE"),
  Press("560D", "APPR"),     Press("5609", "AP1"),      Press("560A", "AP2"),
  Press("5627", "PUSH_SPD"), Press("5628", "PULL_SPD"), Press("5629", "PUSH_HDG"),
  Press("562A", "PULL_HDG"), Press("562B", "PUSH_ALT"), Press("562C", "PULL_ALT"),
  Press("562D", "PUSH_VS"),  Press("562E", "PULL_VS") >>

Value(cell, variable) == [at |-> cell, of |-> variable]

\* Its values; the flight path angle is read at 5654 and shown at 5650.
FcuValues == <<
  Value("5638", "spd"), Value("563C", "mach"), Value("5640", "hdg"),
  Value("5644", "trk"), Value("5648", "alt"), Value("564C", "vs"),
  Value("5654", "fpa") >>

\* The buttons of the EFIS control panel: the barometer has one cell for
\* each of its positions.
EfisPresses == <<
  Press("5601", "FD"),      Press("5602", "ILS"),      Press("5603", "CSTR"),
  Press("5604", "WPT"),     Press("5605", "VORD"),     Press("5606", "NDB"),
  Press("5607", "ARPT"),    Press("561A", "IN_HG"),    Press("561B", "H_PA"),
  Press("561D", "SELECTED"), Press("561E", "STANDARD") >>

EfisValues == <<
  Value("561F", "baro_std"), Value("5623", "nd_mode"),
  Value("5624", "nd_range"), Value("5625", "nav1"), Value("5626", "nav2") >>

\* What the flight control unit shows, in the order it is written.
FcuOutputs == <<
  Value("562F", "spd_units"), Value("5630", "guidance"),
  Value("5631", "alt_units"), Value("5614", "loc"), Value("5617", "athr"),
  Value("5618", "expe"),      Value("5619", "gs"),  Value("5615", "ap1"),
  Value("5616", "ap2"),       Value("5632", "spd_mode"),
  Value("5633", "lat_mode"),  Value("5634", "ver_mode"),
  Value("5638", "spd"), Value("563C", "mach"), Value("5640", "hdg"),
  Value("5644", "trk"), Value("5648", "alt"),  Value("564C", "vs"),
  Value("5650", "fpa") >>

\* The flight director has no cell of its own.
EfisOutputs == <<
  Value("561F", "baro_std"), Value("561C", "baro_fmt"), Value("560E", "ils"),
  Value("560F", "cstr"), Value("5610", "wpt"),     Value("5611", "vord"),
  Value("5612", "ndb"),  Value("5613", "arpt"),    Value("5623", "nd_mode"),
  Value("5624", "nd_range"), Value("5625", "nav1"), Value("5626", "nav2") >>

-----------------------------------------------------------------------------
\* What events and outputs do.

Effect(variable, sets) == [of |-> variable, sets |-> sets]

\* What a press sets its variable to: 0, 1, or one of these two.
Invert  == 2   \* the function is off or on, and changes
Invert2 == 3   \* auto_thrust ^= 2: armed (1) is kept

\* The buttons of the flight control unit: push_*() and push_switch().
FcuButton == [
  SPD_BTN  |-> Effect("spd_units", Invert), GUI_MODE_BTN |-> Effect("guidance", Invert),
  ALT_UNITS_BTN |-> Effect("alt_units", Invert),
  LOC  |-> Effect("loc", Invert),           ATHR |-> Effect("athr", Invert2),
  EXPE |-> Effect("expe", Invert),          APPR |-> Effect("gs", Invert),
  AP1  |-> Effect("ap1", Invert),           AP2  |-> Effect("ap2", Invert)]

\* Its knobs: pushed, the mode is managed, pulled, it is selected.
FcuKnob == [
  PUSH_SPD |-> Effect("spd_mode", 1),       PULL_SPD |-> Effect("spd_mode", 0),
  PUSH_HDG |-> Effect("lat_mode", 1),       PULL_HDG |-> Effect("lat_mode", 0),
  PUSH_ALT |-> Effect("alt_mode", 1),       PULL_ALT |-> Effect("alt_mode", 0),
  PUSH_VS  |-> Effect("ver_mode", 1),       PULL_VS  |-> Effect("ver_mode", 0)]

\* push_*() and set_*() of the EFIS control panel.
EfisEffect == [
  FD   |-> Effect("fd", Invert),   ILS  |-> Effect("ils", Invert),
  CSTR |-> Effect("cstr", Invert), WPT  |-> Effect("wpt", Invert),
  VORD |-> Effect("vord", Invert), NDB  |-> Effect("ndb", Invert),
  ARPT |-> Effect("arpt", Invert),
  IN_HG |-> Effect("baro_fmt", 0), H_PA |-> Effect("baro_fmt", 1),
  SELECTED |-> Effect("baro_std", 0), STANDARD |-> Effect("baro_std", 1)]

\* Mutant: a button only ever switches its function on, and further.
PressedOnly(e, v) == v + 1

\* The value of a variable after effect e found it at v.
Pressed(e, v) ==
  CASE e.sets = Invert  -> 1 - v
    [] e.sets = Invert2 -> (v + 2) % 4
    [] OTHER            -> e.sets

\* What is shown of variable of: LOC only while no glide slope is armed or
\* followed, ATHR for any but 0, the second autopilot as its bit.
Shown(front, of) ==
  CASE of = "loc" /\ "gs" \in DOMAIN front ->
         IF front["gs"] = 0 THEN front["loc"] ELSE 0
    [] of = "athr" -> IF front["athr"] > 0 THEN 1 ELSE 0
    [] of = "ap2"  -> 2 * front["ap2"]
    [] OTHER       -> front[of]

\* The variables kept in FSUIPC rather than in the DLL: the calls that touch
\* them throw when FSUIPC refuses.
SetThroughFsuipc == {"mach", "fd"}
ReadThroughFsuipc == {"spd", "mach", "hdg"}

\* An angle below the horizon arrives as an unsigned number: the float kept
\* is past what iround() takes, and reading the angle throws from then on.
Descent == 3
Unreadable(front, of) == of = "fpa" /\ front["fpa"] = Descent

\* What a panel may turn a value to (a bound for the rest).
Settings(of) == IF of = "fpa" THEN {0, Descent} ELSE {0, 1}
=============================================================================
