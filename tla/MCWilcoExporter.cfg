CONSTANTS
  Panel <- MCPanel
  Title = {"A320 CFM", "C172"}
  Wilco = {"A320 CFM"}
  NoCockpit = "none"
  MaxQueue = 2
  MaxLoads = 1
SPECIFICATION Spec
INVARIANTS
  TypeOK
  PressesKept
  CockpitMatchesAircraft
  EventsOnlyFromPanel
PROPERTIES
  PanelsShowAircraft
