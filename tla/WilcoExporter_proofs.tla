------------------------ MODULE WilcoExporter_proofs ------------------------
(***************************************************************************)
(* Proofs about WilcoExporter, for any aircraft, controls and bounds.      *)
(***************************************************************************)
EXTENDS WilcoExporter, WellFoundedInduction, TLAPS

Contents == [id : Ids, what : Title \cup {"", "1sec", "FlightLoaded", "AircraftLoaded"}]

TypeInv == queue \in Seq(Contents) /\ loaded \in Title

\* The plugin hears of an aircraft that is loaded.
Hears == "EVENT_FILENAME" \in receivers /\ "AircraftLoaded" \in events

\* The message that makes it do so, and ask, is the first one.
OpenComes == \E i \in DOMAIN queue : queue[i].id = "OPEN"
OpenFirst == \A i \in DOMAIN queue : queue[i].id = "OPEN" => i = 1

\* An aircraft that is loaded is noticed: by its event, or by the question the
\* plugin asks when the connection opens, unless that failed.
Noticed ==
  /\ {"OPEN", "EVENT", "SIMOBJECT_DATA"} \subseteq receivers
  /\ "FlightLoaded" \in events
  /\ missed \/ Hears \/ OpenComes

\* The plugin is still to be answered, or to ask.
Asking ==
  asked \/ \E i \in DOMAIN queue : queue[i].id \in {"OPEN", "EVENT_FILENAME"}

LastAnswer(i) ==
  /\ queue[i].id = "SIMOBJECT_DATA"
  /\ \A j \in DOMAIN queue : j > i => queue[j].id # "SIMOBJECT_DATA"

Matches == cockpit = IF loaded \in Wilco /\ ~refused THEN loaded ELSE NoCockpit

\* CockpitMatchesAircraft speaks of the moment when nothing is on the way; what
\* leads there is that the last answer on the way names the aircraft that
\* flies, however many titles of others come before it.
LastAnswerIsLoaded ==
  ~Asking /\ ~missed =>
    /\ \A i \in DOMAIN queue : LastAnswer(i) => queue[i].what = loaded
    /\ (\A i \in DOMAIN queue : queue[i].id # "SIMOBJECT_DATA") => Matches

PluginInv == TypeInv /\ OpenFirst /\ Noticed /\ LastAnswerIsLoaded

LEMMA OneMessage ==
  ASSUME NEW S, NEW m \in S
  PROVE  <<m>> \in Seq(S) /\ DOMAIN <<m>> = {1} /\ <<m>>[1] = m
  OBVIOUS

LEMMA InitPlugin == Init => PluginInv
  <1> SUFFICES ASSUME Init PROVE PluginInv
    OBVIOUS
  <1>1. /\ Message("OPEN", "") \in Contents
        /\ "FlightLoaded" \in events /\ loaded \in Title
        /\ {"OPEN", "EVENT", "SIMOBJECT_DATA"} \subseteq receivers
    BY DEF Init, Message, Contents, Ids
  <1>2. CASE missed
    <2>1. queue = << >>
      BY <1>2 DEF Init
    <2>2. queue \in Seq(Contents) /\ DOMAIN queue = {}
      BY <2>1
    <2> QED
      BY <1>1, <1>2, <2>2
      DEF PluginInv, TypeInv, OpenFirst, Noticed, LastAnswerIsLoaded
  <1>3. CASE ~missed
    <2>1. queue = <<Message("OPEN", "")>>
      BY <1>3 DEF Init
    <2>2. queue \in Seq(Contents) /\ DOMAIN queue = {1} /\ queue[1] = Message("OPEN", "")
      BY <1>1, <2>1, OneMessage, Zenon
    <2>3. Message("OPEN", "").id = "OPEN"
      BY DEF Message
    <2>4. queue[1].id = "OPEN"
      BY <2>2, <2>3, Zenon
    <2> QED
      BY <1>1, <2>2, <2>4
      DEF PluginInv, TypeInv, OpenFirst, Noticed, OpenComes, LastAnswerIsLoaded, Asking
  <1> QED BY <1>2, <1>3

\* What is in the queue after a message is posted, and after one is received.
LEMMA Posted ==
  ASSUME TypeInv, NEW msg \in Contents, Post(msg)
  PROVE  /\ queue' \in Seq(Contents)
         /\ DOMAIN queue' = DOMAIN queue \cup {Len(queue) + 1}
         /\ \A i \in DOMAIN queue : queue'[i] = queue[i] /\ i < Len(queue) + 1
         /\ queue'[Len(queue) + 1] = msg
  BY DEF TypeInv, Post

LEMMA Received ==
  ASSUME TypeInv, NEW id, Dispatch(id)
  PROVE  /\ queue' \in Seq(Contents)
         /\ 1 \in DOMAIN queue /\ queue[1].id = id /\ queue[1] = Head1
         /\ \A i \in DOMAIN queue : i = 1 \/ i - 1 \in DOMAIN queue'
         /\ \A i \in DOMAIN queue' :
              i \in Nat /\ i + 1 \in DOMAIN queue /\ queue'[i] = queue[i + 1]
  BY DEF TypeInv, Dispatch, Head1

\* Messages that neither ask nor answer leave what is said of the others.
LEMMA TickInv ==
  ASSUME PluginInv, Tick
  PROVE  PluginInv'
  <1>1. Message("EVENT", "1sec") \in Contents
    BY DEF Message, Contents, Ids
  <1>2. UNCHANGED <<receivers, events, asked, loaded, cockpit, refused, missed>>
    BY DEF Tick
  <1>3. CASE Post(Message("EVENT", "1sec"))
    <2>1. /\ queue' \in Seq(Contents)
          /\ DOMAIN queue' = DOMAIN queue \cup {Len(queue) + 1}
          /\ \A i \in DOMAIN queue : queue'[i] = queue[i] /\ i < Len(queue) + 1
          /\ queue'[Len(queue) + 1] = Message("EVENT", "1sec")
      BY <1>1, <1>3, Posted DEF PluginInv
    <2> USE DEF Message
    <2>2. TypeInv' /\ OpenFirst' /\ Noticed'
      BY <1>2, <2>1 DEF PluginInv, TypeInv, OpenFirst, Noticed, Hears, OpenComes
    <2>3. Asking' => Asking
      BY <1>2, <2>1 DEF Asking
    <2>4. Asking => Asking'
      BY <1>2, <2>1 DEF Asking
    <2>5. \A i \in DOMAIN queue' :
            LastAnswer(i)' => i \in DOMAIN queue /\ LastAnswer(i)
      BY <2>1 DEF LastAnswer
    <2>6. LastAnswerIsLoaded'
      BY <1>2, <2>1, <2>4, <2>5 DEF PluginInv, LastAnswerIsLoaded, Matches
    <2> QED BY <2>2, <2>6 DEF PluginInv
  <1>4. CASE UNCHANGED queue
    BY <1>2, <1>4
    DEF PluginInv, TypeInv, OpenFirst, Noticed, Hears, OpenComes, LastAnswerIsLoaded,
        Asking, LastAnswer, Matches
  <1> QED BY <1>3, <1>4 DEF Tick, Raise

LEMMA LoadInv ==
  ASSUME PluginInv, NEW t \in Title, NEW e \in {"AircraftLoaded", "FlightLoaded"},
         Load(t, e)
  PROVE  PluginInv'
  <1>1. Message("EVENT_FILENAME", e) \in Contents
    BY DEF Message, Contents, Ids
  <1>2. loaded' = t /\ UNCHANGED <<receivers, events, asked, missed>>
    BY DEF Load
  <1>3. CASE Post(Message("EVENT_FILENAME", e))
    <2>1. /\ queue' \in Seq(Contents)
          /\ DOMAIN queue' = DOMAIN queue \cup {Len(queue) + 1}
          /\ \A i \in DOMAIN queue : queue'[i] = queue[i]
          /\ queue'[Len(queue) + 1] = Message("EVENT_FILENAME", e)
      BY <1>1, <1>3, Posted DEF PluginInv
    <2>2. Asking'
      BY <2>1 DEF Asking, Message
    <2>3. OpenFirst' /\ Noticed'
      BY <1>2, <2>1 DEF PluginInv, OpenFirst, Noticed, Hears, OpenComes, Message
    <2> QED
      BY <1>2, <2>1, <2>2, <2>3 DEF PluginInv, TypeInv, LastAnswerIsLoaded
  <1>4. CASE e \notin events /\ UNCHANGED queue
    <2>1. Asking' \/ missed
      BY <1>4 DEF PluginInv, Noticed, Hears, OpenComes, Asking
    <2> QED
      BY <1>2, <1>4, <2>1
      DEF PluginInv, TypeInv, OpenFirst, Noticed, Hears, OpenComes, LastAnswerIsLoaded
  <1> QED BY <1>3, <1>4 DEF Load, Raise

LEMMA AnswerInv ==
  ASSUME PluginInv, AnswerTitle
  PROVE  PluginInv'
  <1>1. Message("SIMOBJECT_DATA", loaded) \in Contents
    BY DEF Message, Contents, Ids, PluginInv, TypeInv
  <1>2. UNCHANGED <<receivers, events, loaded, missed>> /\ Post(Message("SIMOBJECT_DATA", loaded))
    BY DEF AnswerTitle
  <1>3. /\ queue' \in Seq(Contents)
        /\ DOMAIN queue' = DOMAIN queue \cup {Len(queue) + 1}
        /\ \A i \in DOMAIN queue : queue'[i] = queue[i] /\ i < Len(queue) + 1
        /\ queue'[Len(queue) + 1] = Message("SIMOBJECT_DATA", loaded)
    BY <1>1, <1>2, Posted DEF PluginInv
  <1>4. \A i \in DOMAIN queue' : LastAnswer(i)' => i = Len(queue) + 1
    BY <1>3 DEF LastAnswer, Message
  <1>5. LastAnswerIsLoaded'
    BY <1>2, <1>3, <1>4 DEF LastAnswerIsLoaded, Message
  <1>6. OpenFirst' /\ Noticed'
    BY <1>2, <1>3 DEF PluginInv, OpenFirst, Noticed, Hears, OpenComes, Message
  <1> QED BY <1>2, <1>3, <1>5, <1>6 DEF PluginInv, TypeInv

\* OPEN is not behind another message.
LEMMA NoOpenLeft ==
  ASSUME PluginInv, NEW id, Dispatch(id)
  PROVE  /\ queue' \in Seq(Contents)
         /\ \A i \in DOMAIN queue' : queue'[i].id # "OPEN"
         /\ OpenComes => id = "OPEN"
  <1>1. /\ queue' \in Seq(Contents)
        /\ 1 \in DOMAIN queue /\ queue[1].id = id
        /\ \A i \in DOMAIN queue' :
             i \in Nat /\ i + 1 \in DOMAIN queue /\ queue'[i] = queue[i + 1]
    BY Received DEF PluginInv
  <1>2. \A i \in DOMAIN queue' : i + 1 # 1
    BY <1>1
  <1> QED BY <1>1, <1>2 DEF PluginInv, OpenFirst, OpenComes

\* A message that makes the plugin ask, or miss what it would have been told.
LEMMA AskInv ==
  ASSUME PluginInv, NEW id, Dispatch(id), asked' \/ missed', UNCHANGED loaded,
         missed' \/ Hears', "FlightLoaded" \in events', receivers \subseteq receivers'
  PROVE  PluginInv'
  <1>1. TypeInv' /\ OpenFirst'
    BY NoOpenLeft DEF PluginInv, TypeInv, OpenFirst
  <1> QED BY <1>1 DEF PluginInv, Noticed, LastAnswerIsLoaded, Asking

\* A message nobody receives is about an aircraft of which the plugin will
\* not hear.
LEMMA NotDeliveredInv ==
  ASSUME PluginInv, NotDelivered
  PROVE  PluginInv'
  <1>1. PICK id \in Ids \ receivers : Dispatch(id)
    BY DEF NotDelivered
  <1>2. UNCHANGED <<receivers, events, asked, loaded, missed>>
    BY DEF NotDelivered
  <1>3. id = "EVENT_FILENAME"
    BY <1>1 DEF PluginInv, Noticed, Ids
  <1>4. missed
    BY <1>1, <1>3, NoOpenLeft DEF PluginInv, Noticed, Hears
  <1> QED BY <1>1, <1>2, <1>4, AskInv DEF PluginInv, Noticed

LEMMA EventInv ==
  ASSUME PluginInv, on_simconnect_event
  PROVE  PluginInv'
  <1>1. /\ Dispatch("EVENT")
        /\ UNCHANGED <<receivers, events, asked, loaded, cockpit, refused, missed>>
    BY DEF on_simconnect_event, on_message
  <1>2. /\ queue' \in Seq(Contents)
        /\ queue[1].id = "EVENT"
        /\ \A i \in DOMAIN queue : i = 1 \/ i - 1 \in DOMAIN queue'
        /\ \A i \in DOMAIN queue' :
             i \in Nat /\ i + 1 \in DOMAIN queue /\ queue'[i] = queue[i + 1]
    BY <1>1, Received DEF PluginInv
  <1>3. \A i \in DOMAIN queue :
          i = 1 \/ (i - 1 \in DOMAIN queue' /\ queue'[i - 1] = queue[i])
    BY <1>2 DEF PluginInv, TypeInv
  <1>4. TypeInv' /\ OpenFirst' /\ Noticed'
    BY <1>1, NoOpenLeft DEF PluginInv, TypeInv, OpenFirst, Noticed, Hears
  <1>5. Asking => Asking'
    BY <1>1, <1>2, <1>3 DEF Asking
  <1>6. \A i \in DOMAIN queue' : LastAnswer(i)' => LastAnswer(i + 1)
    <2> SUFFICES ASSUME NEW i \in DOMAIN queue', LastAnswer(i)',
                        NEW j \in DOMAIN queue, j > i + 1
                 PROVE  queue[j].id # "SIMOBJECT_DATA"
      BY <1>2 DEF LastAnswer
    <2>1. i \in Nat /\ j \in Nat
      BY <1>2 DEF PluginInv, TypeInv
    <2> QED BY <1>3, <2>1 DEF LastAnswer
  <1>7. LastAnswerIsLoaded'
    BY <1>1, <1>2, <1>3, <1>5, <1>6 DEF PluginInv, LastAnswerIsLoaded, Matches
  <1> QED BY <1>4, <1>7 DEF PluginInv

LEMMA DataInv ==
  ASSUME PluginInv, on_simconnect_simobject_data
  PROVE  PluginInv'
  <1>1. /\ Dispatch("SIMOBJECT_DATA")
        /\ UNCHANGED <<receivers, events, asked, loaded, missed>>
        /\ IF Head1.what \in Wilco
           THEN \/ cockpit' = Head1.what /\ refused' = FALSE
                \/ cockpit' = NoCockpit /\ refused' = TRUE
           ELSE cockpit' = NoCockpit /\ refused' = FALSE
    BY DEF on_simconnect_simobject_data, on_message, resolve_aircraft_type_from_title,
           new_cockpit
  <1>2. /\ queue' \in Seq(Contents)
        /\ 1 \in DOMAIN queue /\ queue[1].id = "SIMOBJECT_DATA" /\ queue[1] = Head1
        /\ \A i \in DOMAIN queue : i = 1 \/ i - 1 \in DOMAIN queue'
        /\ \A i \in DOMAIN queue' :
             i \in Nat /\ i + 1 \in DOMAIN queue /\ queue'[i] = queue[i + 1]
    BY <1>1, Received DEF PluginInv
  <1>3. \A i \in DOMAIN queue :
          i = 1 \/ (i - 1 \in DOMAIN queue' /\ queue'[i - 1] = queue[i])
    BY <1>2 DEF PluginInv, TypeInv
  <1>4. TypeInv' /\ OpenFirst' /\ Noticed'
    BY <1>1, NoOpenLeft DEF PluginInv, TypeInv, OpenFirst, Noticed, Hears
  <1>5. Asking => Asking'
    BY <1>1, <1>2, <1>3 DEF Asking
  <1>6. \A i \in DOMAIN queue' : LastAnswer(i)' => LastAnswer(i + 1)
    <2> SUFFICES ASSUME NEW i \in DOMAIN queue', LastAnswer(i)',
                        NEW j \in DOMAIN queue, j > i + 1
                 PROVE  queue[j].id # "SIMOBJECT_DATA"
      BY <1>2 DEF LastAnswer
    <2>1. i \in Nat /\ j \in Nat
      BY <1>2 DEF PluginInv, TypeInv
    <2> QED BY <1>3, <2>1 DEF LastAnswer
  <1>7. ASSUME ~Asking', ~missed', \A i \in DOMAIN queue' : queue'[i].id # "SIMOBJECT_DATA"
        PROVE  Matches'
    <2>1. LastAnswer(1)
      BY <1>2, <1>3, <1>7 DEF LastAnswer
    <2>2. Head1.what = loaded
      BY <1>1, <1>2, <1>5, <1>7, <2>1 DEF PluginInv, LastAnswerIsLoaded
    <2> QED BY <1>1, <2>2 DEF Matches
  <1>8. LastAnswerIsLoaded'
    BY <1>1, <1>2, <1>5, <1>6, <1>7 DEF PluginInv, LastAnswerIsLoaded
  <1> QED BY <1>4, <1>8 DEF PluginInv

LEMMA NextPlugin == PluginInv /\ [Next]_vars => PluginInv'
  <1> SUFFICES ASSUME PluginInv, [Next]_vars
               PROVE  PluginInv'
    OBVIOUS
  <1>1. CASE Tick
    BY <1>1, TickInv
  <1>2. CASE \E t \in Title, e \in {"AircraftLoaded", "FlightLoaded"} : Load(t, e)
    BY <1>2, LoadInv
  <1>3. CASE AnswerTitle
    BY <1>3, AnswerInv
  <1>4. CASE on_simconnect_open
    BY <1>4, AskInv
    DEF on_simconnect_open, on_message, request_aircraft_title, register_callback,
        subscribe_to_system_event, Hears, PluginInv, Noticed
  <1>5. CASE on_simconnect_event
    BY <1>5, EventInv
  <1>6. CASE on_simconnect_event_filename
    <2>1. /\ Dispatch("EVENT_FILENAME") /\ "EVENT_FILENAME" \in receivers
          /\ UNCHANGED <<receivers, events, loaded>>
          /\ asked' \/ missed'
          /\ missed' \/ ~missed \/ "AircraftLoaded" \in events
      BY <1>6 DEF on_simconnect_event_filename, on_message, request_aircraft_title
    <2>2. missed' \/ Hears'
      BY <2>1, NoOpenLeft DEF PluginInv, Noticed, Hears
    <2> QED BY <2>1, <2>2, AskInv DEF PluginInv, Noticed
  <1>7. CASE on_simconnect_simobject_data
    BY <1>7, DataInv
  <1>8. CASE UNCHANGED pluginVars
    BY <1>8
    DEF pluginVars, PluginInv, TypeInv, OpenFirst, Noticed, Hears, OpenComes,
        LastAnswerIsLoaded, Asking, LastAnswer, Matches
  <1>9. CASE NotDelivered
    BY <1>9, NotDeliveredInv
  <1> QED
    BY <1>1, <1>2, <1>3, <1>4, <1>5, <1>6, <1>7, <1>8, <1>9 DEF Next, vars

\* When nothing is on the way any more, the plugin maps the cockpit of the
\* aircraft that flies, whatever was loaded while it was asked, unless a call
\* to SimConnect failed since it asked last (plugin.cpp:66-160).
THEOREM CockpitMatchesAircraftAlways == Spec => []CockpitMatchesAircraft
  <1>1. PluginInv => CockpitMatchesAircraft
    BY DEF PluginInv, LastAnswerIsLoaded, Asking, CockpitMatchesAircraft, Pending,
           Matches
  <1> QED BY InitPlugin, NextPlugin, <1>1, PTL DEF Spec
-----------------------------------------------------------------------------
(* The map of the cockpit.                                                  *)

\* The variables that a press inverts.
Inverted == {"spd_units", "guidance", "alt_units", "loc", "expe", "gs", "ap1", "ap2",
             "fd", "ils", "cstr", "wpt", "vord", "ndb", "arpt"}

\* Those hold 0 or 1: a press of any other value would leave what is kept.
CockpitTypeInv ==
  /\ CockpitTypeOK
  /\ \A v \in Used \cap Inverted : front[v] \in 0..1

Mapping == {"MapDown", "MapUp", "sync_up"}

\* A press that is wanted is in FSUIPC, and in the image while that one is
\* mapped; when its events are applied none is wanted and none is in the image
\* that is about to be written.
WantedInv ==
  /\ \A c \in wanted : mem[c] = 1
  /\ step = "MapDown" => \A c \in wanted : buf[cur][c] = 1
  /\ step \in {"MapUp", "sync_up"} =>
       wanted = {} /\ \A c \in Presses : buf[cur][c] = 0

\* What was shown last is still in FSUIPC where no panel has touched it.
TouchedInv ==
  clean =>
    /\ step \in {"idle", "sync_down"} =>
         /\ \A c \in Presses \ touched : mem[c] = 0
         /\ buf # NoBuffer => \A c \in Values \ touched : mem[c] = buf[cur][c]
    /\ step = "MapDown" => {CellOf(i) : i \in Polled} \subseteq touched

\* Before it is written to FSUIPC the image shows the aircraft.
ShownInv ==
  step = "sync_up" =>
    \A i \in Outputs : buf[cur][Written[i].at] = Shown(front, Written[i].of)

CockpitInv ==
  /\ CockpitTypeInv
  /\ step \in Mapping => buf # NoBuffer
  /\ WantedInv
  /\ TouchedInv
  /\ ShownInv

-----------------------------------------------------------------------------
(* The tables.                                                              *)

PressCells ==
  {"5620", "5621", "5622", "5608", "560B", "560C", "560D", "5609", "560A", "5627",
   "5628", "5629", "562A", "562B", "562C", "562D", "562E", "5601", "5602", "5603",
   "5604", "5605", "5606", "5607", "561A", "561B", "561D", "561E"}
ValueCells ==
  {"5638", "563C", "5640", "5644", "5648", "564C", "5654", "561F", "5623", "5624",
   "5625", "5626"}
OutCells ==
  {"562F", "5630", "5631", "5614", "5617", "5618", "5619", "5615", "5616", "5632",
   "5633", "5634", "5638", "563C", "5640", "5644", "5648", "564C", "5650", "561F",
   "561C", "560E", "560F", "5610", "5611", "5612", "5613", "5623", "5624", "5625",
   "5626"}

LEMMA CellsApart ==
  /\ PressCells \cap ValueCells = {} /\ PressCells \cap OutCells = {}
  /\ "5600" \notin PressCells \cup ValueCells \cup OutCells
  BY SMT DEF PressCells, ValueCells, OutCells

\* A press of an event of the tables.
IsPressEntry(c) ==
  /\ "does" \in DOMAIN c
  /\ c.at \in PressCells
  /\ \/ c.does \in DOMAIN FcuButton
     \/ c.does \in DOMAIN FcuKnob
     \/ c.does \in DOMAIN EfisEffect

IsValueEntry(c) ==
  "does" \notin DOMAIN c /\ c.at \in ValueCells /\ c.of \notin Inverted

LEMMA ControlEntries ==
  /\ DOMAIN Controls = 1..40 /\ Len(Controls) = 40 /\ FcuEnd = 24
  /\ \A i \in DOMAIN Controls : IF IsPress(i) THEN IsPressEntry(Controls[i])
                                              ELSE IsValueEntry(Controls[i])
  BY SMT DEF Controls, FcuEnd, IsPress, IsPressEntry, IsValueEntry, FcuPresses, Press,
     PressCells, FcuButton, FcuKnob, EfisPresses, EfisEffect, FcuValues, EfisValues,
     Value, ValueCells, Inverted

LEMMA OutputsOnce ==
  /\ \A i \in DOMAIN Written : Written[i].at \in OutCells
  /\ \A i, j \in DOMAIN Written : Written[i].at = Written[j].at => i = j
  BY SMT DEF Written, FcuOutputs, EfisOutputs, Value, OutCells

\* Every press inverts a variable that holds 0 or 1, or sets another one.
LEMMA Effects ==
  ASSUME NEW i \in DOMAIN Controls, IsPress(i)
  PROVE  /\ EffectOf(i).sets \in 0..3
         /\ EffectOf(i).sets = Invert <=> EffectOf(i).of \in Inverted
  <1> DEFINE d == Controls[i].does
             Sound(e) == e.sets \in 0..3 /\ (e.sets = Invert <=> e.of \in Inverted)
  <1>1. d \in DOMAIN FcuButton \/ d \in DOMAIN FcuKnob \/ d \in DOMAIN EfisEffect
    BY ControlEntries DEF IsPressEntry
  <1>2. \A e \in DOMAIN FcuButton : Sound(FcuButton[e])
    BY DEF FcuButton, Effect, Invert, Invert2, Inverted
  <1>3. \A e \in DOMAIN FcuKnob : Sound(FcuKnob[e])
    BY DEF FcuKnob, Effect, Invert, Inverted
  <1>4. \A e \in DOMAIN EfisEffect : Sound(EfisEffect[e])
    BY DEF EfisEffect, Effect, Invert, Inverted
  <1> HIDE DEF Sound
  <1>5. Sound(EffectOf(i))
    BY <1>1, <1>2, <1>3, <1>4 DEF EffectOf
  <1> QED BY <1>5 DEF Sound

LEMMA ControlCells ==
  /\ Presses \subseteq PressCells /\ Values \subseteq ValueCells
  /\ \A i \in Fitted : IF IsPress(i) THEN CellOf(i) \in Presses ELSE CellOf(i) \in Values
  /\ \A i \in Fitted : OfEvent(i) \in Used /\ i \in Int
  BY ControlEntries
  DEF Presses, Values, Fitted, CellOf, IsPressEntry, IsValueEntry, Used

LEMMA Cells ==
  /\ Presses \cap Values = {} /\ Presses \cap OutputCells = {}
  /\ "5600" \notin Presses \cup Values \cup OutputCells
  /\ Presses \subseteq Cell /\ Values \subseteq Cell /\ OutputCells \subseteq Cell
  /\ "5600" \in Cell
  BY ControlCells, CellsApart, OutputsOnce DEF OutputCells, Outputs, Cell

LEMMA Images ==
  /\ Blank \in Image
  /\ \A b \in [0..1 -> Image] : b # NoBuffer
  <1>1. Blank \in Image
    BY DEF Blank, Image
  <1>2. \A b \in [0..1 -> Image] : 0 \in DOMAIN b
    OBVIOUS
  <1>3. 0 \notin DOMAIN NoBuffer
    BY DEF NoBuffer
  <1> QED BY <1>1, <1>2, <1>3

LEMMA ShownRange ==
  ASSUME CockpitTypeInv, NEW of \in Used
  PROVE  Shown(front, of) \in 0..3
  BY DEF CockpitTypeInv, CockpitTypeOK, Shown, Inverted

\* The last of some controls.
LEMMA LastControl ==
  ASSUME NEW T \in SUBSET (1..40), T # {}
  PROVE  Max(T) \in T
  <1> DEFINE R == {r \in Nat \X Nat : r[1] < r[2]}
             S == {40 - t : t \in T}
  <1>1. IsWellFoundedOn(R, Nat)
    <2>1. R = OpToRel(<, Nat)
      BY DEF OpToRel
    <2> QED BY <2>1, NatLessThanWellFounded
  <1>2. S \subseteq Nat /\ S # {}
    <2>1. \A t \in T : t \in 1..40 /\ 40 - t \in Nat
      OBVIOUS
    <2> QED BY <2>1
  <1> HIDE DEF R, S
  <1>3. PICK m \in S : \A y \in S : ~(<<y, m>> \in R)
    BY <1>1, <1>2, WFMin
  <1>4. PICK t \in T : m = 40 - t
    BY <1>3 DEF S
  <1>5. ASSUME NEW y \in T
        PROVE  t >= y
    <2>1. 40 - y \in S /\ y \in 1..40 /\ t \in 1..40
      BY DEF S
    <2>2. ~(<<40 - y, 40 - t>> \in R)
      BY <1>3, <1>4, <2>1
    <2> QED BY <2>1, <2>2 DEF R
  <1> QED BY <1>5 DEF Max

-----------------------------------------------------------------------------
(* Types.                                                                   *)

LEMMA AfterRange ==
  ASSUME CockpitTypeInv, buf # NoBuffer, NEW i \in Fitted
  PROVE  LET v == OfEvent(i)
         IN  /\ v \in Used
             /\ After(i, front[v]) \in 0..3
             /\ v \in Inverted => After(i, front[v]) \in 0..1
  <1>1. i \in DOMAIN Controls
    BY DEF Fitted
  <1>2. /\ OfEvent(i) \in Used
        /\ front[OfEvent(i)] \in 0..3
        /\ OfEvent(i) \in Inverted => front[OfEvent(i)] \in 0..1
    BY ControlCells DEF CockpitTypeInv, CockpitTypeOK
  <1>3. CASE IsPress(i)
    <2>1. /\ EffectOf(i).sets \in 0..3
          /\ EffectOf(i).sets = Invert <=> OfEvent(i) \in Inverted
      BY <1>1, <1>3, Effects DEF OfEvent
    <2> QED BY <1>2, <1>3, <2>1 DEF After, Pressed, Invert, Invert2
  <1>4. CASE ~IsPress(i)
    <2>1. buf[cur] \in Image /\ CellOf(i) \in Cell
      BY <1>4, ControlCells, Cells DEF CockpitTypeInv, CockpitTypeOK
    <2>2. OfEvent(i) \notin Inverted
      BY <1>1, <1>4, ControlEntries DEF OfEvent, IsValueEntry
    <2> QED BY <1>2, <1>4, <2>1, <2>2 DEF After, Image
  <1> QED BY <1>3, <1>4

LEMMA ApplyType ==
  ASSUME CockpitTypeInv, buf # NoBuffer, NEW controls \in SUBSET Fitted
  PROVE  /\ Apply(controls) \in [Used -> 0..3]
         /\ \A v \in Used \cap Inverted : Apply(controls)[v] \in 0..1
  <1> SUFFICES ASSUME NEW v \in Used
               PROVE  /\ Apply(controls)[v] \in 0..3
                      /\ v \in Inverted => Apply(controls)[v] \in 0..1
    BY DEF Apply
  <1> DEFINE of == {i \in controls : OfEvent(i) = v}
  <1>1. CASE of = {}
    BY <1>1 DEF Apply, CockpitTypeInv, CockpitTypeOK
  <1>2. CASE of # {}
    <2>1. of \in SUBSET (1..40)
      BY ControlEntries DEF Fitted
    <2>2. Max(of) \in of
      BY <1>2, <2>1, LastControl
    <2>3. PICK i \in Fitted : i = Max(of) /\ OfEvent(i) = v
      BY <2>2
    <2>4. Apply(controls)[v] = After(i, front[v])
      BY <1>2, <2>3 DEF Apply
    <2> QED BY <2>3, <2>4, AfterRange
  <1> QED BY <1>1, <1>2

LEMMA SyncDownType ==
  ASSUME CockpitTypeInv, sync_down
  PROVE  CockpitTypeInv'
  <1>1. mem \in Image /\ cur \in 0..1 /\ 1 - cur \in 0..1
    BY DEF CockpitTypeInv, CockpitTypeOK
  <1>2. buf' = NoBuffer \/ buf' \in [0..1 -> Image]
    <2>1. CASE buf = NoBuffer
      BY <1>1, <2>1, Images DEF sync_down, ReadImages, UnreadImages
    <2>2. CASE buf # NoBuffer
      <3>1. buf \in [0..1 -> Image]
        BY <2>2 DEF CockpitTypeInv, CockpitTypeOK
      <3> QED BY <1>1, <2>2, <3>1 DEF sync_down, ReadImages, UnreadImages
    <2> QED BY <2>1, <2>2
  <1>3. cur' \in 0..1
    BY <1>1 DEF sync_down
  <1>4. touched' \subseteq touched
    BY DEF sync_down
  <1>5. step' \in {"idle", "MapDown"} /\ clean' \in BOOLEAN
    BY DEF sync_down, Fail, CockpitTypeInv, CockpitTypeOK
  <1>6. UNCHANGED <<mem, front, wanted>>
    BY DEF sync_down
  <1> QED BY <1>2, <1>3, <1>4, <1>5, <1>6 DEF CockpitTypeInv, CockpitTypeOK

LEMMA MapDownType ==
  ASSUME CockpitTypeInv, step \in Mapping => buf # NoBuffer, MapDown
  PROVE  CockpitTypeInv'
  <1>1. step = "MapDown" /\ buf # NoBuffer
    BY DEF MapDown, Mapping
  <1>2. PICK n \in 1..Len(Controls) + 1 :
          /\ buf' = [buf EXCEPT ![cur] = Cleared(n)]
          /\ Applying({i \in Polled : i < n})
          /\ (step' = "MapUp" /\ UNCHANGED clean) \/ Fail
    BY DEF MapDown
  <1> DEFINE controls == {i \in Polled : i < n}
  <1>3. controls \in SUBSET Fitted
    BY DEF Polled
  <1>4. /\ front' = Apply(controls) /\ wanted' \subseteq wanted /\ touched' \subseteq touched
    BY <1>2 DEF Applying
  <1>5. buf' \in [0..1 -> Image]
    <2>1. buf[cur] \in Image /\ buf \in [0..1 -> Image] /\ cur \in 0..1
      BY <1>1 DEF CockpitTypeInv, CockpitTypeOK
    <2>2. Cleared(n) \in Image
      BY <2>1 DEF Cleared, Image
    <2> QED BY <1>2, <2>1, <2>2
  <1>6. UNCHANGED <<mem, cur>> /\ step' \in {"idle", "MapUp"} /\ clean' \in BOOLEAN
    BY <1>2 DEF MapDown, Fail, CockpitTypeInv, CockpitTypeOK
  <1>7. /\ Apply(controls) \in [Used -> 0..3]
        /\ \A v \in Used \cap Inverted : Apply(controls)[v] \in 0..1
    BY <1>1, <1>3, ApplyType
  <1> HIDE DEF controls
  <1> QED BY <1>4, <1>5, <1>6, <1>7 DEF CockpitTypeInv, CockpitTypeOK

LEMMA Edited ==
  ASSUME NEW f \in Image, NEW c
  PROVE  /\ \A v \in 0..3 : [f EXCEPT ![c] = v] \in Image
         /\ [f EXCEPT ![c] = 1] \in Image
  <1>1. \A v \in 0..3 : [f EXCEPT ![c] = v] \in Image
    BY DEF Image
  <1>2. 1 \in 0..3
    OBVIOUS
  <1> QED BY <1>1, <1>2

\* What is written of the outputs, and that nothing else is.
LEMMA ShowImage ==
  ASSUME CockpitTypeInv, NEW image \in Image, NEW n
  PROVE  /\ Show(image, n) \in Image
         /\ \A i \in Outputs : i < n =>
              Show(image, n)[Written[i].at] = Shown(front, Written[i].of)
         /\ \A c \in Cell \ OutputCells : Show(image, n)[c] = image[c]
  <1>1. \A i \in Outputs : /\ Written[i].at \in OutputCells
                           /\ Written[i].of \in Used
                           /\ (CHOOSE j \in Outputs : Written[j].at = Written[i].at) = i
    <2> TAKE i \in Outputs
    <2> DEFINE j == CHOOSE j \in Outputs : Written[j].at = Written[i].at
    <2>1. j \in Outputs /\ Written[j].at = Written[i].at
      OBVIOUS
    <2>2. j = i
      BY <2>1, OutputsOnce DEF Outputs
    <2> QED BY <2>2 DEF OutputCells, Outputs
  <1>2. \A i \in Outputs : Shown(front, Written[i].of) \in 0..3
    BY <1>1, ShownRange
  <1>3. ASSUME NEW c \in Cell
        PROVE  Show(image, n)[c] \in 0..3
    <2>1. CASE \E i \in Outputs : i < n /\ Written[i].at = c
      <3>1. PICK i \in Outputs : i < n /\ Written[i].at = c
        BY <2>1
      <3>2. (CHOOSE j \in Outputs : Written[j].at = c) = i
        BY <1>1, <3>1
      <3>3. Show(image, n)[c] = Shown(front, Written[i].of)
        BY <2>1, <3>2 DEF Show
      <3> QED BY <1>2, <3>3
    <2>2. CASE ~\E i \in Outputs : i < n /\ Written[i].at = c
      BY <2>2 DEF Show, Image
    <2> QED BY <2>1, <2>2
  <1>4. \A i \in Outputs : i < n =>
          Show(image, n)[Written[i].at] = Shown(front, Written[i].of)
    BY <1>1, Cells DEF Show
  <1>5. \A c \in Cell \ OutputCells : Show(image, n)[c] = image[c]
    BY <1>1 DEF Show
  <1>6. Show(image, n) = [c \in Cell |-> Show(image, n)[c]]
    BY DEF Show
  <1> QED BY <1>3, <1>4, <1>5, <1>6 DEF Image

LEMMA MapUpType ==
  ASSUME CockpitTypeInv, step \in Mapping => buf # NoBuffer, MapUp
  PROVE  CockpitTypeInv'
  <1>1. step = "MapUp" /\ buf # NoBuffer
    BY DEF MapUp, Mapping
  <1>2. buf[cur] \in Image /\ buf \in [0..1 -> Image] /\ cur \in 0..1
    BY <1>1 DEF CockpitTypeInv, CockpitTypeOK
  <1>3. PICK n : /\ buf' = [buf EXCEPT ![cur] = Show(@, n)]
                 /\ (step' = "sync_up" /\ UNCHANGED clean) \/ Fail
    BY DEF MapUp
  <1>4. Show(buf[cur], n) \in Image
    BY <1>2, ShowImage
  <1>5. buf' \in [0..1 -> Image]
    BY <1>2, <1>3, <1>4
  <1>6. UNCHANGED <<mem, cur, front, wanted, touched>>
    BY DEF MapUp
  <1>7. step' \in {"idle", "sync_up"} /\ clean' \in BOOLEAN
    BY <1>3 DEF Fail, CockpitTypeInv, CockpitTypeOK
  <1> QED BY <1>5, <1>6, <1>7 DEF CockpitTypeInv, CockpitTypeOK

LEMMA SyncUpType ==
  ASSUME CockpitTypeInv, step \in Mapping => buf # NoBuffer, sync_up
  PROVE  CockpitTypeInv'
  <1>1. step = "sync_up" /\ buf # NoBuffer
    BY DEF sync_up, Mapping
  <1>2. buf[cur] \in Image /\ buf \in [0..1 -> Image] /\ cur \in 0..1
    BY <1>1 DEF CockpitTypeInv, CockpitTypeOK
  <1> DEFINE image == [buf[cur] EXCEPT !["5600"] = 1]
  <1>3. image \in Image
    BY <1>2, Edited
  <1>4. /\ buf' = [buf EXCEPT ![cur] = image]
        /\ mem' \in {image, mem} /\ touched' \in {{}, touched}
        /\ step' = "idle" /\ clean' \in BOOLEAN
        /\ UNCHANGED <<cur, front, wanted>>
    BY DEF sync_up, Fail
  <1> HIDE DEF image
  <1>5. buf' \in [0..1 -> Image]
    BY <1>2, <1>3, <1>4
  <1> QED BY <1>3, <1>4, <1>5 DEF CockpitTypeInv, CockpitTypeOK

LEMMA PanelsType ==
  ASSUME CockpitTypeInv, Panels
  PROVE  CockpitTypeInv'
  <1>1. ASSUME NEW c \in Presses, PanelPress(c)
        PROVE  CockpitTypeInv'
    <2>1. mem' \in Image
      BY <1>1, Edited DEF PanelPress, CockpitTypeInv, CockpitTypeOK
    <2> QED BY <1>1, <2>1 DEF PanelPress, CockpitTypeInv, CockpitTypeOK
  <1>2. ASSUME NEW i \in {j \in Fitted : ~IsPress(j)}, NEW v \in Settings(OfEvent(i)),
               PanelTurn(CellOf(i), v)
        PROVE  CockpitTypeInv'
    <2>1. CellOf(i) \in Values /\ v \in 0..3
      BY <1>2, ControlCells DEF Settings, Descent
    <2>2. mem' \in Image
      BY <1>2, <2>1, Edited DEF PanelTurn, CockpitTypeInv, CockpitTypeOK
    <2> QED BY <1>2, <2>1, <2>2 DEF PanelTurn, CockpitTypeInv, CockpitTypeOK
  <1> QED BY <1>1, <1>2 DEF Panels

LEMMA PilotType ==
  ASSUME CockpitTypeInv, Pilot
  PROVE  CockpitTypeInv'
  <1>1. PICK v \in Used, s \in 0..1 : PilotMoves([front EXCEPT ![v] = s])
    BY DEF Pilot
  <1>2. /\ front' \in [Used -> 0..3]
        /\ \A w \in Used \cap Inverted : front'[w] \in 0..1
    BY <1>1 DEF PilotMoves, CockpitTypeInv, CockpitTypeOK
  <1> QED BY <1>1, <1>2 DEF PilotMoves, CockpitTypeInv, CockpitTypeOK

\* What the plugin does to the cockpit: it maps it, it drops its images, or
\* it does not touch it.
Owning ==
  /\ step = "idle"
  /\ step' \in {"idle", "sync_down"}
  /\ drop_images \/ UNCHANGED <<buf, cur>>
  /\ UNCHANGED <<mem, front, wanted, touched, clean>>

LEMMA CockpitSteps ==
  [Next]_vars => map \/ Panels \/ Pilot \/ Owning \/ UNCHANGED cockpitVars
  <1> SUFFICES ASSUME [Next]_vars
               PROVE  map \/ Panels \/ Pilot \/ Owning \/ UNCHANGED cockpitVars
    OBVIOUS
  <1>1. CASE Tick \/ AnswerTitle \/ NotDelivered \/ on_simconnect_open \/ UNCHANGED vars
    BY <1>1 DEF Tick, AnswerTitle, NotDelivered, on_simconnect_open, vars
  <1>2. CASE \E t \in Title, e \in {"AircraftLoaded", "FlightLoaded"} : Load(t, e)
    BY <1>2 DEF Load
  <1>3. CASE on_simconnect_event
    BY <1>3 DEF on_simconnect_event, on_message, Dispatch, Owning
  <1>4. CASE on_simconnect_event_filename
    BY <1>4 DEF on_simconnect_event_filename, on_message, Dispatch, Owning
  <1>5. CASE on_simconnect_simobject_data
    BY <1>5 DEF on_simconnect_simobject_data, on_message, Dispatch, Owning
  <1> QED BY <1>1, <1>2, <1>3, <1>4, <1>5 DEF Next

LEMMA OwningType ==
  ASSUME CockpitTypeInv, Owning
  PROVE  CockpitTypeInv'
  BY DEF Owning, drop_images, CockpitTypeInv, CockpitTypeOK

-----------------------------------------------------------------------------
(* What the map keeps.                                                      *)

LEMMA SyncDownCockpit ==
  ASSUME CockpitInv, sync_down
  PROVE  CockpitInv'
  <1>1. CockpitTypeInv'
    BY SyncDownType DEF CockpitInv
  <1>2. /\ step = "sync_down" /\ mem \in Image /\ cur \in 0..1
        /\ buf # NoBuffer => buf \in [0..1 -> Image]
        /\ wanted \subseteq Presses
    BY DEF sync_down, CockpitInv, CockpitTypeInv, CockpitTypeOK
  <1>3. CASE Fail
    BY <1>1, <1>2, <1>3
    DEF sync_down, Fail, CockpitInv, Mapping, WantedInv, TouchedInv, ShownInv
  <1>4. CASE /\ buf' = ReadImages(buf, cur, mem) /\ cur' = 1 - cur /\ step' = "MapDown"
             /\ touched' = IF buf = NoBuffer THEN touched \ Values ELSE touched
             /\ UNCHANGED clean
    <2>1. UNCHANGED <<mem, front, wanted>>
      BY DEF sync_down
    <2>2. buf' \in [0..1 -> Image] /\ buf'[cur'] = mem
      BY <1>2, <1>4 DEF ReadImages
    <2>3. buf' # NoBuffer
      BY <2>2, Images
    <2>4. WantedInv'
      BY <1>4, <2>1, <2>2 DEF CockpitInv, WantedInv
    <2>5. ASSUME clean, NEW i \in Polled'
          PROVE  CellOf(i) \in touched'
      <3>1. i \in Fitted
        BY DEF Polled
      <3>2. CASE IsPress(i)
        <4>1. mem[CellOf(i)] # 0
          BY <2>2, <3>2 DEF Polled
        <4>2. CellOf(i) \in Presses /\ CellOf(i) \notin Values
          BY <3>1, <3>2, ControlCells, Cells
        <4>3. CellOf(i) \in touched
          BY <1>2, <2>5, <4>1, <4>2 DEF CockpitInv, TouchedInv
        <4> QED BY <1>4, <4>2, <4>3
      <3>3. CASE ~IsPress(i)
        <4>1. buf'[0][CellOf(i)] # buf'[1][CellOf(i)]
          BY <3>3 DEF Polled, is_modified
        <4>2. CellOf(i) \in Values
          BY <3>1, <3>3, ControlCells
        <4>3. buf # NoBuffer
          BY <1>4, <4>1 DEF ReadImages
        <4>4. mem[CellOf(i)] # buf[cur][CellOf(i)]
          BY <1>2, <1>4, <4>1, <4>3 DEF ReadImages
        <4> QED
          BY <1>2, <1>4, <2>5, <4>2, <4>3, <4>4 DEF CockpitInv, TouchedInv
      <3> QED BY <3>2, <3>3
    <2>6. TouchedInv'
      BY <1>4, <2>5 DEF TouchedInv, CellOf
    <2> QED BY <1>1, <1>4, <2>3, <2>4, <2>6 DEF CockpitInv, ShownInv
  <1> QED BY <1>3, <1>4 DEF sync_down

LEMMA MapDownCockpit ==
  ASSUME CockpitInv, MapDown
  PROVE  CockpitInv'
  <1>1. CockpitTypeInv'
    BY MapDownType DEF CockpitInv
  <1>2. /\ step = "MapDown" /\ buf # NoBuffer
        /\ buf[cur] \in Image /\ buf \in [0..1 -> Image] /\ cur \in 0..1
        /\ wanted \subseteq Presses
    BY DEF MapDown, CockpitInv, Mapping, CockpitTypeInv, CockpitTypeOK
  <1>3. PICK n \in 1..Len(Controls) + 1 :
          /\ buf' = [buf EXCEPT ![cur] = Cleared(n)]
          /\ Applying({i \in Polled : i < n})
          /\ \/ n = Len(Controls) + 1 /\ step' = "MapUp" /\ UNCHANGED clean
             \/ Fail
    BY DEF MapDown
  <1>4. /\ UNCHANGED <<mem, cur>>
        /\ wanted' = wanted \ {CellOf(i) : i \in {j \in Polled : j < n}}
    BY <1>3 DEF MapDown, Applying
  <1>5. CASE Fail
    BY <1>1, <1>4, <1>5 DEF Fail, CockpitInv, Mapping, WantedInv, TouchedInv, ShownInv
  <1>6. CASE n = Len(Controls) + 1 /\ step' = "MapUp" /\ UNCHANGED clean
    <2>1. n = 41 /\ \A i \in Fitted : i \in 1..40
      BY <1>6, ControlEntries DEF Fitted
    <2>2. buf' # NoBuffer
      BY <1>2, <1>3, Images DEF Cleared, Image
    <2>3. ASSUME NEW c \in Presses
          PROVE  buf'[cur'][c] = 0 /\ c \notin wanted'
      <3>1. PICK i \in Fitted : IsPress(i) /\ CellOf(i) = c
        BY DEF Presses
      <3>2. Cleared(n)[c] = 0
        BY <2>1, <3>1, Cells, ControlEntries DEF Cleared
      <3>3. c \in wanted => i \in Polled
        BY <1>2, <3>1 DEF CockpitInv, WantedInv, Polled
      <3>4. c \notin wanted'
        <4>1. ASSUME c \in wanted
              PROVE  c \in {CellOf(j) : j \in {k \in Polled : k < n}}
          <5>1. i \in Polled
            BY <3>3, <4>1
          <5>2. i \in 1..40
            BY <2>1, <3>1
          <5>3. i < n
            BY <2>1, <5>2
          <5> QED BY <3>1, <5>1, <5>3
        <4> QED BY <1>4, <4>1
      <3>5. buf'[cur'] = Cleared(n)
        BY <1>2, <1>3, <1>4
      <3> QED BY <3>2, <3>4, <3>5
    <2>4. WantedInv'
      BY <1>2, <1>4, <1>6, <2>3 DEF CockpitInv, WantedInv
    <2> QED
      BY <1>1, <1>6, <2>2, <2>4 DEF CockpitInv, Mapping, TouchedInv, ShownInv
  <1> QED BY <1>3, <1>5, <1>6

LEMMA MapUpCockpit ==
  ASSUME CockpitInv, MapUp
  PROVE  CockpitInv'
  <1>1. CockpitTypeInv'
    BY MapUpType DEF CockpitInv
  <1>2. /\ step = "MapUp" /\ buf # NoBuffer
        /\ buf[cur] \in Image /\ buf \in [0..1 -> Image] /\ cur \in 0..1
    BY DEF MapUp, CockpitInv, Mapping, CockpitTypeInv, CockpitTypeOK
  <1>3. UNCHANGED <<mem, cur, front, wanted, touched>>
    BY DEF MapUp
  <1>4. PICK n \in Outputs \cup {Len(Written) + 1} :
          /\ buf' = [buf EXCEPT ![cur] = Show(@, n)]
          /\ (n \notin Outputs /\ step' = "sync_up" /\ UNCHANGED clean) \/ Fail
    BY DEF MapUp
  <1>5. CASE Fail
    BY <1>1, <1>2, <1>3, <1>5
    DEF Fail, CockpitInv, Mapping, WantedInv, TouchedInv, ShownInv
  <1>6. CASE n = Len(Written) + 1 /\ step' = "sync_up" /\ UNCHANGED clean
    <2>1. buf'[cur'] = Show(buf[cur], n)
      BY <1>2, <1>3, <1>4
    <2>2. buf' # NoBuffer
      BY <1>2, <1>4, ShowImage, Images DEF CockpitInv
    <2>3. \A i \in Outputs : i < n
      BY <1>6 DEF Outputs, Written, FcuOutputs, EfisOutputs, Value
    <2>4. ShownInv'
      <3>1. \A i \in Outputs : Show(buf[cur], n)[Written[i].at] = Shown(front, Written[i].of)
        BY <1>2, <2>3, ShowImage DEF CockpitInv
      <3> QED BY <1>3, <2>1, <3>1 DEF ShownInv
    <2>5. WantedInv'
      <3>1. \A c \in Presses : Show(buf[cur], n)[c] = buf[cur][c]
        BY <1>2, ShowImage, Cells DEF CockpitInv
      <3> QED BY <1>2, <1>3, <1>6, <2>1, <3>1 DEF CockpitInv, WantedInv
    <2> QED BY <1>1, <1>6, <2>2, <2>4, <2>5 DEF CockpitInv, TouchedInv
  <1> QED BY <1>4, <1>5, <1>6

\* What sync_up writes.
LEMMA Writing ==
  ASSUME CockpitInv, sync_up
  PROVE  LET image == [buf[cur] EXCEPT !["5600"] = 1]
         IN  /\ \A c \in Presses : image[c] = 0
             /\ \A i \in Outputs : image[Written[i].at] = Shown(front, Written[i].of)
             /\ buf'[cur] = image
             /\ buf' # NoBuffer
  <1>1. step = "sync_up" /\ buf # NoBuffer
    BY DEF sync_up, CockpitInv, Mapping
  <1>2. buf[cur] \in Image /\ buf \in [0..1 -> Image] /\ cur \in 0..1
    BY <1>1 DEF CockpitInv, CockpitTypeInv, CockpitTypeOK
  <1> DEFINE image == [buf[cur] EXCEPT !["5600"] = 1]
  <1>3. \A c \in Cell \ {"5600"} : image[c] = buf[cur][c]
    BY <1>2 DEF Image
  <1>4. image \in Image /\ buf' = [buf EXCEPT ![cur] = image]
    BY <1>2, Edited DEF sync_up
  <1>5. \A c \in Presses : image[c] = 0
    BY <1>1, <1>3, Cells DEF CockpitInv, WantedInv
  <1>6. \A i \in Outputs : image[Written[i].at] = Shown(front, Written[i].of)
    <2>1. \A i \in Outputs : Written[i].at \in Cell \ {"5600"}
      BY Cells DEF OutputCells
    <2> QED BY <1>1, <1>3, <2>1 DEF CockpitInv, ShownInv
  <1> HIDE DEF image
  <1>7. buf'[cur] = image /\ buf' # NoBuffer
    BY <1>2, <1>4, Images
  <1> QED BY <1>5, <1>6, <1>7 DEF image

LEMMA SyncUpCockpit ==
  ASSUME CockpitInv, sync_up
  PROVE  CockpitInv'
  <1>1. CockpitTypeInv'
    BY SyncUpType DEF CockpitInv
  <1>2. wanted = {} /\ UNCHANGED <<cur, front, wanted>>
    BY DEF sync_up, CockpitInv, WantedInv
  <1> DEFINE image == [buf[cur] EXCEPT !["5600"] = 1]
  <1>3. /\ \A c \in Presses : image[c] = 0
        /\ buf'[cur] = image /\ buf' # NoBuffer
    BY Writing
  <1>4. Fail \/ (mem' = image /\ touched' = {} /\ step' = "idle" /\ clean' = TRUE)
    BY DEF sync_up
  <1> HIDE DEF image
  <1> QED
    BY <1>1, <1>2, <1>3, <1>4
    DEF Fail, CockpitInv, Mapping, WantedInv, TouchedInv, ShownInv

LEMMA PanelsCockpit ==
  ASSUME CockpitInv, Panels
  PROVE  CockpitInv'
  <1>1. CockpitTypeInv' /\ mem \in Image /\ wanted \subseteq Presses
    BY PanelsType DEF CockpitInv, CockpitTypeInv, CockpitTypeOK
  <1>2. ASSUME NEW c \in Presses, PanelPress(c)
        PROVE  CockpitInv'
    <2>1. UNCHANGED <<buf, cur, front, step, clean>> /\ touched' = touched \cup {c}
      BY <1>2 DEF PanelPress
    <2>2. mem'[c] = 1 /\ \A d \in Cell \ {c} : mem'[d] = mem[d]
      BY <1>1, <1>2, Cells DEF PanelPress, Image
    <2>3. wanted' \subseteq wanted \cup {c} /\ (step \in Mapping => wanted' = wanted)
      BY <1>2 DEF PanelPress, Mapping
    <2>4. WantedInv'
      BY <1>1, <2>1, <2>2, <2>3, Cells DEF CockpitInv, WantedInv, Mapping
    <2>5. TouchedInv'
      BY <2>1, <2>2, Cells DEF CockpitInv, TouchedInv, Polled, is_modified
    <2> QED BY <1>1, <2>1, <2>4, <2>5 DEF CockpitInv, ShownInv
  <1>3. ASSUME NEW i \in {j \in Fitted : ~IsPress(j)}, NEW v \in Settings(OfEvent(i)),
               PanelTurn(CellOf(i), v)
        PROVE  CockpitInv'
    <2> DEFINE c == CellOf(i)
    <2>1. /\ UNCHANGED <<buf, cur, front, step, wanted, clean>>
          /\ touched' = touched \cup {c}
      BY <1>3 DEF PanelTurn
    <2>2. c \in Values
      BY <1>3, ControlCells
    <2>3. \A d \in Cell \ {c} : mem'[d] = mem[d]
      BY <1>1, <1>3 DEF PanelTurn, Image
    <2>4. \A d \in Presses : mem'[d] = mem[d]
      BY <2>2, <2>3, Cells
    <2> HIDE DEF c
    <2>5. WantedInv'
      BY <1>1, <2>1, <2>4 DEF CockpitInv, WantedInv
    <2>6. TouchedInv'
      BY <2>1, <2>3, <2>4, Cells DEF CockpitInv, TouchedInv, Polled, is_modified
    <2> QED BY <1>1, <2>1, <2>5, <2>6 DEF CockpitInv, ShownInv
  <1> QED BY <1>2, <1>3 DEF Panels

LEMMA OtherCockpit ==
  ASSUME CockpitInv, Pilot \/ Owning \/ UNCHANGED cockpitVars
  PROVE  CockpitInv'
  <1>1. CASE Pilot
    <2>1. CockpitTypeInv' /\ step = "idle"
      BY <1>1, PilotType DEF CockpitInv, Pilot, PilotMoves
    <2>2. UNCHANGED <<mem, buf, cur, step, wanted, touched, clean>>
      BY <1>1 DEF Pilot, PilotMoves
    <2> QED
      BY <2>1, <2>2 DEF CockpitInv, WantedInv, TouchedInv, ShownInv, Mapping
  <1>2. CASE Owning
    <2>1. CockpitTypeInv'
      BY <1>2, OwningType DEF CockpitInv
    <2> QED
      BY <1>2, <2>1
      DEF Owning, drop_images, CockpitInv, WantedInv, TouchedInv, ShownInv, Mapping
  <1>3. CASE UNCHANGED cockpitVars
    BY <1>3
    DEF cockpitVars, CockpitInv, CockpitTypeInv, CockpitTypeOK, WantedInv, TouchedInv,
        ShownInv, Polled, is_modified
  <1> QED BY <1>1, <1>2, <1>3

LEMMA InitCockpit == Init => CockpitInv
  <1> SUFFICES ASSUME Init
               PROVE  CockpitInv
    OBVIOUS
  <1>1. CockpitTypeInv
    <2>1. front = [v \in Used |-> 0]
      BY DEF Init, CockpitInit
    <2>2. front \in [Used -> 0..3] /\ \A v \in Used \cap Inverted : front[v] \in 0..1
      BY <2>1
    <2>3. /\ mem = Blank /\ buf = NoBuffer /\ cur = 0 /\ step = "idle"
          /\ wanted = {} /\ touched = {} /\ clean = TRUE
      BY DEF Init, CockpitInit
    <2>4. Blank \in Image
      BY Images
    <2> QED BY <2>2, <2>3, <2>4 DEF CockpitTypeInv, CockpitTypeOK
  <1> QED
    BY <1>1, Cells
    DEF Init, CockpitInit, CockpitInv, WantedInv, TouchedInv, ShownInv, Mapping, Blank

LEMMA NextCockpit == CockpitInv /\ [Next]_vars => CockpitInv'
  BY CockpitSteps, SyncDownCockpit, MapDownCockpit, MapUpCockpit, SyncUpCockpit,
     PanelsCockpit, OtherCockpit DEF map

-----------------------------------------------------------------------------
(* What the plugin keeps of its own.                                        *)

PluginTypeOK ==
  /\ receivers \subseteq Ids
  /\ events \subseteq {"1sec", "FlightLoaded", "AircraftLoaded"}
  /\ queue \in Seq(Contents)
  /\ Len(queue) <= MaxQueue
  /\ asked \in BOOLEAN
  /\ loaded \in Title
  /\ loads \in 0..MaxLoads
  /\ cockpit \in Title \cup {NoCockpit}
  /\ refused \in BOOLEAN
  /\ missed \in BOOLEAN

LEMMA InitPluginType == Init => PluginTypeOK
  <1> SUFFICES ASSUME Init
               PROVE  PluginTypeOK
    OBVIOUS
  <1>1. PluginInv
    BY InitPlugin
  <1>2. Len(queue) <= MaxQueue
    <2>1. queue = << >> \/ queue = <<Message("OPEN", "")>>
      BY DEF Init
    <2>2. CASE queue = << >>
      BY <2>2, BoundsAssumption
    <2>3. CASE queue = <<Message("OPEN", "")>>
      <3>1. Len(queue) = 1
        BY <2>3
      <3> QED BY <3>1, BoundsAssumption
    <2> QED BY <2>1, <2>2, <2>3
  <1>3. /\ receivers = {"OPEN", "EVENT", "SIMOBJECT_DATA"}
        /\ events = {"1sec", "FlightLoaded"}
        /\ asked = FALSE /\ loads = 0 /\ cockpit = NoCockpit /\ refused = FALSE
        /\ missed \in BOOLEAN
    BY DEF Init
  <1>4. loads \in 0..MaxLoads
    BY <1>3, BoundsAssumption
  <1>5. queue \in Seq(Contents) /\ loaded \in Title
    BY <1>1 DEF PluginInv, TypeInv
  <1> QED
    BY <1>2, <1>3, <1>4, <1>5 DEF PluginTypeOK, Ids

LEMMA PostType ==
  ASSUME PluginTypeOK, NEW msg \in Contents, Post(msg)
  PROVE  queue' \in Seq(Contents) /\ Len(queue') <= MaxQueue
  BY BoundsAssumption DEF PluginTypeOK, Post

LEMMA ReceiveType ==
  ASSUME PluginTypeOK, NEW id, Dispatch(id)
  PROVE  /\ queue' \in Seq(Contents) /\ Len(queue') <= MaxQueue
         /\ Head1 \in Contents
  BY BoundsAssumption DEF PluginTypeOK, Dispatch, Head1

LEMMA NextPluginType ==
  ASSUME PluginTypeOK, [Next]_vars
  PROVE  PluginTypeOK'
  <1>1. CASE Tick
    <2>1. Message("EVENT", "1sec") \in Contents
      BY DEF Message, Contents, Ids
    <2> QED BY <1>1, <2>1, PostType DEF Tick, Raise, PluginTypeOK
  <1>2. ASSUME NEW t \in Title, NEW e \in {"AircraftLoaded", "FlightLoaded"}, Load(t, e)
        PROVE  PluginTypeOK'
    <2>1. Message("EVENT_FILENAME", e) \in Contents
      BY DEF Message, Contents, Ids
    <2>2. queue' \in Seq(Contents) /\ Len(queue') <= MaxQueue
      BY <1>2, <2>1, PostType DEF Load, Raise, PluginTypeOK
    <2> QED BY <1>2, <2>2, BoundsAssumption DEF Load, PluginTypeOK
  <1>3. CASE AnswerTitle
    <2>1. Message("SIMOBJECT_DATA", loaded) \in Contents
      BY DEF Message, Contents, Ids, PluginTypeOK
    <2> QED BY <1>3, <2>1, PostType DEF AnswerTitle, PluginTypeOK
  <1>4. CASE on_simconnect_open
    BY <1>4, ReceiveType
    DEF on_simconnect_open, on_message, request_aircraft_title, register_callback,
        subscribe_to_system_event, PluginTypeOK, Ids
  <1>5. CASE on_simconnect_event
    BY <1>5, ReceiveType DEF on_simconnect_event, on_message, PluginTypeOK
  <1>6. CASE on_simconnect_event_filename
    BY <1>6, ReceiveType
    DEF on_simconnect_event_filename, on_message, request_aircraft_title, PluginTypeOK
  <1>7. CASE on_simconnect_simobject_data
    <2>1. Dispatch("SIMOBJECT_DATA")
      BY <1>7 DEF on_simconnect_simobject_data, on_message
    <2>2. queue' \in Seq(Contents) /\ Len(queue') <= MaxQueue
      BY <2>1, ReceiveType
    <2>3. cockpit' \in Title \cup {NoCockpit} /\ refused' \in BOOLEAN
      BY <1>7, WilcoAssumption
      DEF on_simconnect_simobject_data, resolve_aircraft_type_from_title, new_cockpit
    <2> QED BY <1>7, <2>2, <2>3 DEF on_simconnect_simobject_data, PluginTypeOK
  <1>8. CASE UNCHANGED pluginVars
    BY <1>8 DEF pluginVars, PluginTypeOK
  <1>9. CASE NotDelivered
    BY <1>9, ReceiveType DEF NotDelivered, PluginTypeOK
  <1> QED BY <1>1, <1>2, <1>3, <1>4, <1>5, <1>6, <1>7, <1>8, <1>9 DEF Next, vars

\* Every variable of the cockpit and of the plugin keeps its type: no press
\* takes a variable of the aircraft out of what the panels can show
\* (wilco-fcu.cpp:71-126, wilco-efis.cpp:34-124).
THEOREM TypeCorrect == Spec => []TypeOK
  <1>1. Init => CockpitInv /\ PluginTypeOK
    BY InitCockpit, InitPluginType
  <1>2. CockpitInv /\ PluginTypeOK /\ [Next]_vars => (CockpitInv /\ PluginTypeOK)'
    BY NextCockpit, NextPluginType
  <1>3. CockpitInv /\ PluginTypeOK => TypeOK
    BY DEF CockpitInv, CockpitTypeInv, PluginTypeOK, Contents, TypeOK
  <1> QED BY <1>1, <1>2, <1>3, PTL DEF Spec

\* A button pressed while nothing is mapped stays pressed in FSUIPC until its
\* event is applied, whatever fails on the way and however often, for any
\* panel (cockpit.cpp:190-209, cockpit-fsuipc.cpp:38-52, 293-313).
THEOREM PressesKeptAlways == Spec => []PressesKept
  <1>1. CockpitInv => PressesKept
    BY DEF CockpitInv, WantedInv, PressesKept
  <1> QED BY InitCockpit, NextCockpit, <1>1, PTL DEF Spec

\* Unless a map has failed since the last complete one, every event is of a
\* control a panel has used, for any panel: nothing the map itself has shown
\* comes back as a command (double.h:98-124, cockpit-fsuipc.cpp:54-69).
THEOREM EventsOnlyFromPanelAlways == Spec => []EventsOnlyFromPanel
  <1>1. CockpitInv => EventsOnlyFromPanel
    BY DEF CockpitInv, TouchedInv, EventsOnlyFromPanel
  <1> QED BY InitCockpit, NextCockpit, <1>1, PTL DEF Spec

\* A map that completes leaves the panels showing the aircraft and no button
\* pressed, for any panel (cockpit.cpp:129-209, cockpit-fsuipc.cpp:281-291).
THEOREM PanelsShowAircraftAlways == Spec => PanelsShowAircraft
  <1> DEFINE Shows ==
        step = "sync_up" /\ step' = "idle" /\ clean' =>
          /\ \A i \in Outputs : mem'[Written[i].at] = Shown(front, Written[i].of)
          /\ \A c \in Presses : mem'[c] = 0
  <1>1. CockpitInv /\ [Next]_vars => [Shows]_cockpitVars
    <2> SUFFICES ASSUME CockpitInv, [Next]_vars, step = "sync_up", step' = "idle", clean'
                 PROVE  Shows
      OBVIOUS
    <2>1. sync_up
      BY CockpitSteps
      DEF map, sync_down, MapDown, MapUp, Panels, PanelPress, PanelTurn, Pilot,
          PilotMoves, Owning, cockpitVars
    <2>2. mem' = [buf[cur] EXCEPT !["5600"] = 1]
      BY <2>1 DEF sync_up, Fail
    <2> QED BY <2>1, <2>2, Writing
  <1>2. [][Shows]_cockpitVars => PanelsShowAircraft
    BY DEF PanelsShowAircraft
  <1> QED BY InitCockpit, NextCockpit, <1>1, <1>2, PTL DEF Spec
====
