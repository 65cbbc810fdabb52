---------------------------- MODULE WilcoExporter ----------------------------
(***************************************************************************)
(* The Wilco exporter (wilco-exporter/src/plugin.cpp): a module of the     *)
(* simulator that owns a cockpit while a Wilco Airbus is flown, and maps   *)
(* it every second.  It lives on SimConnect's messages                     *)
(* (liboac/src/simconn.cpp), which arrive in order on one thread: each     *)
(* goes to the receiver registered for its kind, and is dropped where      *)
(* there is none.  The title of the aircraft is asked for, and answered    *)
(* some time later with the aircraft of that moment.                       *)
(***************************************************************************)
EXTENDS FsuipcCockpit

CONSTANTS
  Title,     \* the aircraft of the simulator
  Wilco,     \* those whose title is a Wilco Airbus's
  NoCockpit,
  MaxQueue,  \* bound: messages on the way
  MaxLoads   \* bound: aircraft and flights loaded

ASSUME WilcoAssumption == Wilco \subseteq Title /\ NoCockpit \notin Title
ASSUME BoundsAssumption == MaxQueue \in Nat \ {0} /\ MaxLoads \in Nat

VARIABLES
  receivers, \* _msg_receivers: the kinds of messages somebody receives
  events,    \* the system events subscribed to
  queue,     \* messages on the way
  asked,     \* a request for the title is not answered yet
  loaded,    \* the aircraft in the simulator
  loads,     \* aircraft and flights loaded so far
  cockpit,   \* _wilco (and _fsuipc): the title of the cockpit, or NoCockpit
  refused,   \* the last cockpit could not be made
  missed     \* SimConnect's first message or a call to it failed to get
             \* through, and the plugin has not asked since

pluginVars ==
  <<receivers, events, queue, asked, loaded, loads, cockpit, refused, missed>>
vars == <<cockpitVars, pluginVars>>

\* The kinds of messages that do more than write a line to the log.
Ids == {"OPEN", "EVENT", "SIMOBJECT_DATA", "EVENT_FILENAME"}
Message(id, what) == [id |-> id, what |-> what]

-----------------------------------------------------------------------------
\* The plugin's constructor: FSX has opened the connection and says so in
\* its first message - to nobody, when it arrives while the connection is
\* being opened, before there are receivers.
Init ==
  /\ CockpitInit
  /\ receivers = {"OPEN", "EVENT", "SIMOBJECT_DATA"}
  /\ events = {"1sec", "FlightLoaded"}
  /\ missed \in BOOLEAN
  /\ queue = IF missed THEN << >> ELSE <<Message("OPEN", "")>>
  /\ asked = FALSE
  /\ loaded \in Title
  /\ loads = 0
  /\ cockpit = NoCockpit
  /\ refused = FALSE

-----------------------------------------------------------------------------
\* The simulator.

Post(msg) == Len(queue) < MaxQueue /\ queue' = Append(queue, msg)

\* A system event reaches those who subscribed to it.
Raise(event, msg) ==
  IF event \in events THEN Post(msg) ELSE UNCHANGED queue

Tick ==
  /\ ~\E i \in DOMAIN queue : queue[i].id = "EVENT"
  /\ Raise("1sec", Message("EVENT", "1sec"))
  /\ UNCHANGED <<receivers, events, asked, loaded, loads, cockpit, refused,
                 missed, cockpitVars>>

\* Another aircraft is loaded, or a flight with an aircraft.
Load(title, event) ==
  /\ loads < MaxLoads
  /\ loads' = loads + 1
  /\ loaded' = title
  /\ Raise(event, Message("EVENT_FILENAME", event))
  /\ UNCHANGED <<receivers, events, asked, cockpit, refused, missed, cockpitVars>>

AnswerTitle ==
  /\ asked
  /\ asked' = FALSE
  /\ Post(Message("SIMOBJECT_DATA", loaded))
  /\ UNCHANGED <<receivers, events, loaded, loads, cockpit, refused, missed,
                 cockpitVars>>

-----------------------------------------------------------------------------
\* The plugin's receivers.  The thread that dispatches messages maps too.

Head1 == Head(queue)

Dispatch(id) ==
  /\ step = "idle"
  /\ queue # <<>>
  /\ Head1.id = id
  /\ queue' = Tail(queue)

on_message(id) == Dispatch(id) /\ id \in receivers

\* A message nobody receives is dropped.
NotDelivered ==
  /\ \E id \in Ids \ receivers : Dispatch(id)
  /\ UNCHANGED <<receivers, events, asked, loaded, loads, cockpit, refused, missed,
                 cockpitVars>>

register_callback(id) == receivers' = receivers \cup {id}
subscribe_to_system_event(event) == events' = events \cup {event}

\* The same request identifier each time: one answer for all that wait.
request_aircraft_title == asked' = TRUE

\* Mutant: the aircraft at the start is asked for, later ones are not heard of.
open_without_events ==
  /\ on_message("OPEN")
  /\ request_aircraft_title
  /\ register_callback("EVENT_FILENAME")
  /\ UNCHANGED <<events, loaded, loads, cockpit, refused, missed, cockpitVars>>

on_simconnect_open ==
  /\ on_message("OPEN")
  /\ \/ /\ request_aircraft_title
        /\ register_callback("EVENT_FILENAME")
        /\ subscribe_to_system_event("AircraftLoaded")
        /\ UNCHANGED missed
     \/ \* SimConnect refuses the subscription
        /\ request_aircraft_title
        /\ register_callback("EVENT_FILENAME")
        /\ missed' = TRUE
        /\ UNCHANGED events
     \/ \* SimConnect refuses the request
        /\ missed' = TRUE
        /\ UNCHANGED <<asked, receivers, events>>
  /\ UNCHANGED <<loaded, loads, cockpit, refused, cockpitVars>>

\* _fsuipc goes with its images; the next one reads both afresh.
drop_images == buf' = NoBuffer /\ cur' = 0

on_simconnect_event ==
  /\ on_message("EVENT")
  /\ step' = IF cockpit # NoCockpit THEN "sync_down" ELSE step
  /\ UNCHANGED <<mem, buf, cur, front, wanted, touched, clean,
                 receivers, events, asked, loaded, loads, cockpit, refused, missed>>

on_simconnect_event_filename ==
  /\ on_message("EVENT_FILENAME")
  /\ \/ request_aircraft_title /\ missed' = (missed /\ "AircraftLoaded" \notin events)
     \/ \* SimConnect refuses the request
        missed' = TRUE /\ UNCHANGED asked
  /\ IF Head1.what = "FlightLoaded"
     THEN drop_images /\ cockpit' = NoCockpit
     ELSE UNCHANGED <<buf, cur, cockpit>>
  /\ UNCHANGED <<mem, front, step, wanted, touched, clean,
                 receivers, events, loaded, loads, refused>>

\* A title resolves to an aircraft whose DLL may not load, or whose panels may
\* not reach FSUIPC: then there is no cockpit.
resolve_aircraft_type_from_title(title) == title \in Wilco
new_cockpit(title) ==
  \/ cockpit' = title /\ refused' = FALSE
  \/ cockpit' = NoCockpit /\ refused' = TRUE

\* A cockpit of the new aircraft replaces the old one, or none does.
on_simconnect_simobject_data ==
  /\ on_message("SIMOBJECT_DATA")
  /\ drop_images
  /\ IF resolve_aircraft_type_from_title(Head1.what)
     THEN new_cockpit(Head1.what)
     ELSE cockpit' = NoCockpit /\ refused' = FALSE
  /\ UNCHANGED <<mem, front, step, wanted, touched, clean,
                 receivers, events, asked, loaded, loads, missed>>

Next ==
  \/ Tick
  \/ \E t \in Title, e \in {"AircraftLoaded", "FlightLoaded"} : Load(t, e)
  \/ AnswerTitle
  \/ NotDelivered
  \/ on_simconnect_open
  \/ on_simconnect_event
  \/ on_simconnect_event_filename
  \/ on_simconnect_simobject_data
  \/ map /\ UNCHANGED pluginVars
  \/ Panels /\ UNCHANGED pluginVars
  \/ Pilot /\ UNCHANGED pluginVars

Spec == Init /\ [][Next]_vars

-----------------------------------------------------------------------------
(* Properties.                                                             *)

TypeOK ==
  /\ CockpitTypeOK
  /\ receivers \subseteq Ids
  /\ events \subseteq {"1sec", "FlightLoaded", "AircraftLoaded"}
  /\ queue \in Seq([id : Ids, what : Title \cup {"", "1sec", "FlightLoaded", "AircraftLoaded"}])
  /\ Len(queue) <= MaxQueue
  /\ asked \in BOOLEAN
  /\ loaded \in Title
  /\ loads \in 0..MaxLoads
  /\ cockpit \in Title \cup {NoCockpit}
  /\ refused \in BOOLEAN
  /\ missed \in BOOLEAN

\* Something on the way may still change the cockpit.
Pending ==
  \/ asked
  \/ \E i \in DOMAIN queue :
       queue[i].id \in {"OPEN", "EVENT_FILENAME", "SIMOBJECT_DATA"}

\* Once every message has been handled, the cockpit is that of the aircraft
\* in the simulator, if it is a Wilco's and its cockpit could be made, and
\* there is none otherwise: whatever was loaded meanwhile, before the
\* connection opened or while a title was on its way.  It is so again after
\* SimConnect has refused to tell a title, once a later one was asked for;
\* never, where the plugin missed the first message or the subscription to
\* aircraft that load.
CockpitMatchesAircraft ==
  ~Pending /\ ~missed =>
    cockpit = IF loaded \in Wilco /\ ~refused THEN loaded ELSE NoCockpit
=============================================================================
