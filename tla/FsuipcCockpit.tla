---------------------------- MODULE FsuipcCockpit ----------------------------
(***************************************************************************)
(* The Wilco cockpit kept in step with the FSUIPC cells that panels write  *)
(* and read: cockpit_back::map() over fsuipc_cockpit_back                  *)
(* (liboac/src/cockpit.cpp, liboac/src/cockpit-fsuipc.cpp).                *)
(*                                                                         *)
(* Once a second the cells are read into one of two images (sync_down),    *)
(* the presses found there and the values that differ from the other image *)
(* become events of the aircraft (MapDown), the aircraft is written into   *)
(* the image (MapUp) and the image into the cells (sync_up).  The panels   *)
(* are Lua threads of FSUIPC: they write cells between any two of these    *)
(* steps.  Every step that touches FSUIPC may throw, and the map of this   *)
(* second ends there.                                                      *)
(***************************************************************************)
EXTENDS CockpitPanel, FiniteSetsExt

CONSTANTS
  Panel      \* the controls (cells) the panels have

VARIABLES
  mem,       \* the cells 0x5600 - 0x57FF in FSUIPC
  buf,       \* _buffer: the two images, or NoBuffer
  cur,       \* _current_buffer
  front,     \* the aircraft's variables
  step,      \* where map() is
  wanted,    \* presses made while nothing was mapped, not yet applied
  touched,   \* controls the panels used since they were last looked at
  clean      \* no map has failed since the last one that completed

cockpitVars ==
  <<mem, buf, cur, front, step, wanted, touched, clean>>

NoBuffer == <<>>

\* What is polled, in its order: the flight control unit, then the EFIS
\* control panel.
Controls == FcuPresses \o FcuValues \o EfisPresses \o EfisValues
FcuEnd == Len(FcuPresses \o FcuValues)
Fitted == {i \in DOMAIN Controls : Controls[i].at \in Panel}
IsPress(i) == "does" \in DOMAIN Controls[i]
CellOf(i) == Controls[i].at
Presses == {CellOf(i) : i \in {j \in Fitted : IsPress(j)}}
Values  == {CellOf(i) : i \in {j \in Fitted : ~IsPress(j)}}

EffectOf(i) ==
  LET event == Controls[i].does
  IN  CASE event \in DOMAIN FcuButton -> FcuButton[event]
        [] event \in DOMAIN FcuKnob   -> FcuKnob[event]
        [] OTHER                      -> EfisEffect[event]

\* The aircraft's variable an event of a control is about.
OfEvent(i) == IF IsPress(i) THEN EffectOf(i).of ELSE Controls[i].of

\* The aircraft's variables the panels deal with, and what shows them, in the
\* order it is written.
Used == {OfEvent(i) : i \in Fitted}
Written == FcuOutputs \o EfisOutputs
Outputs == {i \in DOMAIN Written : Written[i].of \in Used}
OutputCells == {Written[i].at : i \in Outputs}

\* "5600" tells the panels that somebody maps.
Cell == Presses \cup Values \cup OutputCells \cup {"5600"}
Image == [Cell -> 0..3]
Blank == [c \in Cell |-> 0]

CockpitInit ==
  /\ mem = Blank
  /\ buf = NoBuffer
  /\ cur = 0
  /\ front = [v \in Used |-> 0]
  /\ step = "idle"
  /\ wanted = {}
  /\ touched = {}
  /\ clean = TRUE

-----------------------------------------------------------------------------
\* sync_down.

\* Mutant: the image in use is overwritten, without a swap.
ReadImagesNoSwap(b, c, m) ==
  IF b = NoBuffer THEN [i \in 0..1 |-> m] ELSE [b EXCEPT ![c] = m]

\* The images after they are read: the first time both, else the other one.
ReadImages(b, c, m) ==
  IF b = NoBuffer THEN [i \in 0..1 |-> m] ELSE [b EXCEPT ![1 - c] = m]

\* What is left when reading throws: new images are blank, and old ones are
\* swapped, nothing read.
UnreadImages(b) == IF b = NoBuffer THEN [i \in 0..1 |-> Blank] ELSE b

\* Mutant: map() goes on to sync_up after a failure, if it has an image.
FailGoesOn ==
  /\ step' = IF buf' = NoBuffer THEN "idle" ELSE "sync_up"
  /\ clean' = FALSE

Fail == step' = "idle" /\ clean' = FALSE

sync_down ==
  /\ step = "sync_down"
  /\ UNCHANGED <<mem, front, wanted>>
  /\ \/ /\ buf' = ReadImages(buf, cur, mem)
        /\ cur' = 1 - cur
        /\ step' = "MapDown"
        /\ touched' = IF buf = NoBuffer THEN touched \ Values ELSE touched
        /\ UNCHANGED clean
     \/ \* FSUIPC cannot be opened, or opened again after a failure
        /\ buf = NoBuffer \/ ~clean
        /\ UNCHANGED <<buf, cur, touched>>
        /\ Fail
     \/ \* FSUIPC refuses the first read, or one after it
        /\ buf' = UnreadImages(buf)
        /\ cur' = IF buf = NoBuffer THEN cur ELSE 1 - cur
        /\ Fail
        /\ UNCHANGED touched
     \/ \* the first image is read, the second is not
        /\ buf = NoBuffer
        /\ buf' = [UnreadImages(buf) EXCEPT ![cur] = mem]
        /\ cur' = 1 - cur
        /\ Fail
        /\ UNCHANGED touched

-----------------------------------------------------------------------------
\* MapDown: poll the flight control unit and apply its events, then the EFIS
\* control panel's.

\* The two images differ in a cell.
is_modified(cell) == buf[0][cell] # buf[1][cell]

\* The controls with an event.
Polled ==
  {i \in Fitted :
     IF IsPress(i) THEN buf[cur][CellOf(i)] # 0 ELSE is_modified(CellOf(i))}

\* The image with the presses put back to 0, of the panels that are polled by
\* the time the event of control n is applied.
Cleared(n) ==
  [c \in Cell |->
     IF \E i \in Fitted : IsPress(i) /\ CellOf(i) = c /\ (i <= FcuEnd \/ n > FcuEnd)
     THEN 0 ELSE buf[cur][c]]

\* A variable found at v after an event of control i.
After(i, v) == IF IsPress(i) THEN Pressed(EffectOf(i), v) ELSE buf[cur][CellOf(i)]

\* The aircraft after the events of some controls.  What depends on the value
\* it finds is the only control of its variable: of several the last one tells.
Apply(controls) ==
  [v \in Used |->
     LET of == {i \in controls : OfEvent(i) = v}
     IN  IF of = {} THEN front[v] ELSE After(Max(of), front[v])]

\* The call for the event of control n throws.
Interrupted(n) == n \in Polled /\ OfEvent(n) \in SetThroughFsuipc

Applying(controls) ==
  /\ front' = Apply(controls)
  /\ wanted' = wanted \ {CellOf(i) : i \in controls}
  /\ touched' = touched \ {CellOf(i) : i \in controls}

MapDown ==
  /\ step = "MapDown"
  /\ \E n \in 1..Len(Controls) + 1 :
       /\ buf' = [buf EXCEPT ![cur] = Cleared(n)]
       /\ Applying({i \in Polled : i < n})
       /\ \/ n = Len(Controls) + 1 /\ step' = "MapUp" /\ UNCHANGED clean
          \/ Interrupted(n) /\ Fail
  /\ UNCHANGED <<mem, cur>>

-----------------------------------------------------------------------------
\* MapUp: the outputs before n are written into the image.

\* Mutant: the last output is left out.
ShowButOne(image, n) ==
  [c \in Cell |->
     IF \E i \in Outputs : i < n /\ i # Max(Outputs) /\ Written[i].at = c
     THEN Shown(front, Written[CHOOSE i \in Outputs : Written[i].at = c].of)
     ELSE image[c]]

Show(image, n) ==
  [c \in Cell |->
     IF \E i \in Outputs : i < n /\ Written[i].at = c
     THEN Shown(front, Written[CHOOSE i \in Outputs : Written[i].at = c].of)
     ELSE image[c]]

MayThrow(of) == of \in ReadThroughFsuipc \/ Unreadable(front, of)

MapUp ==
  /\ step = "MapUp"
  /\ \E n \in Outputs \cup {Len(Written) + 1} :
       /\ buf' = [buf EXCEPT ![cur] = Show(@, n)]
       /\ \A i \in Outputs : i < n => ~Unreadable(front, Written[i].of)
       /\ \/ n \notin Outputs /\ step' = "sync_up" /\ UNCHANGED clean
          \/ n \in Outputs /\ MayThrow(Written[n].of) /\ Fail
  /\ UNCHANGED <<mem, cur, front, wanted, touched>>

-----------------------------------------------------------------------------
\* sync_up.

\* sync_up writes every cell, those the panels wrote meanwhile included.
sync_up ==
  /\ step = "sync_up"
  /\ LET image == [buf[cur] EXCEPT !["5600"] = 1]
     IN  /\ buf' = [buf EXCEPT ![cur] = image]
         /\ \/ /\ mem' = image
               /\ touched' = {}
               /\ step' = "idle"
               /\ clean' = TRUE
            \/ Fail /\ UNCHANGED <<mem, touched>>
  /\ UNCHANGED <<cur, front, wanted>>

map == sync_down \/ MapDown \/ MapUp \/ sync_up

-----------------------------------------------------------------------------
\* The panels and the pilot.

\* A panel sets the cell of a button, or turns a value.  A press counts as
\* wanted when the cells are not about to be overwritten.
PanelPress(c) ==
  /\ mem' = [mem EXCEPT ![c] = 1]
  /\ wanted' = IF step \in {"idle", "sync_down"} THEN wanted \cup {c} ELSE wanted
  /\ touched' = touched \cup {c}
  /\ UNCHANGED <<buf, cur, front, step, clean>>

PanelTurn(c, v) ==
  /\ mem' = [mem EXCEPT ![c] = v]
  /\ touched' = touched \cup {c}
  /\ UNCHANGED <<buf, cur, front, step, wanted, clean>>

\* The pilot moves a control on the screen: the aircraft and the map share a
\* thread.
PilotMoves(f) ==
  /\ step = "idle"
  /\ front' = f
  /\ UNCHANGED <<mem, buf, cur, step, wanted, touched, clean>>

Panels ==
  \/ \E c \in Presses : PanelPress(c)
  \/ \E i \in {j \in Fitted : ~IsPress(j)} :
       \E v \in Settings(OfEvent(i)) : PanelTurn(CellOf(i), v)

Pilot == \E v \in Used, s \in 0..1 : PilotMoves([front EXCEPT ![v] = s])

-----------------------------------------------------------------------------
(* Properties of the map.                                                  *)

CockpitTypeOK ==
  /\ mem \in Image
  /\ buf = NoBuffer \/ buf \in [0..1 -> Image]
  /\ cur \in 0..1
  /\ front \in [Used -> 0..3]
  /\ step \in {"idle", "sync_down", "MapDown", "MapUp", "sync_up"}
  /\ wanted \subseteq Presses
  /\ touched \subseteq Presses \cup Values
  /\ clean \in BOOLEAN

\* A button pressed while nothing is being mapped stays pressed in FSUIPC
\* until its event is applied to the aircraft, whatever fails on the way and
\* however often.
PressesKept == \A c \in wanted : mem[c] = 1

\* Unless a map has failed since the last complete one, the aircraft is told
\* only of controls a panel used since they were last looked at: a value the
\* map itself showed never comes back as one a panel set.
EventsOnlyFromPanel ==
  step = "MapDown" /\ clean => {CellOf(i) : i \in Polled} \subseteq touched

\* A map that completes leaves the panels showing the aircraft as its own
\* events have left it, and no button pressed.
PanelsShowAircraft ==
  [][step = "sync_up" /\ step' = "idle" /\ clean' =>
       /\ \A i \in Outputs : mem'[Written[i].at] = Shown(front, Written[i].of)
       /\ \A c \in Presses : mem'[c] = 0]_cockpitVars
=============================================================================
