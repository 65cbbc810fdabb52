------------------------------ MODULE Pedestal ------------------------------
(***************************************************************************)
(* The pedestal device: the sketch of arduino/pedestal over the libraries  *)
(* that scan its inputs (oacexp, oacio, oacbtn, oackb) and speak OACSP on  *)
(* its serial port, together with the buttons, knobs, switches and keys    *)
(* that a pilot moves.                                                     *)
(*                                                                         *)
(* A button of the ECAM, a knob and a master switch go by the LVAR they    *)
(* write.  A line of the serial port is a record; the device sends whole   *)
(* lines, in order.  millis() - _timeMark is the age of a switch, in ticks *)
(* and up to the first that is over Debounce, all that check() asks of it. *)
(***************************************************************************)
EXTENDS Integers, Sequences, SequencesExt, FiniteSetsExt

CONSTANTS
  Button,      \* the buttons of the ECAM, by LVAR
  Knob,        \* the brightness controls, by LVAR
  Level,       \* what analogRead gives for a knob, in 0..1023
  Master,      \* the pins of the engine master switches
  MasterLVar,  \* the LVAR of each
  NumPos,      \* the positions of the mode selector
  Debounce,    \* ticks for which a switch that changed is not looked at
  Key,         \* the codes of the MCDU's keys, 16 to a keypad controller
  KeyLVar,     \* the LVAR of each key that has one
  RxLines      \* the lines that fit in the input of the device's port

ASSUME PedestalAssumption ==
  /\ Level \subseteq 0..1023 /\ 0 \in Level
  /\ Debounce \in Nat /\ NumPos \in Nat /\ Key \subseteq 0..127
  /\ \A m \in Master : m \notin 24..(23 + NumPos)

VARIABLES
  pressed,   \* the ECAM's buttons that are held down
  knob,      \* where each knob is
  closed,    \* the master switches that are on
  selector,  \* where the mode selector is, -1 between two positions
  keys,      \* the keys that are held down
  polled,    \* SerialProtocol::polledEvent
  scanned,   \* the current input of the expansion cards
  lights,    \* the lights of the ECAM that are on: CLR_LGT and pages
  reading,   \* AnalogInput::_state of each knob
  switch,    \* [state, age] of the Button behind each pin
  pos,       \* RotarySwitch::_pos
  lastKey,   \* Keypad::lastKey
  com,       \* the port: closed, begin (its first line is awaited) or open
  up, down,  \* the lines on their way to the gateway and to the device
  told,      \* history: the buttons and knobs whose last change was sent
  heard,     \* history: the LVARs whose last event is whole, sent or arrived
  typing     \* history: a key pressed alone, and how far it got

panelVars == <<pressed, knob, closed, selector, keys>>
sketchVars == <<polled, scanned, lights, reading, switch, pos, lastKey>>
historyVars == <<told, heard, typing>>
pedestalVars == <<panelVars, sketchVars, com, up, down, historyVars>>

CLR_LGT == 0
Pages == (1..11) \cup {13}
Observed == {"AB_ECAM_CLR_Light", "ECAM_MODE"}
NoEvent == [lvar |-> "", value |-> 0]
NoKey == [key |-> -1, stage |-> "none"]
Detent == 24..(23 + NumPos)  \* ENG_MODE_SEL_PIN and the pins after it
OFF == 0
ON == 1

Begin == [cmd |-> "BEGIN"]
ObserveLVar(l) == [cmd |-> "OBS_LVAR", lvar |-> l]
WriteLVar(l, v) == [cmd |-> "WRITE_LVAR", lvar |-> l, value |-> v]

\* Serial.print: what is sent while nobody has the port open is lost.
Send(lines) == up' = IF com = "closed" THEN up ELSE up \o lines

\* The sketch starts: everything is as constructed, and setup() has run.
Setup == <<Begin, ObserveLVar("AB_ECAM_CLR_Light"), ObserveLVar("ECAM_MODE")>>
Boot ==
  /\ polled' = NoEvent
  /\ scanned' = {} /\ lights' = {} /\ reading' = [k \in Knob |-> 0]
  /\ switch' = [p \in Master \cup Detent |-> [state |-> -1, age |-> 0]]
  /\ pos' = -1 /\ lastKey' = -1
  /\ told' = {} /\ heard' = {} /\ typing' = NoKey

PedestalInit ==
  /\ pressed = {} /\ closed = {} /\ keys = {}
  /\ knob = [k \in Knob |-> 0] /\ selector = 0
  /\ polled = NoEvent
  /\ scanned = {} /\ lights = {} /\ reading = [k \in Knob |-> 0]
  /\ switch = [p \in Master \cup Detent |-> [state |-> -1, age |-> 0]]
  /\ pos = -1 /\ lastKey = -1
  /\ com = "begin" /\ up = Setup /\ down = <<>>
  /\ told = {} /\ heard = {} /\ typing = NoKey

-----------------------------------------------------------------------------
(* ecam.loop() *)

\* The state of a set of buttons is sent if the set is one the switch lists.
sendButtonState(buttons, state) ==
  IF Cardinality(buttons) # 1 THEN <<>>
  ELSE LET b == CHOOSE x \in buttons : TRUE
       IN  <<WriteLVar(b, state)>> \o
           IF b = "AB_ECAM_TOCFG" /\ state = 1 THEN <<WriteLVar("AB_ECAM_TOconf", 1)>> ELSE <<>>

isChanged(k) == Max({reading[k], knob[k]}) - Min({reading[k], knob[k]}) > 16
Turned == {k \in Knob : isChanged(k)}
Bright(level) == 20 - (level * 20) \div 1023

inputActivated == pressed \ scanned

\* Mutant: the lines that differ are masked with the new input here too.
MaskedWithNew == pressed \ scanned

inputDeactivated == scanned \ pressed

processInputs ==
  /\ scanned' = pressed
  /\ reading' = [k \in Knob |-> IF k \in Turned THEN knob[k] ELSE reading[k]]
  /\ told' = (told \ (inputActivated \cup inputDeactivated)) \cup Turned
             \cup UNION {s \in {inputActivated, inputDeactivated} : Cardinality(s) = 1}

InputLines ==
  sendButtonState(inputActivated, 1) \o sendButtonState(inputDeactivated, 0) \o
  SetToSeq({WriteLVar(k, Bright(knob[k])) : k \in Turned})

\* Mutant: a page takes the place of every light.
PageAlone(event) ==
  lights' = CASE event.lvar = "AB_ECAM_CLR_Light" ->
                   IF event.value # 0 THEN lights \cup {CLR_LGT} ELSE lights \ {CLR_LGT}
              [] event.lvar = "ECAM_MODE" -> {event.value} \cap Pages
              [] OTHER -> lights

processOutputs(event) ==
  lights' = CASE event.lvar = "AB_ECAM_CLR_Light" ->
                   IF event.value # 0 THEN lights \cup {CLR_LGT} ELSE lights \ {CLR_LGT}
              [] event.lvar = "ECAM_MODE" -> (lights \cap {CLR_LGT}) \cup ({event.value} \cap Pages)
              [] OTHER -> lights

-----------------------------------------------------------------------------
(* engine.loop() *)

digitalRead(p) ==
  IF p \in Master THEN (IF p \in closed THEN ON ELSE OFF)
  ELSE IF selector = p - 24 THEN ON ELSE OFF

check(p) ==
  IF digitalRead(p) # switch[p].state /\ switch[p].age > Debounce
  THEN [state |-> digitalRead(p), age |-> 0]
  ELSE switch[p]

\* A rotary switch asks its positions from the last, up to the one that is on.
checkRotary ==
  LET on == {p \in Detent : check(p).state = ON}
  IN  IF on = {} THEN -1 ELSE Max(on) - 24

engine ==
  LET checked == Master \cup {p \in Detent : p - 24 >= checkRotary}
  IN  /\ switch' = [p \in DOMAIN switch |-> IF p \in checked THEN check(p) ELSE switch[p]]
      /\ pos' = checkRotary

EngineLines ==
  SetToSeq({WriteLVar(MasterLVar[m], check(m).state) : m \in {n \in Master : check(n) # switch[n]}}) \o
  IF checkRotary \notin {-1, pos} THEN <<WriteLVar("AB_PDS_ignition", checkRotary)>> ELSE <<>>

-----------------------------------------------------------------------------
(* mcdu.loop() *)

\* The first controller that has a key gives it: the others wait.
readKey == IF keys = {} THEN -1 ELSE Min(keys)

\* A type is a key that was there and a keypad that has none now.
readKeyType == IF readKey < 0 THEN lastKey ELSE -1

mcdu ==
  /\ lastKey' = readKey
  /\ typing' = CASE typing.stage = "down" -> [typing EXCEPT !.stage = "seen"]
                 [] typing.stage = "due" ->
                      IF readKeyType = typing.key THEN NoKey ELSE [typing EXCEPT !.stage = "missed"]
                 [] OTHER -> typing

\* FIX and OVFY write nothing.
KeyLines(key) ==
  CASE key < 0 \/ key \in {25, 77} -> <<>>
    [] key \in DOMAIN KeyLVar -> <<WriteLVar(KeyLVar[key], 1)>>
    [] OTHER -> <<WriteLVar("MCDU_UNKNOWN", key)>>

-----------------------------------------------------------------------------
(* loop() *)

\* The event polled stays until the next poll; the rest of the device goes on.
After(event, rest) ==
  /\ polled' = event /\ down' = rest
  /\ processInputs /\ processOutputs(event) /\ engine /\ mcdu
  /\ Send(InputLines \o EngineLines \o KeyLines(readKeyType))
  /\ UNCHANGED <<panelVars, com>>

\* pollEvent() reads one line, or none within the timeout.
loop ==
  /\ IF down = <<>> THEN After(NoEvent, <<>>) ELSE After(Head(down), Tail(down))
  /\ UNCHANGED heard

\* The timeout comes within a line.  A start that holds no name and value leaves
\* the last event in place, one of less than the command is no event, and one
\* that holds a digit of two is another value; the rest is no event.
loop_cut ==
  /\ down # <<>> /\ Head(down) # NoEvent
  /\ LET line == Head(down)
         short == [line EXCEPT !.value = @ \div 10]
     IN  /\ \E event \in {polled, NoEvent} \cup (IF line.value > 9 THEN {short} ELSE {}) :
              After(event, <<NoEvent>> \o Tail(down))
         /\ heard' = IF \E i \in 2..Len(down) : down[i].lvar = line.lvar
                     THEN heard ELSE heard \ {line.lvar}

-----------------------------------------------------------------------------
-----------------------------------------------------------------------------
(* The pilot and the clock *)

Press(b) ==
  /\ pressed' = (IF b \in pressed THEN pressed \ {b} ELSE pressed \cup {b})
  /\ UNCHANGED <<knob, closed, selector, keys, typing>>

Turn(k, level) ==
  /\ level # knob[k] /\ knob' = [knob EXCEPT ![k] = level]
  /\ UNCHANGED <<pressed, closed, selector, keys, typing>>

Throw(m) ==
  /\ closed' = (IF m \in closed THEN closed \ {m} ELSE closed \cup {m})
  /\ UNCHANGED <<pressed, knob, selector, keys, typing>>

Select(p) ==
  /\ p # selector /\ selector' = p
  /\ UNCHANGED <<pressed, knob, closed, keys, typing>>

\* A controller reports one key.
KeyDown(k) ==
  /\ \A other \in keys : other \div 16 # k \div 16
  /\ keys' = keys \cup {k}
  /\ typing' = IF keys = {} /\ typing.stage = "none" THEN [key |-> k, stage |-> "down"] ELSE NoKey
  /\ UNCHANGED <<pressed, knob, closed, selector>>

KeyUp(k) ==
  /\ k \in keys /\ keys' = keys \ {k}
  /\ typing' = IF typing = [key |-> k, stage |-> "seen"] THEN [typing EXCEPT !.stage = "due"] ELSE NoKey
  /\ UNCHANGED <<pressed, knob, closed, selector>>

Tick ==
  /\ \E p \in DOMAIN switch : switch[p].age <= Debounce
  /\ switch' = [p \in DOMAIN switch |-> [switch[p] EXCEPT !.age = Min({@ + 1, Debounce + 1})]]
  /\ UNCHANGED <<panelVars, polled, scanned, lights, reading, pos, lastKey,
                 com, up, down, historyVars>>
=============================================================================
