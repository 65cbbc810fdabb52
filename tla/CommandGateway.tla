--------------------------- MODULE CommandGateway ---------------------------
(***************************************************************************)
(* The command gateway (cmd-gw/OAC_CMDGW.lua) between the pedestal and the *)
(* LVARs of an aircraft: it executes the OACSP commands of the device and  *)
(* sends it the events it observes.                                        *)
(*                                                                         *)
(* One port has a device.  FSUIPC runs the script: each callback runs to   *)
(* its end; event.Lvar looks at an LVAR now and then and calls back with   *)
(* the value it has by then; an error in a callback may end the script or  *)
(* not.  The                                                               *)
(* script is started with the simulator and again at a keystroke, which    *)
(* kills the one that runs.  Opening the port resets boards that are wired *)
(* so.  The aircraft sets the LVARs that are observed, the device others.  *)
(***************************************************************************)
EXTENDS Pedestal

CONSTANTS
  CallsAtFirst,  \* whether event.Lvar calls back with the value it starts from
  LVarValue,     \* what the aircraft may set an observed LVAR to, by LVAR
  MaxMoves,      \* bound: what the pilot and the aircraft do
  MaxRestarts,   \* bound: keystrokes and resets of the device
  MaxLines       \* bound: lines on the way to the gateway when the device goes on

VARIABLES
  lvars,      \* the aircraft's LVARs
  observers,  \* how many times EventObservers has the handle, by event
  watches,    \* the events FSUIPC calls back for, with the value last seen
  moves, restarts

gatewayVars == <<lvars, observers, watches>>
vars == <<pedestalVars, gatewayVars, moves, restarts>>

MasterLVars == {MasterLVar[m] : m \in Master}
KeyLVars == {KeyLVar[k] : k \in DOMAIN KeyLVar} \cup {"MCDU_UNKNOWN"}
Written == Button \cup Knob \cup MasterLVars \cup KeyLVars \cup {"AB_ECAM_TOconf", "AB_PDS_ignition"}

\* The pedestal writes each LVAR from one place, and none that it observes.
ASSUME GatewayAssumption ==
  /\ CallsAtFirst \in BOOLEAN /\ RxLines \in Nat
  /\ \A l \in Observed : LVarValue[l] \subseteq Int
  /\ IsFiniteSet(Button) /\ IsFiniteSet(Knob) /\ IsFiniteSet(Master)
  /\ \A m, n \in Master : MasterLVar[m] = MasterLVar[n] => m = n
  /\ Button \cap (Knob \cup MasterLVars \cup KeyLVars) = {}
  /\ Knob \cap (MasterLVars \cup KeyLVars) = {} /\ MasterLVars \cap KeyLVars = {}
  /\ {"AB_ECAM_TOconf", "AB_PDS_ignition"} \cap (Button \cup Knob \cup MasterLVars \cup KeyLVars) = {}
  /\ Written \cap Observed = {}

Init ==
  /\ PedestalInit
  /\ lvars = [l \in Written \cup Observed |-> 0]
  /\ observers = [l \in Observed |-> 0] /\ watches = <<>>
  /\ moves = 0 /\ restarts = 0

-----------------------------------------------------------------------------
(* What the device sends *)

\* The script ends, or has left the port: nobody observes anything.
Leave == com' = "closed" /\ observers' = [l \in Observed |-> 0] /\ watches' = <<>>

\* ConnectDevices waits for the first line of the port, and closes it if it is
\* not the one that begins.
ReadBeginLine ==
  /\ com = "begin" /\ up # <<>> /\ up' = Tail(up)
  /\ IF Head(up) = Begin THEN com' = "open" /\ UNCHANGED <<observers, watches>> ELSE Leave
  /\ UNCHANGED <<panelVars, sketchVars, down, historyVars, lvars, moves, restarts>>

OnDataReceived(cmd) ==
  /\ com = "open" /\ up # <<>> /\ Head(up).cmd = cmd /\ up' = Tail(up)
  /\ UNCHANGED <<panelVars, sketchVars, down, historyVars, moves, restarts>>

ProcessWriteLVar ==
  /\ OnDataReceived("WRITE_LVAR")
  /\ lvars' = [lvars EXCEPT ![Head(up).lvar] = Head(up).value]
  /\ UNCHANGED <<com, observers, watches>>

\* A handle that observes the event is stored once more, and the event is asked
\* for once more.  A watch that has seen -1 calls back at once.
ProcessObserveLVar ==
  /\ OnDataReceived("OBS_LVAR")
  /\ LET l == Head(up).lvar
     IN  /\ observers' = [observers EXCEPT ![l] = @ + 1]
         /\ watches' = Append(watches, [lvar |-> l, seen |-> IF CallsAtFirst THEN -1 ELSE lvars[l]])
  /\ UNCHANGED <<com, lvars>>

\* A line that is no command has no action to look at: the callback fails.
UnknownCommand ==
  /\ OnDataReceived("BEGIN")
  /\ Leave \/ UNCHANGED <<com, observers, watches>>
  /\ UNCHANGED lvars

-----------------------------------------------------------------------------
(* What the gateway sends *)

\* Each observer gets a line.  What the input of the device has no room for is
\* lost: this is the last value of the LVAR only if all lines fit.
OnLVarModified(i) ==
  /\ com = "open" /\ i \in DOMAIN watches
  /\ LET l == watches[i].lvar
         line == [lvar |-> l, value |-> lvars[l]]
         room == RxLines - Len(down)
     IN  /\ watches[i].seen # lvars[l]
         /\ watches' = [watches EXCEPT ![i].seen = lvars[l]]
         /\ down' = down \o [n \in 1..Min({observers[l], room}) |-> line]
         /\ heard' = IF observers[l] > room THEN heard \ {l} ELSE heard \cup {l}
  /\ UNCHANGED <<panelVars, sketchVars, com, up, told, typing, lvars, observers, moves, restarts>>

-----------------------------------------------------------------------------
(* The keystroke and the reset of the device *)

Restart == restarts < MaxRestarts /\ restarts' = restarts + 1 /\ UNCHANGED <<panelVars, lvars, moves>>

\* The script starts anew and opens the port, with nothing left in it.
OpenConnection ==
  /\ Restart
  /\ com' = "begin" /\ down' = <<>>
  /\ observers' = [l \in Observed |-> 0] /\ watches' = <<>>
  /\ \/ Boot /\ up' = Setup
     \/ up' = <<>> /\ told' = {} /\ UNCHANGED <<sketchVars, heard, typing>>

ResetDevice ==
  /\ Restart
  /\ Boot /\ Send(Setup) /\ down' = <<>>
  /\ UNCHANGED <<com, observers, watches>>

-----------------------------------------------------------------------------
\* The device goes on when its output has room.
Loop ==
  /\ Len(up) < MaxLines
  /\ loop \/ loop_cut
  /\ UNCHANGED <<gatewayVars, moves, restarts>>

Move ==
  /\ moves < MaxMoves /\ moves' = moves + 1
  /\ \/ \E b \in Button : Press(b)
     \/ \E k \in Knob, level \in Level : Turn(k, level)
     \/ \E m \in Master : Throw(m)
     \/ \E p \in -1..(NumPos - 1) : Select(p)
     \/ \E k \in Key : KeyDown(k) \/ KeyUp(k)
  /\ UNCHANGED <<sketchVars, com, up, down, told, heard, gatewayVars, restarts>>

SetLVar(l) ==
  /\ moves < MaxMoves /\ moves' = moves + 1
  /\ \E v \in LVarValue[l] \ {lvars[l]} : lvars' = [lvars EXCEPT ![l] = v]
  /\ UNCHANGED <<pedestalVars, observers, watches, restarts>>

Next ==
  \/ ReadBeginLine \/ ProcessWriteLVar \/ ProcessObserveLVar \/ UnknownCommand
  \/ \E i \in 1..Len(watches) : OnLVarModified(i)
  \/ OpenConnection \/ ResetDevice
  \/ Loop \/ Move
  \/ \E l \in Observed : SetLVar(l)
  \/ Tick /\ UNCHANGED <<gatewayVars, moves, restarts>>

Spec == Init /\ [][Next]_vars

-----------------------------------------------------------------------------
\* What an LVAR comes to when the lines on their way have arrived.
Latest(l) ==
  LET lines == {i \in DOMAIN up : up[i].cmd = "WRITE_LVAR" /\ up[i].lvar = l}
  IN  IF lines = {} THEN lvars[l] ELSE up[Max(lines)].value

\* While the port is open, each LVAR comes to what its input shows: a button or
\* knob since its last change was sent, a switch and the selector since they
\* were first read.  A key pressed alone and scanned is typed once it is up.
InputsReach ==
  /\ com = "open" =>
       /\ \A b \in Button \cap told : Latest(b) = (IF b \in scanned THEN 1 ELSE 0)
       /\ \A k \in Knob \cap told : Latest(k) = Bright(reading[k])
       /\ \A m \in Master : switch[m].state # -1 => Latest(MasterLVar[m]) = switch[m].state
       /\ pos # -1 => Latest("AB_PDS_ignition") = pos
  /\ typing.stage # "missed"

Shown(l) ==
  IF l = "ECAM_MODE" THEN lights \ {CLR_LGT} = {lvars[l]} \cap Pages
  ELSE CLR_LGT \in lights <=> lvars[l] # 0

\* The lights show an LVAR whose last event was not cut or lost, once the gateway
\* has seen its value and the device has read the lines.
LightsShow ==
  com = "open" =>
    \A l \in heard :
      \/ \E i \in DOMAIN watches : watches[i].lvar = l /\ watches[i].seen # lvars[l]
      \/ \E i \in DOMAIN down : down[i].lvar = l
      \/ Shown(l)
=============================================================================
