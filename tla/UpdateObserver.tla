--------------------------- MODULE UpdateObserver ---------------------------
(***************************************************************************)
(* update_observer (liboac/include/liboac/fsuipc/update_observer.h) over   *)
(* fsuipc_client (client.h), step by step: every offset read or visited    *)
(* and every result evaluated is a step, so that the two threads of the    *)
(* module can be interleaved.  The network thread starts and stops the     *)
(* observation of offsets and writes them, and ticks check for updates:    *)
(* posted on the network's thread by asio_tick_observer_adapter            *)
(* (timing.h), as in the integration tests of the server, or on            *)
(* SimConnect's own thread, as flightvars/src/module/main.cpp does.        *)
(*                                                                         *)
(* FsuipcFlightVars takes each of these operations as one step.            *)
(***************************************************************************)
EXTENDS FsuipcUser

CONSTANTS
  NoValue,      \* not a value
  ThreadOffset  \* bound: the offsets in use when ticks have their own thread

ASSUME UpdateObserverAssumption == ThreadOffset \subseteq Offset

VARIABLES
  posted,    \* ticks are handlers of the network's thread
  offsets,   \* _offsets: the offsets observed
  welcomes,  \* _pending_welcomes
  values,    \* _values: the cached value of each offset, or NoValue
  told,      \* history: what the evaluator was last told of each offset
             \* since its observation began, or NoValue
  raced,     \* history: the offsets a check ran over while their
             \* observation began
  op,        \* what each thread is doing
  list,      \* query: the values each thread has to evaluate, by offset;
             \* put is history, FSUIPC_Process has put the value there
  at         \* FSUIPC_Process: pdw, the slot each thread looks at

historyVars == <<told, raced>>
observerVars == <<offsets, welcomes, values>>
threadVars == <<op, list, at>>
vars == <<posted, fsuipcVars, observerVars, threadVars, historyVars>>

net == "net"    \* the thread of the IO service
tick == "tick"  \* the thread of SimConnect, or a handler posted
Caller == {net, tick}

Idle == [name |-> "idle", set |-> {}]

Init ==
  /\ posted \in BOOLEAN
  /\ FsuipcInit
  /\ offsets = {}
  /\ welcomes = {}
  /\ values = [o \in Offset |-> NoValue]
  /\ told = [o \in Offset |-> NoValue]
  /\ raced = {}
  /\ op = [t \in Caller |-> Idle]
  /\ list = [t \in Caller |-> <<>>]
  /\ at = [t \in Caller |-> 1]

-----------------------------------------------------------------------------
\* One operation at a time on a thread.

Free(t) == /\ op[t] = Idle
           /\ posted => \A u \in Caller : op[u] = Idle

Goes(t, name) == op' = [op EXCEPT ![t] = [@ EXCEPT !.name = name]]

\* Returning or throwing: the list of values of a query ends with it.
Ends(t) == /\ op' = [op EXCEPT ![t] = Idle]
           /\ list' = [list EXCEPT ![t] = <<>>]
           /\ UNCHANGED at

\* start_observing inserts the offset, queries it and caches its value.
start_observing(o) ==
  /\ Free(net)
  /\ offsets' = offsets \cup {o}
  /\ welcomes' = welcomes \cup {o}
  /\ told' = [told EXCEPT ![o] = IF o \in offsets THEN @ ELSE NoValue]
  /\ raced' = IF op[tick] = Idle THEN raced \ {o} ELSE raced \cup {o}
  /\ op' = [op EXCEPT ![net] = [name |-> "reading", set |-> {o}]]
  /\ UNCHANGED <<values, list, at, fsuipcVars>>

stop_observing(o) ==
  /\ Free(net)
  /\ offsets' = offsets \ {o}
  /\ UNCHANGED <<welcomes, values, threadVars, historyVars, fsuipcVars>>

\* fsuipc_client::update of one offset.
update(o, v) ==
  /\ Free(net)
  /\ FSUIPC_Write(o, v)
  /\ op' = [op EXCEPT ![net] = [name |-> "processing", set |-> {}]]
  /\ UNCHANGED <<memory, observerVars, historyVars, list, at>>

check_for_updates ==
  /\ Free(tick)
  /\ op' = [op EXCEPT ![tick] = [name |-> "reading", set |-> {}]]
  /\ raced' = raced \cup op[net].set
  /\ UNCHANGED <<told, observerVars, list, at, fsuipcVars>>

-----------------------------------------------------------------------------
\* fsuipc_client::query.

\* The offsets a query goes through: start_observing's own, or _offsets
\* themselves, as they are at each step.
Queried(t) == IF t = net THEN op[t].set ELSE offsets

\* One offset of the loop; the order of an unordered_set is any.  Its value
\* is 0 until FSUIPC puts another one there.
QueryRead(t) ==
  /\ op[t].name = "reading"
  /\ \E o \in Queried(t) \ DOMAIN list[t] :
       /\ FSUIPC_Read(o, t)
       /\ list' = [list EXCEPT ![t] =
                     [x \in DOMAIN @ \cup {o} |->
                        IF x = o THEN [value |-> 0, put |-> FALSE] ELSE @[x]]]
  /\ UNCHANGED <<memory, observerVars, historyVars, op, at>>

\* The loop ends; a query of nothing processes nothing.
QueryEnd(t) ==
  /\ op[t].name = "reading"
  /\ Queried(t) \subseteq DOMAIN list[t]
  /\ Goes(t, IF list[t] = <<>> THEN "evaluating" ELSE "processing")
  /\ UNCHANGED <<observerVars, historyVars, list, at, fsuipcVars>>

-----------------------------------------------------------------------------
\* process(): FSUIPC_Process, of the requests of all the callers.

\* Mutant: a check that fails clears the welcomes all the same.
ThrowsClearing(t) ==
  /\ Ends(t)
  /\ welcomes' = IF t = tick THEN {} ELSE welcomes
  /\ UNCHANGED <<offsets, values, historyVars>>

Throws(t) == Ends(t) /\ UNCHANGED <<observerVars, historyVars>>

Process(t) ==
  /\ op[t].name = "processing"
  /\ Terminate
  /\ Goes(t, "sending")
  /\ UNCHANGED <<memory, next, observerVars, historyVars, list, at>>

\* Another thread has processed the requests already.
ProcessNothing(t) ==
  /\ op[t].name = "processing"
  /\ NoData
  /\ Throws(t)
  /\ UNCHANGED fsuipcVars

Send(t) ==
  /\ op[t].name = "sending"
  /\ \/ Answered /\ Goes(t, "answered")
     \/ UNCHANGED <<memory, view>> /\ Goes(t, "refused")
  /\ UNCHANGED <<next, observerVars, historyVars, list, at>>

\* Mutant: the values are evaluated whatever FSUIPC_Process returned.
SendReturnsUnchecked(t) ==
  /\ op[t].name \in {"answered", "refused"}
  /\ Reset
  /\ Goes(t, IF op[t].name = "answered" THEN "copying" ELSE "evaluating")
  /\ at' = [at EXCEPT ![t] = 1]
  /\ UNCHANGED <<observerVars, historyVars, list>>

\* Back in FSUIPC_Process, m_pNext is reset whatever FSUIPC says.
SendReturns(t) ==
  \/ /\ op[t].name = "answered"
     /\ Reset
     /\ Goes(t, "copying")
     /\ at' = [at EXCEPT ![t] = 1]
     /\ UNCHANGED <<observerVars, historyVars, list>>
  \/ /\ op[t].name = "refused"
     /\ Reset
     /\ Throws(t)

\* A value is put into the list of its query.  The lists of queries that ended
\* are gone: what is written there is lost, or in the next list of the thread.
Put(r) ==
  IF r.kind = "read" /\ r.offset \in DOMAIN list[r.of]
  THEN list' = [list EXCEPT ![r.of][r.offset] = [value |-> Answer, put |-> TRUE]]
  ELSE UNCHANGED list

Copy(t) ==
  /\ op[t].name = "copying"
  /\ view[at[t]].kind # "none"
  /\ Put(view[at[t]])
  /\ Advance
  /\ at' = [at EXCEPT ![t] = next + 1]
  /\ UNCHANGED <<observerVars, historyVars, op>>

CopyEnd(t) ==
  /\ op[t].name = "copying"
  /\ view[at[t]].kind = "none"
  /\ Reset
  /\ Goes(t, "evaluating")
  /\ at' = [at EXCEPT ![t] = 1]
  /\ UNCHANGED <<observerVars, historyVars, list>>

-----------------------------------------------------------------------------
\* What the check does of a value: it tells of it if it is welcome or is not
\* the one cached.  An offset that is neither cached nor welcome has end() for
\* its cached value, and the comparison may come out either way.
Compare(o, v) ==
  \/ /\ o \in welcomes \/ values[o] # v
     /\ values' = [values EXCEPT ![o] = v]
     /\ told' = [told EXCEPT ![o] = v]
     /\ raced' = raced \ ({o} \ op[net].set)
  \/ /\ o \notin welcomes
     /\ values[o] \in {v, NoValue}
     /\ UNCHANGED <<values, historyVars>>

\* Evaluating one value: start_observing caches it, the check compares it.
Evaluate(t) ==
  /\ op[t].name = "evaluating"
  /\ \E o \in DOMAIN list[t] :
       /\ list' = [list EXCEPT ![t] = Restrict(@, DOMAIN @ \ {o})]
       /\ \/ t = tick /\ Compare(o, list[t][o].value)
          \/ t = net /\ values' = [values EXCEPT ![o] = list[t][o].value]
                     /\ UNCHANGED historyVars
  /\ UNCHANGED <<offsets, welcomes, op, at, fsuipcVars>>

\* The operation returns; the check clears the welcomes first.
Return(t) ==
  /\ op[t].name = "evaluating"
  /\ list[t] = <<>>
  /\ welcomes' = IF t = tick THEN {} ELSE welcomes
  /\ Ends(t)
  /\ UNCHANGED <<offsets, values, historyVars, fsuipcVars>>

\* The offsets in use.
Used == IF posted THEN Offset ELSE ThreadOffset

Step ==
  \/ \E o \in Used : start_observing(o) \/ stop_observing(o)
  \/ \E o \in Used, v \in Value : update(o, v)
  \/ check_for_updates
  \/ \E t \in Caller :
       \/ QueryRead(t) \/ QueryEnd(t)
       \/ Process(t) \/ ProcessNothing(t) \/ Send(t) \/ SendReturns(t)
       \/ Copy(t) \/ CopyEnd(t)
       \/ Evaluate(t) \/ Return(t)
  \/ \E o \in Used, v \in Value :
       Simulate(o, v) /\ UNCHANGED <<observerVars, threadVars, historyVars>>

\* How the ticks arrive does not change.
Next == Step /\ UNCHANGED posted

Spec == Init /\ [][Next]_vars

-----------------------------------------------------------------------------
\* Correctness.

InQuery == {"reading", "processing", "sending", "answered", "refused", "copying"}

(* When ticks are posted on the network thread, every pointer FSUIPC_Process
   will follow is into a list that is still there: a query that ended, with an
   exception too, leaves no request behind for the next one to answer, and no
   stale slot of a longer one is taken for an answer. *)
RequestsAreLive ==
  posted =>
    /\ \A i \in 1..(next - 1) :
         view[i].kind = "read" => op[view[i].of].name \in InQuery
    /\ \A t \in Caller :
         op[t].name = "copying" /\ view[at[t]].kind = "read" =>
           view[at[t]].offset \in DOMAIN list[view[at[t]].of]

(* "process() function will commit the pending read and write actions": the
   values a query goes on to evaluate have been read, all of them. *)
ReadsAreCommitted ==
  \A t \in Caller :
    op[t].name = "evaluating" => \A o \in DOMAIN list[t] : list[t][o].put

(* When ticks are posted on the network thread, each value a query goes on to
   evaluate is the one FSUIPC answered for its offset, whatever was refused
   before and however the offsets of successive queries differ. *)
ValuesAreAnswers ==
  posted =>
    \A t \in Caller :
      op[t].name = "evaluating" =>
        \A o \in DOMAIN list[t] :
          /\ list[t][o].put
          /\ \E i \in 1..Room :
               view[i] = [kind |-> "read", offset |-> o, of |-> t,
                          data |-> list[t][o].value]

(* An offset observed is never cached with a value its subscribers were not
   told and will not be: the check compares with the cache, so a value in it
   is taken for one they know.  After start_observing it is the welcome that
   tells it, through every failure of FSUIPC; an observation that began while
   a check ran is left out, its welcome may be lost (line 140). *)
CacheIsTold ==
  \A o \in offsets \ (welcomes \cup raced) :
    values[o] = NoValue \/ told[o] = values[o]
=============================================================================
