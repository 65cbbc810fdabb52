-------------------------- MODULE FsuipcFlightVars --------------------------
(***************************************************************************)
(* The delegate behind the FlightVars server: flight_vars_core (the router *)
(* from variable groups to their masters), fsuipc_flight_vars (the master  *)
(* of the group "fsuipc/offset"), its fsuipc_offset_db and the             *)
(* update_observer that polls FSUIPC on every tick.                        *)
(*                                                                         *)
(* Operations are atomic here: they all run on the thread of the IO        *)
(* service, as in the integration tests of the server.                     *)
(* The arrangement of main.cpp, where ticks come on a thread of their own, *)
(* is left out.                                                            *)
(***************************************************************************)
EXTENDS Integers, FiniteSets

CONSTANTS
  Var,           \* variable_id: group and name
  Offset,        \* FSUIPC offsets: address and length
  NoOffset,      \* not an offset
  OffsetOf,      \* what to_fsuipc_offset says of each variable
  Span,          \* how many values fit in the length of an offset
  MaxValue,      \* bound: the largest offset_value written
  NoValue,       \* not a value
  Subscriber,    \* who the update handlers call back
  MaxSubs,       \* bound: subscriptions made in a behaviour
  FsuipcMayFail  \* whether fsuipc_client::query may throw while subscribing

Id == 1..MaxSubs
Value == 0..MaxValue
Subscription == [id: Id, var: Var, to: Subscriber]

ASSUME DelegateAssumption ==
  /\ NoOffset \notin Offset
  /\ NoValue \notin Value
  /\ OffsetOf \in [Var -> Offset \cup {NoOffset}]
  /\ Span \in [Offset -> Nat \ {0}]
  /\ MaxSubs \in Nat
  /\ FsuipcMayFail \in BOOLEAN
  /\ MaxValue \in Nat

VARIABLES
  subs,     \* fsuipc_offset_db::_offset_handlers, all its lists together
  known,    \* fsuipc_offset_db::_known_offsets
  observed, \* update_observer::_offsets
  pending,  \* update_observer::_pending_welcomes
  cached,   \* update_observer::_values
  coreIds,  \* flight_vars_core::_subscriptions (one master)
  nextId,   \* the counter of make_subscription_id
  memory,   \* the simulator's offsets, as FSUIPC reads them
  told      \* history: the last value each update handler was called with,
            \* while it is subscribed

delegateVars == <<subs, known, observed, pending, cached, coreIds, nextId,
                  memory, told>>

\* The subscriptions listed under an offset.
SubsOf(o, S) == {x \in S : OffsetOf[x.var] = o}

\* What FSUIPC keeps of a value written to an offset: its low bytes.
Stored(o, val) == val % Span[o]

TypeOKDelegate ==
  /\ subs \subseteq Subscription
  /\ known \subseteq Offset
  /\ observed \subseteq Offset
  /\ pending \subseteq Offset
  /\ cached \in [Offset -> Value \cup {NoValue}]
  /\ coreIds \subseteq Id
  /\ nextId \in 1..(MaxSubs + 1)
  /\ memory \in [Offset -> Value]
  /\ told \in [Id -> Value \cup {NoValue}]

InitDelegate ==
  /\ subs = {}
  /\ known = {}
  /\ observed = {}
  /\ pending = {}
  /\ cached = [o \in Offset |-> NoValue]
  /\ coreIds = {}
  /\ nextId = 1
  /\ memory = [o \in Offset |-> 0]
  /\ told = [i \in Id |-> NoValue]

-----------------------------------------------------------------------------
(* Operations of the flight_vars interface.                                *)

\* Mutant: any name is taken for an offset.
AnyVarExists(v) == TRUE

\* The group has a master and the name is an offset.
VarExists(v) == OffsetOf[v] # NoOffset

\* Mutant: only the first subscription to an offset makes a pending welcome.
RegisterWelcomeOnce(v, who) ==
  /\ VarExists(v)
  /\ nextId <= MaxSubs
  /\ subs' = subs \cup {[id |-> nextId, var |-> v, to |-> who]}
  /\ known' = known \cup {OffsetOf[v]}
  /\ observed' = observed \cup {OffsetOf[v]}
  /\ pending' = pending \cup ({OffsetOf[v]} \ observed)
  /\ nextId' = nextId + 1
  /\ UNCHANGED <<memory, told>>

\* Mutant: no pending welcome until FSUIPC has answered.
RegisterWelcomeLate(v, who) ==
  /\ VarExists(v)
  /\ nextId <= MaxSubs
  /\ subs' = subs \cup {[id |-> nextId, var |-> v, to |-> who]}
  /\ known' = known \cup {OffsetOf[v]}
  /\ observed' = observed \cup {OffsetOf[v]}
  /\ nextId' = nextId + 1
  /\ UNCHANGED <<pending, memory, told>>

\* create_subscription and the first half of start_observing.
Register(v, who) ==
  /\ VarExists(v)
  /\ nextId <= MaxSubs
  /\ subs' = subs \cup {[id |-> nextId, var |-> v, to |-> who]}
  /\ known' = known \cup {OffsetOf[v]}
  /\ observed' = observed \cup {OffsetOf[v]}
  /\ pending' = pending \cup {OffsetOf[v]}
  /\ nextId' = nextId + 1
  /\ UNCHANGED <<memory, told>>

\* subscribe(): the observer remembers the value it reads from FSUIPC, the
\* core remembers the master of the new subscription.
Subscribe(v, who) ==
  /\ Register(v, who)
  /\ cached' = [cached EXCEPT ![OffsetOf[v]] = memory[OffsetOf[v]]]
  /\ coreIds' = coreIds \cup {nextId}

\* subscribe() when the query of start_observing throws: what was inserted
\* before stays, and nobody gets the identifier.
SubscribeThrows(v, who) ==
  /\ FsuipcMayFail
  /\ Register(v, who)
  /\ UNCHANGED <<cached, coreIds>>

\* Mutant: the last subscription goes and the offset is still observed.
UnsubscribeStillObserved(ids) ==
  LET left == {x \in subs : x.id \notin ids}
      gone == {o \in known : SubsOf(o, subs) # {} /\ SubsOf(o, left) = {}}
  IN  /\ ids \subseteq coreIds
      /\ subs' = left
      /\ known' = known \ gone
      /\ coreIds' = coreIds \ ids
      /\ told' = [i \in Id |-> IF i \in ids THEN NoValue ELSE told[i]]
      /\ UNCHANGED <<observed, pending, cached, nextId, memory>>

\* unsubscribe(), for each of a set of identifiers. An offset is forgotten
\* and no longer observed with its last subscription; its cached value and
\* its pending welcome stay.
Unsubscribe(ids) ==
  LET left == {x \in subs : x.id \notin ids}
      gone == {o \in known : SubsOf(o, subs) # {} /\ SubsOf(o, left) = {}}
  IN  /\ ids \subseteq coreIds
      /\ subs' = left
      /\ known' = known \ gone
      /\ observed' = observed \ gone
      /\ coreIds' = coreIds \ ids
      /\ told' = [i \in Id |-> IF i \in ids THEN NoValue ELSE told[i]]
      /\ UNCHANGED <<pending, cached, nextId, memory>>

\* update() of a subscription the core knows; others are ignored. The cached
\* value is left alone, so the next poll tells the writer as well.
Update(id, val) ==
  /\ \/ /\ id \in coreIds
        /\ \E x \in subs :
             /\ x.id = id
             /\ memory' = [memory EXCEPT ![OffsetOf[x.var]] =
                              Stored(OffsetOf[x.var], val)]
     \/ /\ id \notin coreIds
        /\ UNCHANGED memory
  /\ UNCHANGED <<subs, known, observed, pending, cached, coreIds, nextId, told>>

\* The offsets check_for_updates() reports: never reported since they were
\* observed, or changed since.
Due == {o \in observed : o \in pending \/ cached[o] # memory[o]}

\* The subscriptions whose handlers it calls.
Notified == {x \in subs : OffsetOf[x.var] \in Due}

CheckForUpdates ==
  /\ cached' = [o \in Offset |-> IF o \in Due THEN memory[o] ELSE cached[o]]
  /\ told' = [i \in Id |->
                IF \E x \in Notified : x.id = i
                THEN memory[OffsetOf[(CHOOSE x \in Notified : x.id = i).var]]
                ELSE told[i]]
  /\ pending' = {}
  /\ UNCHANGED <<subs, known, observed, coreIds, nextId, memory>>

\* The simulator changes one of its offsets.
SimulatorChanges(o, val) ==
  /\ memory[o] # Stored(o, val)
  /\ memory' = [memory EXCEPT ![o] = Stored(o, val)]
  /\ UNCHANGED <<subs, known, observed, pending, cached, coreIds, nextId, told>>

-----------------------------------------------------------------------------
NextDelegate ==
  \/ \E v \in Var, who \in Subscriber : Subscribe(v, who)
  \/ \E v \in Var, who \in Subscriber : SubscribeThrows(v, who)
  \/ \E id \in coreIds : Unsubscribe({id})
  \/ \E id \in Id, val \in Value : Update(id, val)
  \/ CheckForUpdates
  \/ \E o \in Offset, val \in Value : SimulatorChanges(o, val)

SpecDelegate == InitDelegate /\ [][NextDelegate]_delegateVars

\* SimConnect keeps ticking six times a second.
FairDelegate == SpecDelegate /\ WF_delegateVars(CheckForUpdates)

-----------------------------------------------------------------------------
(* Properties.                                                             *)

\* The list of known offsets, the set the observer polls and the offsets of
\* the subscriptions are kept by three different operations; they agree.
ObservedAsSubscribed ==
  /\ known = {OffsetOf[x.var] : x \in subs}
  /\ observed = known

\* An identifier names one subscription, and has been handed out.
IdsAreUnique ==
  /\ \A x, y \in subs : x.id = y.id => x = y
  /\ \A x \in subs : x.id < nextId

\* A subscription the core routes to is in the offset database, so that the
\* unsubscribe() calls of a destroyed session never throw.
CoreIdsKnown == coreIds \subseteq {x.id : x \in subs}

\* check_for_updates() dereferences the cached value of an observed offset
\* that has no pending welcome: it is there.
CachedWhenCompared == \A o \in observed \ pending : cached[o] # NoValue

\* A new subscription to an observed offset overwrites the cached value, which
\* would hide a change from the older ones; the pending welcome makes up for
\* it: a subscriber that will not be told at the next poll has been told the
\* value the observer compares with.
NoStaleSubscriber ==
  \A x \in subs :
    OffsetOf[x.var] \notin pending => told[x.id] = cached[OffsetOf[x.var]]

\* Once the simulator and the clients stop changing offsets, every subscriber
\* is told the current value.
EventuallyTold ==
  <>[][UNCHANGED memory]_memory
    => <>[](\A x \in subs : told[x.id] = memory[OffsetOf[x.var]])
=============================================================================
