----------------------- MODULE FsuipcFlightVars_proofs ----------------------
(***************************************************************************)
(* Proofs about FsuipcFlightVars, for any variables, offsets, widths and   *)
(* bounds, whether or not FSUIPC may fail.                                 *)
(***************************************************************************)
EXTENDS FsuipcFlightVars, TLAPS

\* The inductive invariant: no conjunct is inductive without TypeOKDelegate;
\* NoStaleSubscriber needs ObservedAsSubscribed (a subscriber's offset is
\* polled) and IdsAreUnique (told is indexed by identifier).
DelegateInv ==
  /\ TypeOKDelegate
  /\ ObservedAsSubscribed
  /\ IdsAreUnique
  /\ CoreIdsKnown
  /\ CachedWhenCompared
  /\ NoStaleSubscriber

LEMMA InitDelegateInv == InitDelegate => DelegateInv
  BY DelegateAssumption
  DEF InitDelegate, DelegateInv, TypeOKDelegate, ObservedAsSubscribed,
      IdsAreUnique, CoreIdsKnown, CachedWhenCompared, NoStaleSubscriber,
      Id, Value, Subscription

\* What FSUIPC keeps of a value is one of the values the model writes.
LEMMA StoredIsValue ==
  ASSUME NEW o \in Offset, NEW val \in Value
  PROVE  Stored(o, val) \in Value
  <1>1. Span[o] \in Nat \ {0} /\ val \in Nat /\ MaxValue \in Nat
    BY DelegateAssumption DEF Value
  <1>2. val % Span[o] \in 0..val
    BY <1>1
  <1> QED BY <1>1, <1>2 DEF Stored, Value

\* The inserts shared by a subscribe() that returns and one that throws.
LEMMA RegisterInv ==
  ASSUME DelegateInv, NEW v \in Var, NEW who \in Subscriber,
         Register(v, who),
         cached' \in [Offset -> Value \cup {NoValue}],
         \A o \in Offset : o # OffsetOf[v] => cached'[o] = cached[o],
         coreIds' \subseteq coreIds \cup {nextId},
         coreIds' \subseteq {x.id : x \in subs'}
  PROVE  DelegateInv'
  <1> DEFINE new == [id |-> nextId, var |-> v, to |-> who]
             o == OffsetOf[v]
  <1>1. /\ o \in Offset
        /\ nextId \in Id
        /\ new \in Subscription
        /\ subs' = subs \cup {new}
    BY DelegateAssumption
    DEF Register, VarExists, DelegateInv, TypeOKDelegate, Id, Subscription
  <1>2. TypeOKDelegate'
    BY <1>1, DelegateAssumption DEF Register, DelegateInv, TypeOKDelegate, Id
  <1>3. ObservedAsSubscribed'
    BY <1>1 DEF Register, DelegateInv, ObservedAsSubscribed
  <1>4. IdsAreUnique'
    <2>1. \A x \in subs : x.id \in Id /\ x.id < nextId
      BY DEF DelegateInv, TypeOKDelegate, IdsAreUnique, Subscription
    <2>2. \A x, y \in subs' : x.id = y.id => x = y
      BY <1>1, <2>1 DEF DelegateInv, IdsAreUnique, Id
    <2>3. \A x \in subs' : x.id < nextId'
      BY <1>1, <2>1 DEF Register, Id
    <2> QED BY <2>2, <2>3 DEF IdsAreUnique
  <1>5. CachedWhenCompared'
    BY <1>1 DEF Register, DelegateInv, CachedWhenCompared, TypeOKDelegate
  <1>6. NoStaleSubscriber'
    <2> SUFFICES ASSUME NEW x \in subs', OffsetOf[x.var] \notin pending'
                 PROVE  told'[x.id] = cached'[OffsetOf[x.var]]
      BY DEF NoStaleSubscriber
    <2>1. x # new /\ x \in subs /\ OffsetOf[x.var] # o
      BY <1>1 DEF Register
    <2>2. OffsetOf[x.var] \in Offset
      BY <2>1 DEF DelegateInv, ObservedAsSubscribed, TypeOKDelegate
    <2> QED BY <2>1, <2>2 DEF Register, DelegateInv, NoStaleSubscriber
  <1> QED BY <1>2, <1>3, <1>4, <1>5, <1>6 DEF DelegateInv, CoreIdsKnown

LEMMA SubscribeInv ==
  ASSUME DelegateInv, NEW v \in Var, NEW who \in Subscriber, Subscribe(v, who)
  PROVE  DelegateInv'
  <1>1. /\ OffsetOf[v] \in Offset
        /\ memory[OffsetOf[v]] \in Value
        /\ cached' \in [Offset -> Value \cup {NoValue}]
        /\ \A o \in Offset : o # OffsetOf[v] => cached'[o] = cached[o]
    BY DelegateAssumption
    DEF Subscribe, Register, VarExists, DelegateInv, TypeOKDelegate
  <1>2. coreIds' \subseteq {x.id : x \in subs'}
    BY DEF Subscribe, Register, DelegateInv, CoreIdsKnown
  <1>3. Register(v, who) /\ coreIds' = coreIds \cup {nextId}
    BY DEF Subscribe
  <1> QED BY <1>1, <1>2, <1>3, RegisterInv

LEMMA SubscribeThrowsInv ==
  ASSUME DelegateInv, NEW v \in Var, NEW who \in Subscriber,
         SubscribeThrows(v, who)
  PROVE  DelegateInv'
  <1>1. /\ cached' \in [Offset -> Value \cup {NoValue}]
        /\ \A o \in Offset : o # OffsetOf[v] => cached'[o] = cached[o]
    BY DEF SubscribeThrows, DelegateInv, TypeOKDelegate
  <1>2. coreIds' \subseteq {x.id : x \in subs'}
    BY DEF SubscribeThrows, Register, DelegateInv, CoreIdsKnown
  <1>3. Register(v, who) /\ coreIds' = coreIds
    BY DEF SubscribeThrows
  <1> QED BY <1>1, <1>2, <1>3, RegisterInv

LEMMA UnsubscribeInv ==
  ASSUME DelegateInv, NEW ids, Unsubscribe(ids)
  PROVE  DelegateInv'
  <1> DEFINE left == {x \in subs : x.id \notin ids}
             gone == {o \in known : SubsOf(o, subs) # {} /\ SubsOf(o, left) = {}}
  <1>1. /\ subs' = left
        /\ known' = known \ gone
        /\ observed' = observed \ gone
        /\ coreIds' = coreIds \ ids
        /\ told' = [i \in Id |-> IF i \in ids THEN NoValue ELSE told[i]]
        /\ UNCHANGED <<pending, cached, nextId, memory>>
    BY DEF Unsubscribe
  <1>2. TypeOKDelegate'
    BY <1>1 DEF DelegateInv, TypeOKDelegate
  <1>3. ObservedAsSubscribed'
    <2>1. known' = {OffsetOf[x.var] : x \in subs'}
      BY <1>1 DEF DelegateInv, ObservedAsSubscribed, SubsOf
    <2> QED BY <1>1, <2>1 DEF DelegateInv, ObservedAsSubscribed
  <1>4. IdsAreUnique'
    BY <1>1 DEF DelegateInv, IdsAreUnique
  <1>5. CoreIdsKnown'
    BY <1>1 DEF DelegateInv, CoreIdsKnown
  <1>6. CachedWhenCompared'
    BY <1>1 DEF DelegateInv, CachedWhenCompared
  <1>7. NoStaleSubscriber'
    <2>1. \A x \in left : x.id \in Id /\ told'[x.id] = told[x.id]
      BY <1>1 DEF DelegateInv, TypeOKDelegate, Subscription
    <2> QED BY <1>1, <2>1 DEF DelegateInv, NoStaleSubscriber
  <1> QED BY <1>2, <1>3, <1>4, <1>5, <1>6, <1>7 DEF DelegateInv

LEMMA MemoryInv ==
  ASSUME DelegateInv,
         memory' \in [Offset -> Value],
         UNCHANGED <<subs, known, observed, pending, cached, coreIds, nextId,
                     told>>
  PROVE  DelegateInv'
  BY DEF DelegateInv, TypeOKDelegate, ObservedAsSubscribed, IdsAreUnique,
         CoreIdsKnown, CachedWhenCompared, NoStaleSubscriber

LEMMA UpdateInv ==
  ASSUME DelegateInv, NEW id \in Id, NEW val \in Value, Update(id, val)
  PROVE  DelegateInv'
  <1>1. CASE id \in coreIds
    <2>1. PICK x \in subs : memory' = [memory EXCEPT ![OffsetOf[x.var]] =
                                          Stored(OffsetOf[x.var], val)]
      BY <1>1 DEF Update
    <2>2. OffsetOf[x.var] \in Offset
      BY DEF DelegateInv, ObservedAsSubscribed, TypeOKDelegate
    <2>3. memory' \in [Offset -> Value]
      BY <2>1, <2>2, StoredIsValue DEF DelegateInv, TypeOKDelegate
    <2> QED BY <2>3, MemoryInv DEF Update
  <1>2. CASE id \notin coreIds
    BY <1>2, MemoryInv DEF Update, DelegateInv, TypeOKDelegate
  <1> QED BY <1>1, <1>2

LEMMA SimulatorChangesInv ==
  ASSUME DelegateInv, NEW o \in Offset, NEW val \in Value,
         SimulatorChanges(o, val)
  PROVE  DelegateInv'
  <1>1. memory' \in [Offset -> Value]
    BY StoredIsValue DEF SimulatorChanges, DelegateInv, TypeOKDelegate
  <1> QED BY <1>1, MemoryInv DEF SimulatorChanges

LEMMA CheckForUpdatesInv ==
  ASSUME DelegateInv, CheckForUpdates
  PROVE  DelegateInv'
  <1>1. \A x \in subs : x \in Subscription /\ OffsetOf[x.var] \in observed
                        /\ OffsetOf[x.var] \in Offset
    BY DEF DelegateInv, TypeOKDelegate, ObservedAsSubscribed
  <1>2. \A x \in Notified :
           (CHOOSE y \in Notified : y.id = x.id) = x
    BY DEF DelegateInv, IdsAreUnique, Notified
  <1>3. TypeOKDelegate'
    <2>1. cached' \in [Offset -> Value \cup {NoValue}]
      BY DEF CheckForUpdates, DelegateInv, TypeOKDelegate
    <2>2. told' \in [Id -> Value \cup {NoValue}]
      <3> SUFFICES ASSUME NEW i \in Id PROVE told'[i] \in Value \cup {NoValue}
        BY DEF CheckForUpdates
      <3>1. CASE \E x \in Notified : x.id = i
        <4>1. PICK x \in Notified : x.id = i
          BY <3>1
        <4>2. told'[i] = memory[OffsetOf[x.var]]
          BY <4>1, <1>2 DEF CheckForUpdates
        <4>3. x \in subs
          BY DEF Notified
        <4> QED BY <4>2, <4>3, <1>1 DEF DelegateInv, TypeOKDelegate
      <3>2. CASE ~\E x \in Notified : x.id = i
        BY <3>2 DEF CheckForUpdates, DelegateInv, TypeOKDelegate
      <3> QED BY <3>1, <3>2
    <2> QED BY <2>1, <2>2 DEF CheckForUpdates, DelegateInv, TypeOKDelegate
  <1>4. ObservedAsSubscribed' /\ IdsAreUnique' /\ CoreIdsKnown'
    BY DEF CheckForUpdates, DelegateInv, ObservedAsSubscribed, IdsAreUnique,
           CoreIdsKnown
  <1>5. CachedWhenCompared'
    <2> SUFFICES ASSUME NEW o \in observed PROVE cached'[o] # NoValue
      BY DEF CheckForUpdates, CachedWhenCompared
    <2>1. o \in Offset /\ memory[o] # NoValue
      BY DelegateAssumption DEF DelegateInv, TypeOKDelegate
    <2>2. o \notin Due => o \notin pending
      BY DEF Due
    <2> QED BY <2>1, <2>2
            DEF CheckForUpdates, DelegateInv, CachedWhenCompared
  <1>6. NoStaleSubscriber'
    <2> SUFFICES ASSUME NEW x \in subs
                 PROVE  told'[x.id] = cached'[OffsetOf[x.var]]
      BY DEF CheckForUpdates, NoStaleSubscriber
    <2> DEFINE o == OffsetOf[x.var]
    <2>0. x.id \in Id /\ o \in Offset /\ o \in observed
      BY <1>1 DEF Subscription
    <2>1. CASE o \in Due
      <3>1. x \in Notified
        BY <2>1 DEF Notified
      <3>2. told'[x.id] = memory[o]
        BY <2>0, <3>1, <1>2 DEF CheckForUpdates
      <3> QED BY <2>0, <2>1, <3>2 DEF CheckForUpdates
    <2>2. CASE o \notin Due
      <3>1. ~\E y \in Notified : y.id = x.id
        BY <2>2 DEF Notified, DelegateInv, IdsAreUnique
      <3>2. told'[x.id] = told[x.id]
        BY <2>0, <3>1 DEF CheckForUpdates
      <3>3. cached'[o] = cached[o]
        BY <2>0, <2>2 DEF CheckForUpdates
      <3>4. o \notin pending
        BY <2>0, <2>2 DEF Due
      <3> QED BY <3>2, <3>3, <3>4 DEF DelegateInv, NoStaleSubscriber
    <2> QED BY <2>1, <2>2
  <1> QED BY <1>3, <1>4, <1>5, <1>6 DEF DelegateInv

LEMMA StutterInv ==
  ASSUME DelegateInv, UNCHANGED delegateVars
  PROVE  DelegateInv'
  BY DEF DelegateInv, TypeOKDelegate, ObservedAsSubscribed, IdsAreUnique,
         CoreIdsKnown, CachedWhenCompared, NoStaleSubscriber, delegateVars

\* The invariant holds in every reachable state.
THEOREM DelegateInvariant == SpecDelegate => []DelegateInv
  <1>1. DelegateInv /\ [NextDelegate]_delegateVars => DelegateInv'
    <2> SUFFICES ASSUME DelegateInv, [NextDelegate]_delegateVars
                 PROVE  DelegateInv'
      OBVIOUS
    <2>1. ASSUME NEW v \in Var, NEW who \in Subscriber, Subscribe(v, who)
          PROVE  DelegateInv'
      BY <2>1, SubscribeInv
    <2>2. ASSUME NEW v \in Var, NEW who \in Subscriber, SubscribeThrows(v, who)
          PROVE  DelegateInv'
      BY <2>2, SubscribeThrowsInv
    <2>3. ASSUME NEW id \in coreIds, Unsubscribe({id})
          PROVE  DelegateInv'
      BY <2>3, UnsubscribeInv
    <2>4. ASSUME NEW id \in Id, NEW val \in Value, Update(id, val)
          PROVE  DelegateInv'
      BY <2>4, UpdateInv
    <2>5. CASE CheckForUpdates
      BY <2>5, CheckForUpdatesInv
    <2>6. ASSUME NEW o \in Offset, NEW val \in Value, SimulatorChanges(o, val)
          PROVE  DelegateInv'
      BY <2>6, SimulatorChangesInv
    <2>7. CASE UNCHANGED delegateVars
      BY <2>7, StutterInv
    <2> QED BY <2>1, <2>2, <2>3, <2>4, <2>5, <2>6, <2>7 DEF NextDelegate
  <1> QED BY <1>1, InitDelegateInv, PTL DEF SpecDelegate

\* Type correctness of the delegate.
THEOREM DelegateTypeCorrect == SpecDelegate => []TypeOKDelegate
  <1>1. DelegateInv => TypeOKDelegate
    BY DEF DelegateInv
  <1> QED BY <1>1, DelegateInvariant, PTL

\* The observer polls exactly the offsets somebody subscribed to.
THEOREM ObservedAsSubscribedAlways == SpecDelegate => []ObservedAsSubscribed
  <1>1. DelegateInv => ObservedAsSubscribed
    BY DEF DelegateInv
  <1> QED BY <1>1, DelegateInvariant, PTL

\* check_for_updates() never compares with a value that is not there.
THEOREM CachedWhenComparedAlways == SpecDelegate => []CachedWhenCompared
  <1>1. DelegateInv => CachedWhenCompared
    BY DEF DelegateInv
  <1> QED BY <1>1, DelegateInvariant, PTL

\* No subscriber misses a change because of another one's subscription.
THEOREM NoStaleSubscriberAlways == SpecDelegate => []NoStaleSubscriber
  <1>1. DelegateInv => NoStaleSubscriber
    BY DEF DelegateInv
  <1> QED BY <1>1, DelegateInvariant, PTL

\* Identifiers name one subscription, and the unsubscribe() calls of a session
\* that is destroyed find each of its subscriptions.
THEOREM IdsKnownAlways == SpecDelegate => [](IdsAreUnique /\ CoreIdsKnown)
  <1>1. DelegateInv => IdsAreUnique /\ CoreIdsKnown
    BY DEF DelegateInv
  <1> QED BY <1>1, DelegateInvariant, PTL
=============================================================================
