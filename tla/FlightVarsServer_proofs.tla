----------------------- MODULE FlightVarsServer_proofs ----------------------
(***************************************************************************)
(* Proofs about FlightVarsServer, for any sessions and variables, however  *)
(* messages are cut and joined and connections end.                        *)
(***************************************************************************)
EXTENDS FlightVarsServer, FsuipcFlightVars_proofs, SequenceTheorems

\* What a client may ask of the identifiers it knows of: they are its own, and
\* no later subscription gets them.
OwnMessage(s) ==
  {m \in ClientMessage :
     m.kind \in {"unsubscribe", "update"} =>
       m.id < nextId /\ \A x \in subs : x.id = m.id => x.to = s}

MessagesAreOwn ==
  \A s \in Session : up[s] \in Seq(OwnMessage(s)) /\ inbuf[s] \in Seq(OwnMessage(s))

UnusedIsEmpty == \A s \in Session : stage[s] = "none" => mapper[s] = {}

\* An identifier nobody has got yet has been told nothing.
FreshIsUntold == \A i \in Id : i >= nextId => told[i] = NoValue

\* Only a failure of FSUIPC makes a subscription the core does not know.
CoreKnowsAll == FsuipcMayFail \/ \A x \in subs : x.id \in coreIds

\* The delegate's invariant is its own; what the tables say of each other needs
\* MessagesAreOwn (a session unsubscribes its own identifiers), and a value on
\* the way FreshIsUntold (a new subscription may find the value of an old one).
Tables == MapperMatchesDelegate /\ FreshIsUntold /\ CoreKnowsAll
ServerInv ==
  /\ DelegateInv
  /\ TypeOK
  /\ MessagesAreOwn
  /\ UnusedIsEmpty
  /\ Tables
  /\ NothingLostOnTheWay
  /\ FsuipcMayFail \/ NoOrphan

LEMMA InitServer == Init => ServerInv
  <1> SUFFICES ASSUME Init PROVE ServerInv
    OBVIOUS
  <1>1. DelegateInv /\ TypeOKDelegate
    BY InitDelegateInv DEF Init, DelegateInv
  <1>2. TypeOK
    BY <1>1, ServerAssumption, DelegateAssumption
    DEF Init, TypeOK, Session, Id, Mapping
  <1>3. MessagesAreOwn /\ UnusedIsEmpty
    BY DEF Init, MessagesAreOwn, UnusedIsEmpty
  <1>4. Tables /\ NoOrphan
    BY DEF Init, InitDelegate, Tables, MapperMatchesDelegate, FreshIsUntold,
           CoreKnowsAll, NoOrphan
  <1>5. NothingLostOnTheWay
    BY DEF Init, NothingLostOnTheWay
  <1> QED BY <1>1, <1>2, <1>3, <1>4, <1>5 DEF ServerInv

\* What is in the set MapperMatchesDelegate compares the mapper with.
Entries(S, C, s) == {[var |-> x.var, id |-> x.id] : x \in {y \in S : y.to = s /\ y.id \in C}}

LEMMA EntryByEntry ==
  ASSUME NEW S \in SUBSET Subscription, NEW C, NEW s, NEW p
  PROVE  p \in Entries(S, C, s) <=>
           p \in Mapping /\ \E x \in S : x.to = s /\ x.id \in C /\ x.var = p.var /\ x.id = p.id
  <1>1. ASSUME p \in Entries(S, C, s)
        PROVE  p \in Mapping /\ \E x \in S : x.to = s /\ x.id \in C /\ x.var = p.var /\ x.id = p.id
    <2>1. PICK x \in S : x.to = s /\ x.id \in C /\ p = [var |-> x.var, id |-> x.id]
      BY <1>1 DEF Entries
    <2>2. x.var \in Var /\ x.id \in Id
      BY DEF Subscription
    <2> QED BY <2>1, <2>2 DEF Mapping
  <1>2. ASSUME p \in Mapping, NEW x \in S, x.to = s, x.id \in C, x.var = p.var, x.id = p.id
        PROVE  p \in Entries(S, C, s)
    <2>1. p = [var |-> x.var, id |-> x.id]
      BY <1>2 DEF Mapping
    <2> QED BY <1>2, <2>1 DEF Entries
  <1> QED BY <1>1, <1>2

\* The identifiers a client has been granted are those of its subscriptions.
LEMMA GrantedIsOwn ==
  ASSUME ServerInv, NEW s \in Session, NEW id \in granted[s]
  PROVE  /\ id < nextId /\ id \in coreIds
         /\ \A x \in subs : x.id = id => x.to = s
  <1>1. PICK p \in mapper[s] : p.id = id
    BY DEF ServerInv, Tables, MapperMatchesDelegate
  <1>2. p \in Entries(subs, coreIds, s)
    BY DEF ServerInv, Tables, MapperMatchesDelegate, Entries
  <1>3. subs \subseteq Subscription
    BY DEF ServerInv, TypeOK, TypeOKDelegate
  <1>4. PICK x \in subs : x.to = s /\ x.id \in coreIds /\ x.id = id
    BY <1>1, <1>2, <1>3, EntryByEntry
  <1> QED BY <1>4 DEF ServerInv, DelegateInv, IdsAreUnique

LEMMA OwnMessagesStay ==
  ASSUME nextId \in Nat, nextId' \in Nat, nextId <= nextId',
         \A x \in subs' : x \in subs \/ x.id = nextId,
         NEW s
  PROVE  OwnMessage(s) \subseteq OwnMessage(s)'
  <1> SUFFICES ASSUME NEW m \in OwnMessage(s)
               PROVE  m \in OwnMessage(s)'
    OBVIOUS
  <1>1. CASE m.kind \in {"unsubscribe", "update"}
    <2>1. m.id \in Nat /\ m.id < nextId
      BY <1>1 DEF OwnMessage, ClientMessage, Id
    <2>2. m.id < nextId' /\ \A x \in subs' : x.id = m.id => x.to = s
      BY <1>1, <2>1 DEF OwnMessage
    <2> QED BY <2>2 DEF OwnMessage
  <1>2. CASE m.kind \notin {"unsubscribe", "update"}
    BY <1>2 DEF OwnMessage
  <1> QED BY <1>1, <1>2

LEMMA MessagesStayOwn ==
  ASSUME MessagesAreOwn,
         \A s \in Session : OwnMessage(s) \subseteq OwnMessage(s)',
         \A s \in Session : up'[s] \in Seq(OwnMessage(s)) /\ inbuf'[s] \in Seq(OwnMessage(s))
  PROVE  MessagesAreOwn'
  BY SeqMonotonic DEF MessagesAreOwn, Session

-----------------------------------------------------------------------------
\* Steps that leave the tables alone.

TypeOKLocal ==
  /\ stage \in [Session -> {"none", "greeting", "reading", "writing", "dropped"}]
  /\ link \in [Session -> {"open", "closed", "reset"}]
  /\ sent \in 0..MaxRequests

\* A session that is not there stays so, or is accepted.
LEMMA QuietInv ==
  ASSUME ServerInv, TypeOKLocal', MessagesAreOwn',
         up' \in [Session -> Seq(ClientMessage)],
         inbuf' \in [Session -> Seq(ClientMessage)],
         UNCHANGED <<delegateVars, mapper, posted, granted, seen>>,
         \A s \in Session : stage'[s] = "none" => stage[s] = "none"
  PROVE  ServerInv'
  <1>1. /\ UNCHANGED <<subs, known, observed, pending, cached, coreIds, nextId,
                       memory, told>>
        /\ UNCHANGED <<mapper, posted, granted, seen>>
    BY DEF delegateVars
  <1>2. DelegateInv' /\ TypeOKDelegate'
    BY StutterInv DEF ServerInv, DelegateInv
  <1>3. TypeOK'
    BY <1>1, <1>2 DEF ServerInv, TypeOK, TypeOKLocal, Session
  <1>4. UnusedIsEmpty'
    BY <1>1 DEF ServerInv, UnusedIsEmpty, Session
  <1>5. Tables'
    BY <1>1 DEF ServerInv, Tables, MapperMatchesDelegate, FreshIsUntold,
                CoreKnowsAll, Session, Id
  <1>6. NothingLostOnTheWay'
    BY <1>1 DEF ServerInv, NothingLostOnTheWay, Session
  <1>7. FsuipcMayFail \/ NoOrphan'
    <2>1. \A x \in subs : x.to \in Session
      BY DEF ServerInv, TypeOK, TypeOKDelegate, Subscription, Session
    <2> QED BY <1>1, <2>1 DEF ServerInv, NoOrphan
  <1> QED
    BY <1>2, <1>3, <1>4, <1>5, <1>6, <1>7 DEF ServerInv

LEMMA OwnIsClientMessage ==
  ASSUME NEW s, NEW q \in Seq(OwnMessage(s))
  PROVE  q \in Seq(ClientMessage)
  <1>1. OwnMessage(s) \subseteq ClientMessage
    BY DEF OwnMessage
  <1> QED BY <1>1, SeqMonotonic

\* What messages and buffers become when a step cuts or adds to those of s.
LEMMA QueuesChange ==
  ASSUME ServerInv, NEW s \in Session, NEW u, NEW b,
         up' \in {up, [up EXCEPT ![s] = u]}, u \in Seq(OwnMessage(s)),
         inbuf' \in {inbuf, [inbuf EXCEPT ![s] = b]}, b \in Seq(OwnMessage(s))
  PROVE  /\ \A t \in Session :
               up'[t] \in Seq(OwnMessage(t)) /\ inbuf'[t] \in Seq(OwnMessage(t))
         /\ up' \in [Session -> Seq(ClientMessage)]
         /\ inbuf' \in [Session -> Seq(ClientMessage)]
  <1>1. u \in Seq(ClientMessage) /\ b \in Seq(ClientMessage)
    BY OwnIsClientMessage
  <1>2. up \in [Session -> Seq(ClientMessage)] /\ inbuf \in [Session -> Seq(ClientMessage)]
    BY DEF ServerInv, TypeOK
  <1> QED BY <1>1, <1>2 DEF ServerInv, MessagesAreOwn

\* What is received and what stays are parts of the messages on their way.
LEMMA ReceivedIsOwn ==
  ASSUME ServerInv, NEW s \in Session, NEW n \in 0..MaxBurst,
         Receives(s, n)
  PROVE  /\ up' = [up EXCEPT ![s] = SubSeq(@, n + 1, Len(@))]
         /\ SubSeq(up[s], n + 1, Len(up[s])) \in Seq(OwnMessage(s))
         /\ Received(s, n) \in Seq(OwnMessage(s))
  <1>1. up[s] \in Seq(OwnMessage(s)) /\ inbuf[s] \in Seq(OwnMessage(s))
    BY DEF ServerInv, MessagesAreOwn
  <1>2. n \in Nat /\ n <= Len(up[s]) /\ Len(up[s]) \in Nat
    BY <1>1, ServerAssumption DEF Receives
  <1>3. \A i \in 1..Len(up[s]) : up[s][i] \in OwnMessage(s)
    BY <1>1, ElementOfSeq
  <1>4. SubSeq(up[s], n + 1, Len(up[s])) \in Seq(OwnMessage(s))
    <2>1. \A i \in (n + 1)..Len(up[s]) : up[s][i] \in OwnMessage(s)
      BY <1>2, <1>3
    <2>2. n + 1 \in Int /\ Len(up[s]) \in Int
      BY <1>2
    <2> QED BY <2>1, <2>2, SubSeqProperties
  <1>5. SubSeq(up[s], 1, n) \in Seq(OwnMessage(s))
    <2>1. \A i \in 1..n : up[s][i] \in OwnMessage(s)
      BY <1>2, <1>3
    <2>2. 1 \in Int /\ n \in Int
      BY <1>2
    <2> QED BY <2>1, <2>2, SubSeqProperties
  <1>6. Received(s, n) \in Seq(OwnMessage(s))
    BY <1>1, <1>5, ConcatProperties DEF Received
  <1> QED BY <1>4, <1>6 DEF Receives

LEMMA AcceptInv ==
  ASSUME ServerInv, NEW s \in Session, Accept(s)
  PROVE  ServerInv'
  <1>1. TypeOKLocal'
    BY DEF Accept, ServerInv, TypeOK, TypeOKLocal, Session
  <1>2. UNCHANGED <<up, inbuf, subs, nextId>>
    BY DEF Accept, delegateVars
  <1>3. MessagesAreOwn'
    BY <1>2 DEF ServerInv, MessagesAreOwn, OwnMessage, ClientMessage, Session, Id, Value
  <1>4. \A t \in Session : stage'[t] = "none" => stage[t] = "none"
    BY DEF Accept, ServerInv, TypeOK
  <1> QED
    BY <1>1, <1>2, <1>3, <1>4, QuietInv DEF Accept, ServerInv, TypeOK

\* Messages that are whole and the state of a session are all that changes.
LEMMA LocalInv ==
  ASSUME ServerInv, NEW s \in Session, NEW u, NEW b, TypeOKLocal',
         up' \in {up, [up EXCEPT ![s] = u]}, u \in Seq(OwnMessage(s)),
         inbuf' \in {inbuf, [inbuf EXCEPT ![s] = b]}, b \in Seq(OwnMessage(s)),
         UNCHANGED <<delegateVars, mapper, posted, granted, seen>>,
         \A t \in Session : stage'[t] = "none" => stage[t] = "none"
  PROVE  ServerInv'
  <1>1. UNCHANGED <<subs, nextId>>
    BY DEF delegateVars
  <1>2. \A t \in Session : OwnMessage(t)' = OwnMessage(t)
    BY <1>1 DEF OwnMessage, ClientMessage, Id, Value
  <1>3. /\ \A t \in Session :
             up'[t] \in Seq(OwnMessage(t)) /\ inbuf'[t] \in Seq(OwnMessage(t))
        /\ up' \in [Session -> Seq(ClientMessage)]
        /\ inbuf' \in [Session -> Seq(ClientMessage)]
    BY QueuesChange
  <1>4. MessagesAreOwn'
    BY <1>2, <1>3 DEF MessagesAreOwn, Session
  <1> QED BY <1>3, <1>4, QuietInv

LEMMA ClientSendsInv ==
  ASSUME ServerInv, NEW s \in Session, ClientSends(s)
  PROVE  ServerInv'
  <1>1. PICK m : up' = [up EXCEPT ![s] = Append(@, m)] /\
                 (m \in Requests(s) \/ \E k \in {"begin", "end"} : m = [kind |-> k])
    BY DEF ClientSends
  <1>2. m \in OwnMessage(s)
    <2>1. CASE m \in Requests(s)
      <3>1. granted[s] \subseteq Id
        BY DEF ServerInv, TypeOK
      <3>2. m \in ClientMessage
        BY <2>1, <3>1 DEF Requests, ClientMessage
      <3>3. ASSUME m.kind \in {"unsubscribe", "update"}
            PROVE  m.id < nextId /\ \A x \in subs : x.id = m.id => x.to = s
        <4>1. m.id \in granted[s]
          BY <2>1, <3>3 DEF Requests
        <4> QED BY <4>1, GrantedIsOwn
      <3> QED BY <3>2, <3>3 DEF OwnMessage
    <2>2. CASE \E k \in {"begin", "end"} : m = [kind |-> k]
      BY <2>2 DEF OwnMessage, ClientMessage
    <2> QED BY <1>1, <2>1, <2>2
  <1>3. /\ Append(up[s], m) \in Seq(OwnMessage(s))
        /\ up' = [up EXCEPT ![s] = Append(up[s], m)]
        /\ inbuf[s] \in Seq(OwnMessage(s))
    BY <1>1, <1>2 DEF ServerInv, MessagesAreOwn
  <1>4. TypeOKLocal'
    BY ServerAssumption DEF ClientSends, ServerInv, TypeOK, TypeOKLocal, Session
  <1> QED BY <1>3, <1>4, LocalInv DEF ClientSends

LEMMA ClientLeavesInv ==
  ASSUME ServerInv, NEW s \in Session, ClientLeaves(s)
  PROVE  ServerInv'
  <1>1. TypeOKLocal'
    BY DEF ClientLeaves, ServerInv, TypeOK, TypeOKLocal, Session
  <1>2. up' \in {up, [up EXCEPT ![s] = <<>>]} /\ <<>> \in Seq(OwnMessage(s))
    BY EmptySeq DEF ClientLeaves
  <1> QED BY <1>1, <1>2, LocalInv DEF ClientLeaves

\* A session goes from one stage to another, or stays where it is.
LEMMA StageInv ==
  ASSUME ServerInv, NEW s \in Session,
         \/ UNCHANGED stage
         \/ \E to \in {"reading", "writing", "dropped"} : Goes(s, to),
         UNCHANGED <<delegateVars, link, up, inbuf, mapper, posted,
                     granted, seen, sent>>
  PROVE  ServerInv'
  <1>1. TypeOKLocal' /\ \A t \in Session : stage'[t] = "none" => stage[t] = "none"
    BY DEF Goes, ServerInv, TypeOK, TypeOKLocal, Session
  <1>2. <<>> \in Seq(OwnMessage(s))
    BY EmptySeq
  <1> QED BY <1>1, <1>2, LocalInv

LEMMA OnReadBeginSessionInv ==
  ASSUME ServerInv, NEW s \in Session, NEW n \in 0..MaxBurst,
         OnReadBeginSession(s, n)
  PROVE  ServerInv'
  <1>1. /\ up' = [up EXCEPT ![s] = SubSeq(up[s], n + 1, Len(up[s]))]
        /\ SubSeq(up[s], n + 1, Len(up[s])) \in Seq(OwnMessage(s))
        /\ Received(s, n) \in Seq(OwnMessage(s))
    BY ReceivedIsOwn DEF OnReadBeginSession
  <1>2. CASE ReadAgain(s, n)
    <2>1. TypeOKLocal'
      BY <1>1, <1>2
      DEF OnReadBeginSession, ReadAgain, ServerInv, TypeOK, TypeOKLocal, Session
    <2> QED BY <1>1, <1>2, <2>1, LocalInv DEF OnReadBeginSession, ReadAgain
  <1>3. CASE /\ Unmarshall(s, n)
             /\ Goes(s, IF Head(Received(s, n)).kind = "begin" THEN "writing"
                        ELSE "dropped")
    <2>1. Tail(Received(s, n)) \in Seq(OwnMessage(s))
      BY <1>1, <1>3, HeadTailProperties DEF Unmarshall
    <2>2. /\ TypeOKLocal'
          /\ \A t \in Session : stage'[t] = "none" => stage[t] = "none"
      BY <1>1, <1>3
      DEF OnReadBeginSession, Goes, ServerInv, TypeOK, TypeOKLocal, Session
    <2> QED
      BY <1>1, <1>3, <2>1, <2>2, LocalInv DEF OnReadBeginSession, Unmarshall
  <1> QED BY <1>2, <1>3 DEF OnReadBeginSession

-----------------------------------------------------------------------------
\* Steps that change the tables.

\* The rest of a step of s, given what it does to the tables.
LEMMA TableStep ==
  ASSUME ServerInv, NEW s \in Session, NEW u, NEW b, TypeOKLocal',
         up' \in {up, [up EXCEPT ![s] = u]}, u \in Seq(OwnMessage(s)),
         inbuf' \in {inbuf, [inbuf EXCEPT ![s] = b]}, b \in Seq(OwnMessage(s)),
         DelegateInv', Tables', NothingLostOnTheWay',
         nextId <= nextId', \A x \in subs' : x \in subs \/ x.id = nextId,
         mapper' \in [Session -> SUBSET Mapping],
         posted' \in [Session -> [Var -> Seq(Value)]],
         granted' \in [Session -> SUBSET Id],
         seen' \in [Session -> [Id -> Value \cup {NoValue}]],
         \A t \in Session : stage'[t] = "none" => mapper'[t] = {},
         FsuipcMayFail \/ \A x \in subs' : stage'[x.to] # "none"
  PROVE  ServerInv'
  <1>1. nextId \in Nat /\ nextId' \in Nat
    BY DelegateAssumption DEF ServerInv, DelegateInv, TypeOKDelegate
  <1>2. \A t \in Session : OwnMessage(t) \subseteq OwnMessage(t)'
    BY <1>1, OwnMessagesStay
  <1>3. /\ \A t \in Session :
             up'[t] \in Seq(OwnMessage(t)) /\ inbuf'[t] \in Seq(OwnMessage(t))
        /\ up' \in [Session -> Seq(ClientMessage)]
        /\ inbuf' \in [Session -> Seq(ClientMessage)]
    BY QueuesChange
  <1>4. MessagesAreOwn'
    BY <1>2, <1>3, MessagesStayOwn DEF ServerInv
  <1>5. TypeOK'
    BY <1>3 DEF TypeOK, TypeOKLocal, DelegateInv, Session, ClientMessage, Id,
                Value, Mapping
  <1>6. UnusedIsEmpty' /\ (FsuipcMayFail \/ NoOrphan')
    BY DEF UnusedIsEmpty, NoOrphan, Session
  <1> QED BY <1>4, <1>5, <1>6 DEF ServerInv

\* What a handler of s leaves of the tables: only its own change, and a value
\* told is still told under the same entry.
TablesFollow(s) ==
  /\ DelegateInv' /\ Tables'
  /\ nextId <= nextId'
  /\ \A x \in subs' : x \in subs \/ (x.id = nextId /\ x.to = s)
  /\ mapper' \in [Session -> SUBSET Mapping]
  /\ granted' \in [Session -> SUBSET Id]
  /\ \A t \in Session \ {s} : mapper'[t] = mapper[t]
  /\ \A t \in Session : \A p \in mapper'[t] :
       told'[p.id] = NoValue \/ (p \in mapper[t] /\ told'[p.id] = told[p.id])

\* A subscription of s, which succeeds.
LEMMA SubscribedTables ==
  ASSUME ServerInv, NEW s \in Session, NEW v \in Var, Subscribe(v, s),
         ~SubscriptionExists(s, v), RegisterSubscription(s, v, nextId),
         granted' = [granted EXCEPT ![s] = @ \cup {nextId}]
  PROVE  TablesFollow(s)
  <1> DEFINE new == [id |-> nextId, var |-> v, to |-> s]
             entry == [var |-> v, id |-> nextId]
  <1>1. /\ nextId \in Id /\ nextId' = nextId + 1
        /\ subs' = subs \cup {new} /\ new \in Subscription
        /\ coreIds' = coreIds \cup {nextId}
        /\ told' = told
    BY DelegateAssumption
    DEF Subscribe, Register, Id, ServerInv, TypeOK, TypeOKDelegate, Session,
        Subscription
  <1>2. DelegateInv'
    BY SubscribeInv DEF ServerInv, Session
  <1>3. /\ mapper' = [mapper EXCEPT ![s] = @ \cup {entry}]
        /\ entry \in Mapping
        /\ mapper' \in [Session -> SUBSET Mapping]
        /\ granted' \in [Session -> SUBSET Id]
    BY <1>1 DEF RegisterSubscription, Mapping, ServerInv, TypeOK
  <1>4. /\ subs \subseteq Subscription /\ subs' \subseteq Subscription
        /\ \A x \in subs : x.id < nextId /\ x.id \in Nat
    BY <1>1, DelegateAssumption
    DEF ServerInv, TypeOK, TypeOKDelegate, DelegateInv, IdsAreUnique,
        Subscription, Id
  <1>5. told[nextId] = NoValue
    BY <1>1 DEF ServerInv, Tables, FreshIsUntold, Id
  <1>6. ASSUME NEW t \in Session
        PROVE  Entries(subs', coreIds', t) = mapper'[t]
    <2>1. Entries(subs, coreIds, t) = mapper[t]
      BY DEF ServerInv, Tables, MapperMatchesDelegate, Entries
    <2>2. ASSUME NEW p \in Mapping, NEW x \in subs'
          PROVE  (x.to = t /\ x.id \in coreIds' /\ x.var = p.var /\ x.id = p.id) <=>
                   \/ x \in subs /\ x.to = t /\ x.id \in coreIds /\ x.var = p.var /\ x.id = p.id
                   \/ x = new /\ t = s /\ p = entry
      <3>1. x = new => ((x.var = p.var /\ x.id = p.id) <=> p = entry)
        BY DEF Mapping
      <3>2. nextId \in Nat
        BY <1>1 DEF Id
      <3>3. CASE x = new
        <4>1. x \notin subs
          BY <1>4, <3>2, <3>3
        <4> QED BY <1>1, <3>1, <3>3, <4>1
      <3>4. CASE x # new
        <4>1. x \in subs /\ x.id # nextId
          BY <1>1, <1>4, <3>2, <3>4
        <4> QED BY <1>1, <3>4, <4>1
      <3> QED BY <3>3, <3>4
    <2>3. ASSUME NEW p
          PROVE  p \in Entries(subs', coreIds', t) <=>
                   p \in Entries(subs, coreIds, t) \/ (t = s /\ p = entry)
      <3>1. p \in Entries(subs', coreIds', t) <=>
              p \in Mapping /\ \E x \in subs' : x.to = t /\ x.id \in coreIds' /\ x.var = p.var /\ x.id = p.id
        BY <1>4, EntryByEntry
      <3>2. p \in Entries(subs, coreIds, t) <=>
              p \in Mapping /\ \E x \in subs : x.to = t /\ x.id \in coreIds /\ x.var = p.var /\ x.id = p.id
        BY <1>4, EntryByEntry
      <3>3. new \in subs' /\ \A x \in subs : x \in subs'
        BY <1>1
      <3>4. entry \in Mapping
        BY <1>3
      <3> HIDE DEF new, entry
      <3> QED BY <2>2, <3>1, <3>2, <3>3, <3>4
    <2>4. mapper'[t] = IF t = s THEN mapper[t] \cup {entry} ELSE mapper[t]
      BY <1>3 DEF ServerInv, TypeOK
    <2> HIDE DEF entry
    <2>5. \A p : p \in Entries(subs', coreIds', t) <=> p \in mapper'[t]
      BY <2>1, <2>3, <2>4
    <2> QED BY <2>5
  <1>7. ASSUME NEW t \in Session
        PROVE  /\ granted'[t] = {p.id : p \in mapper'[t]}
               /\ \A p, q \in mapper'[t] : p.var = q.var => p = q
    <2>1. /\ granted[t] = {p.id : p \in mapper[t]}
          /\ \A p, q \in mapper[t] : p.var = q.var => p = q
      BY DEF ServerInv, Tables, MapperMatchesDelegate
    <2>2. CASE t = s
      <3>1. mapper'[t] = mapper[t] \cup {entry} /\ granted'[t] = granted[t] \cup {nextId}
        BY <1>3, <2>2 DEF ServerInv, TypeOK
      <3>2. \A p \in mapper[t] : p.var # v
        BY <2>2 DEF SubscriptionExists
      <3>3. entry.var = v /\ entry.id = nextId
        OBVIOUS
      <3> HIDE DEF entry
      <3>4. granted'[t] = {p.id : p \in mapper'[t]}
        BY <2>1, <3>1, <3>3
      <3>5. ASSUME NEW p \in mapper'[t], NEW q \in mapper'[t], p.var = q.var
            PROVE  p = q
        BY <2>1, <3>1, <3>2, <3>3, <3>5
      <3> QED BY <3>4, <3>5
    <2>3. CASE t # s
      <3>1. mapper'[t] = mapper[t] /\ granted'[t] = granted[t]
        BY <1>3, <2>3 DEF ServerInv, TypeOK
      <3> QED BY <2>1, <3>1
    <2> QED BY <2>2, <2>3
  <1>8. MapperMatchesDelegate'
    BY <1>6, <1>7 DEF MapperMatchesDelegate, Entries, Session
  <1>9. FreshIsUntold' /\ CoreKnowsAll'
    <2>1. FreshIsUntold /\ CoreKnowsAll
      BY DEF ServerInv, Tables
    <2>2. FreshIsUntold'
      BY <1>1, <2>1 DEF FreshIsUntold, Id
    <2> QED BY <1>1, <2>1, <2>2 DEF CoreKnowsAll
  <1>10. ASSUME NEW t \in Session, NEW p \in mapper'[t]
         PROVE  told'[p.id] = NoValue \/ (p \in mapper[t] /\ told'[p.id] = told[p.id])
    BY <1>1, <1>3, <1>5 DEF ServerInv, TypeOK
  <1>11. nextId <= nextId'
    BY <1>1 DEF Id
  <1> QED
    BY <1>1, <1>2, <1>3, <1>8, <1>9, <1>10, <1>11
    DEF Tables, ServerInv, TypeOK, TablesFollow

\* The mapper has an entry where the delegate has one.
LEMMA MapperIsEntries ==
  ASSUME ServerInv, NEW s \in Session
  PROVE  /\ mapper[s] = Entries(subs, coreIds, s)
         /\ mapper[s] \subseteq Mapping
         /\ granted[s] = {p.id : p \in mapper[s]}
         /\ \A p, q \in mapper[s] : p.var = q.var => p = q
         /\ \A p : p \in mapper[s] <=>
              p \in Mapping /\ \E x \in subs : x.to = s /\ x.id \in coreIds
                                            /\ x.var = p.var /\ x.id = p.id
  <1>1. mapper[s] = Entries(subs, coreIds, s)
    BY DEF ServerInv, Tables, MapperMatchesDelegate, Entries
  <1>2. subs \in SUBSET Subscription /\ mapper[s] \subseteq Mapping
    BY DEF ServerInv, TypeOK, TypeOKDelegate
  <1>3. /\ granted[s] = {p.id : p \in mapper[s]}
        /\ \A p, q \in mapper[s] : p.var = q.var => p = q
    BY DEF ServerInv, Tables, MapperMatchesDelegate
  <1>4. ASSUME NEW p
        PROVE  p \in mapper[s] <=>
                 p \in Mapping /\ \E x \in subs : x.to = s /\ x.id \in coreIds
                                               /\ x.var = p.var /\ x.id = p.id
    BY <1>1, <1>2, EntryByEntry
  <1> QED BY <1>1, <1>2, <1>3, <1>4

\* A step that changes no list of subscriptions.
LEMMA SameTables ==
  ASSUME ServerInv, NEW s \in Session, DelegateInv',
         UNCHANGED <<subs, coreIds, nextId, told, mapper, granted>>
  PROVE  TablesFollow(s)
  <1>1. Tables'
    BY DEF ServerInv, Tables, MapperMatchesDelegate, FreshIsUntold,
           CoreKnowsAll, Session, Id
  <1>2. nextId \in Nat
    BY DelegateAssumption DEF ServerInv, TypeOK, TypeOKDelegate
  <1> QED BY <1>1, <1>2 DEF TablesFollow, ServerInv, TypeOK

\* A subscription of s, which fails: the core does not know what it leaves.
LEMMA SubscribeFailedTables ==
  ASSUME ServerInv, NEW s \in Session, NEW v \in Var, SubscribeThrows(v, s),
         UNCHANGED <<mapper, granted>>
  PROVE  TablesFollow(s)
  <1> DEFINE new == [id |-> nextId, var |-> v, to |-> s]
  <1>1. /\ nextId \in Id /\ nextId' = nextId + 1 /\ nextId \in Nat
        /\ subs' = subs \cup {new} /\ new \in Subscription
        /\ coreIds' = coreIds /\ told' = told /\ FsuipcMayFail
    BY DelegateAssumption
    DEF SubscribeThrows, Register, Id, ServerInv, TypeOK, TypeOKDelegate,
        Session, Subscription
  <1>2. DelegateInv'
    BY SubscribeThrowsInv DEF ServerInv, Session
  <1>3. nextId \notin coreIds
    BY <1>1 DEF ServerInv, DelegateInv, CoreIdsKnown, IdsAreUnique
  <1>4. new.id = nextId /\ new.to = s
    OBVIOUS
  <1> HIDE DEF new
  <1>5. ASSUME NEW t \in Session
        PROVE  mapper'[t] = Entries(subs', coreIds', t)
    <2>1. subs' \in SUBSET Subscription
      BY <1>1 DEF ServerInv, TypeOK, TypeOKDelegate
    <2>2. ASSUME NEW p
          PROVE  p \in Entries(subs', coreIds', t) <=> p \in mapper[t]
      <3>1. p \in Entries(subs', coreIds', t) <=>
              p \in Mapping /\ \E x \in subs' : x.to = t /\ x.id \in coreIds' /\ x.var = p.var /\ x.id = p.id
        BY <2>1, EntryByEntry
      <3>2. p \in mapper[t] <=>
              p \in Mapping /\ \E x \in subs : x.to = t /\ x.id \in coreIds
                                            /\ x.var = p.var /\ x.id = p.id
        BY MapperIsEntries
      <3> QED BY <1>1, <1>3, <1>4, <3>1, <3>2
    <2> QED BY <2>2
  <1>6. MapperMatchesDelegate'
    BY <1>5, MapperIsEntries DEF MapperMatchesDelegate, Entries, Session
  <1>7. FreshIsUntold' /\ CoreKnowsAll'
    BY <1>1 DEF ServerInv, Tables, FreshIsUntold, CoreKnowsAll, Id
  <1>8. nextId <= nextId' /\ \A x \in subs' : x \in subs \/ (x.id = nextId /\ x.to = s)
    BY <1>1, <1>4
  <1> QED
    BY <1>1, <1>2, <1>6, <1>7, <1>8 DEF TablesFollow, Tables, ServerInv, TypeOK

\* Some subscriptions of s are unsubscribed.
LEMMA UnsubscribedTables ==
  ASSUME ServerInv, NEW s \in Session, NEW ids \in SUBSET granted[s],
         Unsubscribe(ids),
         mapper' = [mapper EXCEPT ![s] = {p \in @ : p.id \notin ids}],
         granted' = [granted EXCEPT ![s] = @ \ ids]
  PROVE  TablesFollow(s)
  <1>1. /\ subs' = {x \in subs : x.id \notin ids}
        /\ coreIds' = coreIds \ ids /\ nextId' = nextId
        /\ told' = [i \in Id |-> IF i \in ids THEN NoValue ELSE told[i]]
    BY DEF Unsubscribe
  <1>2. DelegateInv'
    BY UnsubscribeInv DEF ServerInv
  <1>3. subs' \in SUBSET Subscription
    BY <1>1 DEF ServerInv, TypeOK, TypeOKDelegate
  <1>4. /\ mapper' \in [Session -> SUBSET Mapping]
        /\ granted' \in [Session -> SUBSET Id]
        /\ \A t \in Session \ {s} : mapper'[t] = mapper[t] /\ granted'[t] = granted[t]
        /\ mapper'[s] = {p \in mapper[s] : p.id \notin ids}
        /\ granted'[s] = granted[s] \ ids
    BY DEF ServerInv, TypeOK
  <1>5. ASSUME NEW t \in Session
        PROVE  /\ \A p : p \in mapper'[t] <=> p \in mapper[t] /\ p.id \notin ids
               /\ granted'[t] = {p.id : p \in mapper'[t]}
    <2>1. CASE t = s
      BY <1>4, <2>1, MapperIsEntries
    <2>2. CASE t # s
      <3>1. ASSUME NEW p \in mapper[t]
            PROVE  p.id \notin ids
        <4>1. PICK x \in subs : x.to = t /\ x.id = p.id
          BY MapperIsEntries
        <4> QED BY <2>2, <4>1, GrantedIsOwn
      <3> QED BY <1>4, <2>2, <3>1, MapperIsEntries
    <2> QED BY <2>1, <2>2
  <1>6. ASSUME NEW t \in Session
        PROVE  mapper'[t] = Entries(subs', coreIds', t)
    <2>1. ASSUME NEW p
          PROVE  p \in Entries(subs', coreIds', t) <=> p \in mapper'[t]
      <3>1. p \in Entries(subs', coreIds', t) <=>
              p \in Mapping /\ \E x \in subs' : x.to = t /\ x.id \in coreIds' /\ x.var = p.var /\ x.id = p.id
        BY <1>3, EntryByEntry
      <3>2. p \in mapper[t] <=>
              p \in Mapping /\ \E x \in subs : x.to = t /\ x.id \in coreIds
                                            /\ x.var = p.var /\ x.id = p.id
        BY MapperIsEntries
      <3> QED BY <1>1, <1>5, <3>1, <3>2
    <2> QED BY <2>1
  <1>7. ASSUME NEW t \in Session, NEW p \in mapper'[t], NEW q \in mapper'[t],
               p.var = q.var
        PROVE  p = q
    BY <1>5, <1>7, MapperIsEntries
  <1>8. MapperMatchesDelegate'
    BY <1>5, <1>6, <1>7 DEF MapperMatchesDelegate, Entries, Session
  <1>9. FreshIsUntold' /\ CoreKnowsAll'
    BY <1>1 DEF ServerInv, Tables, FreshIsUntold, CoreKnowsAll, Id
  <1>10. ASSUME NEW t \in Session, NEW p \in mapper'[t]
         PROVE  p \in mapper[t] /\ told'[p.id] = told[p.id]
    <2>1. p \in mapper[t] /\ p.id \notin ids /\ p.id \in Id
      BY <1>5, MapperIsEntries DEF Mapping
    <2> QED BY <1>1, <2>1
  <1>11. nextId <= nextId'
    BY <1>1, DelegateAssumption DEF ServerInv, TypeOK, TypeOKDelegate
  <1> QED
    BY <1>1, <1>2, <1>4, <1>8, <1>9, <1>10, <1>11 DEF TablesFollow, Tables

-----------------------------------------------------------------------------
\* The handlers of the requests.

LEMMA SubscriptionHandled ==
  ASSUME ServerInv, NEW s \in Session, NEW v \in Var,
         HandleSubscriptionRequest(s, v)
  PROVE  TablesFollow(s) /\ \E to \in {"writing", "dropped"} : Goes(s, to)
  <1>1. ASSUME Goes(s, "writing"), UNCHANGED <<delegateVars, mapper, granted>>
        PROVE  TablesFollow(s)
    BY <1>1, StutterInv, SameTables DEF delegateVars, ServerInv
  <1>2. CASE /\ ~SubscriptionExists(s, v)
             /\ Subscribe(v, s)
             /\ RegisterSubscription(s, v, nextId)
             /\ granted' = [granted EXCEPT ![s] = @ \cup {nextId}]
             /\ Goes(s, "writing")
    BY <1>2, SubscribedTables
  <1>3. CASE /\ SubscribeThrows(v, s)
             /\ Goes(s, "dropped")
             /\ UNCHANGED <<mapper, granted>>
    BY <1>3, SubscribeFailedTables
  <1> QED BY <1>1, <1>2, <1>3 DEF HandleSubscriptionRequest

LEMMA UnsubscriptionHandled ==
  ASSUME ServerInv, NEW s \in Session, NEW id \in Id,
         \A x \in subs : x.id = id => x.to = s,
         HandleUnsubscriptionRequest(s, id)
  PROVE  TablesFollow(s)
  <1>1. CASE /\ id \in coreIds
             /\ Unsubscribe({id})
             /\ UnregisterSubscription(s, id)
             /\ granted' = [granted EXCEPT ![s] = @ \ {id}]
    <2>1. PICK x \in subs : x.id = id
      BY <1>1 DEF ServerInv, DelegateInv, CoreIdsKnown
    <2>2. x.to = s /\ x.var \in Var
      BY <2>1 DEF ServerInv, TypeOK, TypeOKDelegate, Subscription
    <2> DEFINE p == [var |-> x.var, id |-> id]
    <2>3. p \in Mapping /\ p.var = x.var /\ p.id = id
      BY <2>2 DEF Mapping
    <2> HIDE DEF p
    <2>4. p \in mapper[s]
      BY <1>1, <2>1, <2>2, <2>3, MapperIsEntries
    <2>5. id \in granted[s]
      BY <2>3, <2>4, MapperIsEntries
    <2>6. mapper' = [mapper EXCEPT ![s] = {q \in @ : q.id \notin {id}}]
      BY <1>1 DEF UnregisterSubscription, ServerInv, TypeOK
    <2> QED BY <1>1, <2>5, <2>6, UnsubscribedTables
  <1>2. CASE UNCHANGED <<delegateVars, mapper, granted>>
    BY <1>2, StutterInv, SameTables DEF delegateVars, ServerInv
  <1> QED BY <1>1, <1>2 DEF HandleUnsubscriptionRequest

LEMMA VarUpdateHandled ==
  ASSUME ServerInv, NEW s \in Session, NEW id \in Id, NEW val \in Value,
         HandleVarUpdateRequest(s, id, val)
  PROVE  TablesFollow(s) /\ (UNCHANGED stage \/ Goes(s, "dropped"))
  <1>1. UNCHANGED <<mapper, granted>> /\ (UNCHANGED stage \/ Goes(s, "dropped"))
    BY DEF HandleVarUpdateRequest
  <1>2. CASE Update(id, val)
    BY <1>1, <1>2, UpdateInv, SameTables DEF Update, ServerInv
  <1>3. CASE UNCHANGED delegateVars
    BY <1>1, <1>3, StutterInv, SameTables DEF delegateVars, ServerInv
  <1> QED BY <1>1, <1>2, <1>3 DEF HandleVarUpdateRequest

LEMMA HandledInv ==
  ASSUME ServerInv, NEW s \in Session, NEW m \in OwnMessage(s), Handle(s, m)
  PROVE  TablesFollow(s) /\ (UNCHANGED stage \/ \E to \in {"writing", "dropped"} : Goes(s, to))
  <1>0. m \in ClientMessage
    BY DEF OwnMessage
  <1>1. CASE m.kind = "subscribe" /\ HandleSubscriptionRequest(s, m.var)
    <2>1. m.var \in Var
      BY <1>0, <1>1 DEF ClientMessage
    <2> QED BY <1>1, <2>1, SubscriptionHandled
  <1>2. CASE m.kind = "unsubscribe" /\ HandleUnsubscriptionRequest(s, m.id)
    <2>1. m.id \in Id
      BY <1>0, <1>2 DEF ClientMessage
    <2>2. \A x \in subs : x.id = m.id => x.to = s
      BY <1>2 DEF OwnMessage
    <2>3. Goes(s, "writing")
      BY <1>2 DEF HandleUnsubscriptionRequest
    <2> QED BY <1>2, <2>1, <2>2, <2>3, UnsubscriptionHandled
  <1>3. CASE m.kind = "update" /\ HandleVarUpdateRequest(s, m.id, m.val)
    <2>1. m.id \in Id /\ m.val \in Value
      BY <1>0, <1>3 DEF ClientMessage
    <2> QED BY <1>3, <2>1, VarUpdateHandled
  <1>4. CASE Goes(s, "dropped") /\ UNCHANGED <<delegateVars, mapper, granted>>
    BY <1>4, StutterInv, SameTables DEF delegateVars, ServerInv
  <1> QED BY <1>1, <1>2, <1>3, <1>4 DEF Handle

\* A handler posts and sends no update, so what is told is still on its way.
LEMMA NothingLostByHandler ==
  ASSUME ServerInv, NEW s \in Session, TablesFollow(s), UNCHANGED posted,
         seen' = [seen EXCEPT ![s] = [i \in Id |-> IF i \in granted'[s] THEN @[i]
                                                  ELSE NoValue]]
  PROVE  /\ NothingLostOnTheWay'
         /\ seen' \in [Session -> [Id -> Value \cup {NoValue}]]
  <1>1. seen \in [Session -> [Id -> Value \cup {NoValue}]]
    BY DEF ServerInv, TypeOK
  <1>2. seen' \in [Session -> [Id -> Value \cup {NoValue}]]
    BY <1>1
  <1>3. ASSUME NEW t \in Session, NEW p \in mapper'[t], told'[p.id] # NoValue
        PROVE  told'[p.id] = IF posted'[t][p.var] = <<>> THEN seen'[t][p.id]
                             ELSE posted'[t][p.var][Len(posted'[t][p.var])]
    <2>1. p \in mapper[t] /\ told'[p.id] = told[p.id]
      BY <1>3 DEF TablesFollow
    <2>2. p.id \in Id
      BY <2>1, MapperIsEntries DEF Mapping
    <2>3. p.id \in granted'[t]
      BY <1>3 DEF TablesFollow, Tables, MapperMatchesDelegate, Session
    <2>4. seen'[t][p.id] = seen[t][p.id]
      BY <1>1, <2>2, <2>3
    <2>5. told[p.id] = IF posted[t][p.var] = <<>> THEN seen[t][p.id]
                       ELSE posted[t][p.var][Len(posted[t][p.var])]
      BY <1>3, <2>1 DEF ServerInv, NothingLostOnTheWay
    <2> QED BY <2>1, <2>4, <2>5
  <1>4. NothingLostOnTheWay'
    BY <1>3 DEF NothingLostOnTheWay, Session
  <1> QED BY <1>2, <1>4

LEMMA OnReadRequestInv ==
  ASSUME ServerInv, NEW s \in Session, NEW n \in 0..MaxBurst,
         OnReadRequest(s, n)
  PROVE  ServerInv'
  <1>1. /\ up' = [up EXCEPT ![s] = SubSeq(up[s], n + 1, Len(up[s]))]
        /\ SubSeq(up[s], n + 1, Len(up[s])) \in Seq(OwnMessage(s))
        /\ Received(s, n) \in Seq(OwnMessage(s))
    BY ReceivedIsOwn DEF OnReadRequest
  <1>2. /\ stage[s] = "reading"
        /\ UNCHANGED <<link, posted, sent>>
        /\ seen' = [seen EXCEPT ![s] = [i \in Id |-> IF i \in granted'[s] THEN @[i]
                                                     ELSE NoValue]]
    BY DEF OnReadRequest
  <1>3. PICK b \in Seq(OwnMessage(s)) :
          /\ inbuf' \in {inbuf, [inbuf EXCEPT ![s] = b]}
          /\ TablesFollow(s)
          /\ UNCHANGED stage \/ \E to \in {"writing", "dropped"} : Goes(s, to)
    <2>1. CASE ReadAgain(s, n) /\ UNCHANGED <<delegateVars, mapper, granted>>
      <3>1. TablesFollow(s)
        BY <2>1, StutterInv, SameTables DEF delegateVars, ServerInv
      <3> QED BY <2>1, <3>1, <1>1 DEF ReadAgain
    <2>2. CASE Unmarshall(s, n) /\ Handle(s, Head(Received(s, n)))
      <3>1. /\ Head(Received(s, n)) \in OwnMessage(s)
            /\ Tail(Received(s, n)) \in Seq(OwnMessage(s))
        BY <1>1, <2>2, HeadTailProperties DEF Unmarshall
      <3> QED BY <2>2, <3>1, HandledInv DEF Unmarshall
    <2> QED BY <2>1, <2>2 DEF OnReadRequest
  <1>4. NothingLostOnTheWay' /\ seen' \in [Session -> [Id -> Value \cup {NoValue}]]
    BY <1>2, <1>3, NothingLostByHandler
  <1>5. /\ TypeOKLocal'
        /\ \A t \in Session : stage'[t] = "none" <=> stage[t] = "none"
        /\ stage'[s] # "none"
    BY <1>1, <1>2, <1>3 DEF Goes, ServerInv, TypeOK, TypeOKLocal, Session
  <1>6. \A t \in Session : stage'[t] = "none" => mapper'[t] = {}
    BY <1>3, <1>5 DEF TablesFollow, ServerInv, UnusedIsEmpty
  <1>7. FsuipcMayFail \/ \A x \in subs' : stage'[x.to] # "none"
    <2>1. \A x \in subs : x.to \in Session
      BY DEF ServerInv, TypeOK, TypeOKDelegate, Subscription, Session
    <2> QED BY <1>3, <1>5, <2>1 DEF TablesFollow, ServerInv, NoOrphan
  <1>8. posted' \in [Session -> [Var -> Seq(Value)]]
    BY <1>2 DEF ServerInv, TypeOK
  <1>9. /\ DelegateInv' /\ Tables'
        /\ nextId <= nextId'
        /\ \A x \in subs' : x \in subs \/ x.id = nextId
        /\ mapper' \in [Session -> SUBSET Mapping]
        /\ granted' \in [Session -> SUBSET Id]
    BY <1>3 DEF TablesFollow
  <1> QED
    BY <1>1, <1>3, <1>4, <1>5, <1>6, <1>7, <1>8, <1>9, TableStep

\* A step that moves no message and no session.
LEMMA UpdateStep ==
  ASSUME ServerInv, DelegateInv', Tables', NothingLostOnTheWay',
         UNCHANGED <<stage, link, up, inbuf, mapper, granted, sent>>,
         UNCHANGED <<subs, nextId>>,
         posted' \in [Session -> [Var -> Seq(Value)]],
         seen' \in [Session -> [Id -> Value \cup {NoValue}]]
  PROVE  ServerInv'
  <1>1. TypeOK'
    BY DEF ServerInv, TypeOK, DelegateInv, Session, ClientMessage, Id, Value,
           Mapping
  <1>2. MessagesAreOwn' /\ UnusedIsEmpty'
    BY DEF ServerInv, MessagesAreOwn, OwnMessage, ClientMessage, UnusedIsEmpty,
           Session, Id, Value
  <1>3. FsuipcMayFail \/ NoOrphan'
    BY DEF ServerInv, NoOrphan
  <1> QED BY <1>1, <1>2, <1>3 DEF ServerInv

\* What the subscription of a mapper's entry is.
LEMMA EntryIsSubscribed ==
  ASSUME ServerInv, NEW s \in Session, NEW p \in mapper[s]
  PROVE  /\ p.var \in Var /\ p.id \in Id
         /\ \E x \in subs : x.to = s /\ x.var = p.var /\ x.id = p.id
         /\ stage[s] # "none"
         /\ p.id \in granted[s]
  BY MapperIsEntries DEF Mapping, ServerInv, UnusedIsEmpty

\* Entries with one identifier are one.
LEMMA EntryOfId ==
  ASSUME ServerInv, NEW s \in Session, NEW p \in mapper[s], NEW q \in mapper[s],
         p.id = q.id
  PROVE  p.var = q.var
  <1>1. PICK x \in subs : x.var = p.var /\ x.id = p.id
    BY EntryIsSubscribed
  <1>2. PICK y \in subs : y.var = q.var /\ y.id = q.id
    BY EntryIsSubscribed
  <1> QED BY <1>1, <1>2 DEF ServerInv, DelegateInv, IdsAreUnique

\* A tick tells a subscription the value it posts, last, for its session.
LEMMA TickInv ==
  ASSUME ServerInv, Tick
  PROVE  ServerInv'
  <1>1. DelegateInv'
    BY CheckForUpdatesInv DEF Tick, ServerInv
  <1>2. /\ UNCHANGED <<stage, link, up, inbuf, mapper, granted, seen, sent>>
        /\ UNCHANGED <<subs, coreIds, nextId>>
        /\ told' = [i \in Id |->
                      IF \E x \in Notified : x.id = i
                      THEN memory[OffsetOf[(CHOOSE x \in Notified : x.id = i).var]]
                      ELSE told[i]]
        /\ posted' = [s \in Session |-> [v \in Var |->
                        IF Told(s, v) = {} THEN posted[s][v]
                        ELSE Append(posted[s][v], memory[OffsetOf[v]])]]
    BY DEF Tick, CheckForUpdates
  <1>3. /\ memory \in [Offset -> Value]
        /\ \A x \in subs : /\ x.id \in Nat /\ x.id < nextId
                           /\ OffsetOf[x.var] \in Offset
        /\ \A x, y \in subs : x.id = y.id => x = y
        /\ posted \in [Session -> [Var -> Seq(Value)]]
        /\ nextId \in Nat
    BY DelegateAssumption
    DEF ServerInv, DelegateInv, TypeOK, TypeOKDelegate, IdsAreUnique,
        ObservedAsSubscribed, Subscription, Id, Session
  <1>4. posted' \in [Session -> [Var -> Seq(Value)]]
    <2>1. ASSUME NEW s \in Session, NEW v \in Var, Told(s, v) # {}
          PROVE  Append(posted[s][v], memory[OffsetOf[v]]) \in Seq(Value)
      <3>1. OffsetOf[v] \in Offset
        BY <1>3, <2>1 DEF Told, Notified
      <3> QED BY <1>3, <3>1
    <2> QED BY <1>2, <1>3, <2>1
  <1>5. MapperMatchesDelegate' /\ CoreKnowsAll'
    BY <1>2 DEF ServerInv, Tables, MapperMatchesDelegate, CoreKnowsAll
  <1>6. FreshIsUntold'
    <2>1. ASSUME NEW i \in Id, i >= nextId
          PROVE  ~\E x \in Notified : x.id = i
      BY <1>3, <2>1 DEF Notified, Id
    <2> QED BY <1>2, <2>1 DEF ServerInv, Tables, FreshIsUntold, Id
  <1>7. ASSUME NEW s \in Session, NEW p \in mapper[s], told'[p.id] # NoValue
        PROVE  told'[p.id] = IF posted'[s][p.var] = <<>> THEN seen'[s][p.id]
                             ELSE posted'[s][p.var][Len(posted'[s][p.var])]
    <2>1. PICK x \in subs : x.to = s /\ x.var = p.var /\ x.id = p.id
      BY EntryIsSubscribed
    <2>2. p.var \in Var /\ p.id \in Id /\ stage[s] # "none"
      BY EntryIsSubscribed
    <2>3. CASE x \in Notified
      <3>1. (CHOOSE y \in Notified : y.id = p.id) = x
        BY <1>3, <2>1, <2>3 DEF Notified
      <3>2. told'[p.id] = memory[OffsetOf[p.var]]
        BY <1>2, <2>1, <2>2, <2>3, <3>1
      <3>3. Told(s, p.var) # {}
        BY <2>1, <2>2, <2>3 DEF Told
      <3>4. posted'[s][p.var] = Append(posted[s][p.var], memory[OffsetOf[p.var]])
        BY <1>2, <2>2, <3>3
      <3>5. posted[s][p.var] \in Seq(Value) /\ memory[OffsetOf[p.var]] \in Value
        BY <1>3, <2>1, <2>2
      <3> QED BY <3>2, <3>4, <3>5
    <2>4. CASE x \notin Notified
      <3>1. ~\E y \in Notified : y.id = p.id
        BY <1>3, <2>1, <2>4 DEF Notified
      <3>2. told'[p.id] = told[p.id]
        BY <1>2, <2>2, <3>1
      <3>3. Told(s, p.var) = {}
        BY <2>1, <2>4 DEF Told, Notified
      <3>4. posted'[s][p.var] = posted[s][p.var]
        BY <1>2, <2>2, <3>3
      <3> QED BY <1>2, <1>7, <3>2, <3>4 DEF ServerInv, NothingLostOnTheWay
    <2> QED BY <2>3, <2>4
  <1>8. NothingLostOnTheWay'
    BY <1>2, <1>7 DEF NothingLostOnTheWay, Session
  <1>9. seen' \in [Session -> [Id -> Value \cup {NoValue}]]
    BY <1>2 DEF ServerInv, TypeOK
  <1> QED BY <1>1, <1>2, <1>4, <1>5, <1>6, <1>8, <1>9, UpdateStep DEF Tables

LEMMA SendVarUpdateInv ==
  ASSUME ServerInv, NEW s \in Session, NEW v \in Var, SendVarUpdate(s, v)
  PROVE  ServerInv'
  <1>1. /\ UNCHANGED <<subs, known, observed, pending, cached, coreIds, nextId,
                       memory, told>>
        /\ UNCHANGED <<stage, link, up, inbuf, mapper, granted, sent>>
    BY DEF SendVarUpdate, delegateVars
  <1>2. DelegateInv'
    BY StutterInv DEF SendVarUpdate, ServerInv
  <1>3. /\ posted \in [Session -> [Var -> Seq(Value)]]
        /\ seen \in [Session -> [Id -> Value \cup {NoValue}]]
        /\ posted[s][v] \in Seq(Value) /\ posted[s][v] # <<>>
    BY DEF ServerInv, TypeOK, SendVarUpdate
  <1>4. /\ Head(posted[s][v]) \in Value
        /\ Tail(posted[s][v]) \in Seq(Value)
        /\ Tail(posted[s][v]) = <<>> =>
             Head(posted[s][v]) = posted[s][v][Len(posted[s][v])]
        /\ Tail(posted[s][v]) # <<>> =>
             Tail(posted[s][v])[Len(Tail(posted[s][v]))] = posted[s][v][Len(posted[s][v])]
    <2> DEFINE q == posted[s][v]
    <2>1. /\ Head(q) \in Value /\ Tail(q) \in Seq(Value) /\ Len(q) \in Nat
          /\ Head(q) = q[1] /\ Len(Tail(q)) = Len(q) - 1 /\ Len(q) # 0
          /\ \A i \in 1..(Len(q) - 1) : Tail(q)[i] = q[i + 1]
      BY <1>3, HeadTailProperties, EmptySeq, LenProperties
    <2>2. Tail(q) = <<>> <=> Len(Tail(q)) = 0
      BY <2>1, EmptySeq
    <2> HIDE DEF q
    <2>3. Tail(q) = <<>> => Head(q) = q[Len(q)]
      BY <2>1, <2>2
    <2>4. Tail(q) # <<>> => Tail(q)[Len(Tail(q))] = q[Len(q)]
      BY <2>1, <2>2
    <2> QED BY <2>1, <2>3, <2>4 DEF q
  <1>5. /\ posted' \in [Session -> [Var -> Seq(Value)]]
        /\ \A t \in Session, w \in Var :
             posted'[t][w] = IF t = s /\ w = v THEN Tail(posted[s][v]) ELSE posted[t][w]
    BY <1>3, <1>4 DEF SendVarUpdate
  <1>6. /\ seen' \in [Session -> [Id -> Value \cup {NoValue}]]
        /\ \A t \in Session : \A p \in mapper[t] :
             seen'[t][p.id] = IF t = s /\ p.var = v THEN Head(posted[s][v])
                              ELSE seen[t][p.id]
    <2>1. CASE \E p \in mapper[s] : p.var = v /\ seen' = [seen EXCEPT ![s][p.id] = Head(posted[s][v])]
      <3>1. PICK q \in mapper[s] : q.var = v /\ seen' = [seen EXCEPT ![s][q.id] = Head(posted[s][v])]
        BY <2>1
      <3>2. q.id \in Id
        BY EntryIsSubscribed
      <3>3. ASSUME NEW t \in Session, NEW p \in mapper[t]
            PROVE  seen'[t][p.id] = IF t = s /\ p.var = v THEN Head(posted[s][v])
                                    ELSE seen[t][p.id]
        <4>1. p.id \in Id
          BY EntryIsSubscribed
        <4>2. t = s => (p.id = q.id <=> p.var = v)
          BY <3>1, EntryOfId, MapperIsEntries
        <4> QED BY <1>3, <3>1, <3>2, <4>1, <4>2
      <3> QED BY <1>3, <1>4, <3>1, <3>2, <3>3
    <2>2. CASE ~SubscriptionExists(s, v) /\ UNCHANGED seen
      BY <1>3, <2>2 DEF SubscriptionExists
    <2> QED BY <2>1, <2>2 DEF SendVarUpdate
  <1>7. ASSUME NEW t \in Session, NEW p \in mapper[t], told[p.id] # NoValue
        PROVE  told[p.id] = IF posted'[t][p.var] = <<>> THEN seen'[t][p.id]
                            ELSE posted'[t][p.var][Len(posted'[t][p.var])]
    <2>1. told[p.id] = IF posted[t][p.var] = <<>> THEN seen[t][p.id]
                       ELSE posted[t][p.var][Len(posted[t][p.var])]
      BY <1>7 DEF ServerInv, NothingLostOnTheWay
    <2>2. p.var \in Var
      BY EntryIsSubscribed
    <2>3. CASE t = s /\ p.var = v
      BY <1>3, <1>4, <1>5, <1>6, <2>1, <2>2, <2>3
    <2>4. CASE ~(t = s /\ p.var = v)
      BY <1>5, <1>6, <2>1, <2>2, <2>4
    <2> QED BY <2>3, <2>4
  <1>8. NothingLostOnTheWay'
    BY <1>1, <1>7 DEF NothingLostOnTheWay, Session
  <1>9. Tables'
    BY <1>1 DEF ServerInv, Tables, MapperMatchesDelegate, FreshIsUntold,
                CoreKnowsAll, Session, Id
  <1> QED BY <1>1, <1>2, <1>5, <1>6, <1>8, <1>9, UpdateStep

\* A destroyed session leaves no subscription, unless FSUIPC failed on one.
LEMMA DestroyInv ==
  ASSUME ServerInv, NEW s \in Session, Destroy(s)
  PROVE  ServerInv'
  <1>1. SubscriptionsOf(s) = granted[s]
    BY MapperIsEntries DEF SubscriptionsOf
  <1>2. TablesFollow(s)
    <2>1. mapper' = [mapper EXCEPT ![s] = {p \in @ : p.id \notin granted[s]}]
      <3>1. {p \in mapper[s] : p.id \notin granted[s]} = {}
        BY EntryIsSubscribed
      <3> QED BY <3>1 DEF Destroy, ClearSubscriptions
    <2>2. granted' = [granted EXCEPT ![s] = @ \ granted[s]]
      BY DEF Destroy, ServerInv, TypeOK
    <2> QED BY <1>1, <2>1, <2>2, UnsubscribedTables DEF Destroy
  <1>3. mapper'[s] = {} /\ granted'[s] = {}
    BY DEF Destroy, ClearSubscriptions, ServerInv, TypeOK
  <1>4. seen' = [seen EXCEPT ![s] = [i \in Id |-> IF i \in granted'[s] THEN @[i]
                                                 ELSE NoValue]]
    BY <1>3 DEF Destroy, ServerInv, TypeOK
  <1>5. NothingLostOnTheWay' /\ seen' \in [Session -> [Id -> Value \cup {NoValue}]]
    BY <1>2, <1>4, NothingLostByHandler DEF Destroy
  <1>6. /\ TypeOKLocal'
        /\ \A t \in Session \ {s} : stage'[t] = stage[t]
    BY DEF Destroy, ServerInv, TypeOK, TypeOKLocal, Session
  <1>7. \A t \in Session : stage'[t] = "none" => mapper'[t] = {}
    BY <1>2, <1>3, <1>6 DEF TablesFollow, ServerInv, UnusedIsEmpty
  <1>8. FsuipcMayFail \/ \A x \in subs' : stage'[x.to] # "none"
    <2> SUFFICES ASSUME ~FsuipcMayFail, NEW x \in subs'
                 PROVE  stage'[x.to] # "none"
      OBVIOUS
    <2>1. /\ x \in subs /\ x.id \notin granted[s]
          /\ x.id \in coreIds /\ stage[x.to] # "none"
          /\ x.to \in Session /\ x.var \in Var /\ x.id \in Id
      BY <1>1
      DEF Destroy, Unsubscribe, ServerInv, Tables, CoreKnowsAll, NoOrphan,
          TypeOK, TypeOKDelegate, Subscription, Session
    <2>2. x.to # s
      <3> SUFFICES ASSUME x.to = s PROVE FALSE
        OBVIOUS
      <3> DEFINE p == [var |-> x.var, id |-> x.id]
      <3>1. p \in Mapping /\ p.var = x.var /\ p.id = x.id
        BY <2>1 DEF Mapping
      <3> HIDE DEF p
      <3>2. p \in mapper[s]
        BY <2>1, <3>1, MapperIsEntries
      <3> QED BY <2>1, <3>1, <3>2, EntryIsSubscribed
    <2> QED BY <1>6, <2>1, <2>2
  <1>9. /\ up' = [up EXCEPT ![s] = <<>>]
        /\ inbuf' = [inbuf EXCEPT ![s] = <<>>]
        /\ <<>> \in Seq(OwnMessage(s))
    BY EmptySeq DEF Destroy
  <1>10. posted' \in [Session -> [Var -> Seq(Value)]]
    BY DEF Destroy, ServerInv, TypeOK
  <1>11. /\ DelegateInv' /\ Tables'
         /\ nextId <= nextId'
         /\ \A x \in subs' : x \in subs \/ x.id = nextId
         /\ mapper' \in [Session -> SUBSET Mapping]
         /\ granted' \in [Session -> SUBSET Id]
    BY <1>2 DEF TablesFollow
  <1> QED
    BY <1>5, <1>6, <1>7, <1>8, <1>9, <1>10, <1>11, TableStep

LEMMA SimulatorStepInv ==
  ASSUME ServerInv, SimulatorStep
  PROVE  ServerInv'
  <1>1. PICK o \in Offset, val \in Value : SimulatorChanges(o, val)
    BY DEF SimulatorStep
  <1>2. DelegateInv'
    BY <1>1, SimulatorChangesInv DEF ServerInv
  <1>3. /\ UNCHANGED <<subs, coreIds, nextId, told>>
        /\ UNCHANGED <<stage, link, up, inbuf, mapper, posted, granted, seen, sent>>
    BY <1>1 DEF SimulatorChanges, SimulatorStep, serverVars
  <1>4. Tables' /\ NothingLostOnTheWay'
    BY <1>3 DEF ServerInv, Tables, MapperMatchesDelegate, FreshIsUntold,
                CoreKnowsAll, NothingLostOnTheWay, Session, Id
  <1>5. /\ posted' \in [Session -> [Var -> Seq(Value)]]
        /\ seen' \in [Session -> [Id -> Value \cup {NoValue}]]
    BY <1>3 DEF ServerInv, TypeOK
  <1> QED BY <1>2, <1>3, <1>4, <1>5, UpdateStep

-----------------------------------------------------------------------------
LEMMA NextInv ==
  ASSUME ServerInv, [Next]_vars
  PROVE  ServerInv'
  <1>1. ASSUME NEW s \in Session, Accept(s) PROVE ServerInv'
    BY <1>1, AcceptInv
  <1>2. ASSUME NEW s \in Session, ClientSends(s) PROVE ServerInv'
    BY <1>2, ClientSendsInv
  <1>3. ASSUME NEW s \in Session, ClientLeaves(s) PROVE ServerInv'
    BY <1>3, ClientLeavesInv
  <1>4. ASSUME NEW s \in Session, ReadBeginSession(s) PROVE ServerInv'
    BY <1>4, OnReadBeginSessionInv DEF ReadBeginSession
  <1>5. ASSUME NEW s \in Session, ReadRequest(s) PROVE ServerInv'
    BY <1>5, OnReadRequestInv DEF ReadRequest
  <1>6. ASSUME NEW s \in Session,
               OnReadBeginSessionError(s) \/ OnReadRequestError(s) \/ OnWriteMessage(s)
        PROVE ServerInv'
    BY <1>6, StageInv
    DEF OnReadBeginSessionError, OnReadRequestError, OnWriteMessage
  <1>7. ASSUME NEW s \in Session, NEW v \in Var, SendVarUpdate(s, v) PROVE ServerInv'
    BY <1>7, SendVarUpdateInv
  <1>8. ASSUME NEW s \in Session, Destroy(s) PROVE ServerInv'
    BY <1>8, DestroyInv
  <1>9. CASE Tick
    BY <1>9, TickInv
  <1>10. CASE SimulatorStep
    BY <1>10, SimulatorStepInv
  <1>11. CASE UNCHANGED vars
    <2>1. UNCHANGED <<delegateVars, mapper, posted, granted, seen, up, inbuf,
                      stage, link, sent>>
      BY <1>11 DEF vars, serverVars
    <2>2. UNCHANGED <<subs, nextId>>
      BY <2>1 DEF delegateVars
    <2>3. MessagesAreOwn'
      BY <2>1, <2>2
      DEF ServerInv, MessagesAreOwn, OwnMessage, ClientMessage, Session, Id, Value
    <2>4. TypeOKLocal'
      BY <2>1 DEF ServerInv, TypeOK, TypeOKLocal, Session
    <2> QED BY <2>1, <2>3, <2>4, QuietInv DEF ServerInv, TypeOK
  <1> QED
    BY <1>1, <1>2, <1>3, <1>4, <1>5, <1>6, <1>7, <1>8, <1>9, <1>10, <1>11
    DEF Next

\* The invariant holds in every reachable state.
THEOREM ServerInvariant == Spec => []ServerInv
  <1>1. Init => ServerInv
    BY InitServer
  <1>2. ServerInv /\ [Next]_vars => ServerInv'
    BY NextInv
  <1> QED BY <1>1, <1>2, PTL DEF Spec

\* The state of the sessions, with the messages and updates on their way, is
\* well formed after every handler of the server.
THEOREM ServerTypeCorrect == Spec => []TypeOK
  <1>1. ServerInv => TypeOK
    BY DEF ServerInv
  <1> QED BY <1>1, ServerInvariant, PTL

\* After every handler of the server, the mapper of each session has exactly
\* the subscriptions the delegate keeps for it, those the replies have granted
\* to the client, and one for a variable.
THEOREM MapperMatchesDelegateAlways == Spec => []MapperMatchesDelegate
  <1>1. ServerInv => MapperMatchesDelegate
    BY DEF ServerInv, Tables
  <1> QED BY <1>1, ServerInvariant, PTL

\* However unsubscriptions and new subscriptions overtake the updates posted
\* by handle_var_update(), the last value the delegate reported for a
\* subscription is the last posted for its session, or what its client has.
THEOREM NothingLostOnTheWayAlways == Spec => []NothingLostOnTheWay
  <1>1. ServerInv => NothingLostOnTheWay
    BY DEF ServerInv
  <1> QED BY <1>1, ServerInvariant, PTL

\* The destructor of a session leaves nothing in the delegate that the core has
\* an identifier for, whatever FSUIPC failed at before (server.cpp:308-317).
THEOREM SessionTakesAllAlways == Spec => []SessionTakesAll
  <1>1. ServerInv => SessionTakesAll
    <2> SUFFICES ASSUME ServerInv, NEW x \in subs, x.id \in coreIds
                 PROVE  stage[x.to] # "none"
      BY DEF SessionTakesAll
    <2>1. x.to \in Session
      BY DEF ServerInv, TypeOK, TypeOKDelegate, Subscription, Session
    <2>2. [var |-> x.var, id |-> x.id] \in mapper[x.to]
      BY <2>1 DEF ServerInv, Tables, MapperMatchesDelegate
    <2> QED BY <2>1, <2>2 DEF ServerInv, UnusedIsEmpty
  <1> QED BY <1>1, ServerInvariant, PTL

\* While FSUIPC answers every query, the destructor of a session leaves nothing
\* in the delegate, so that no later session gets its updates.
THEOREM NoOrphanAlways ==
  ASSUME ~FsuipcMayFail
  PROVE  Spec => []NoOrphan
  <1>1. ServerInv => NoOrphan
    BY DEF ServerInv
  <1> QED BY <1>1, ServerInvariant, PTL

LEMMA UpdateIsGranted ==
  ASSUME ServerInv, [Next]_vars, NEW s \in Session, NEW i \in Id,
         seen'[s][i] \notin {seen[s][i], NoValue}
  PROVE  i \in granted[s]
  <1>0. seen \in [Session -> [Id -> Value \cup {NoValue}]]
    BY DEF ServerInv, TypeOK
  <1>1. ~UNCHANGED seen
    OBVIOUS
  <1>2. ASSUME NEW t \in Session, ReadRequest(t) PROVE FALSE
    BY <1>0, <1>2 DEF ReadRequest, OnReadRequest
  <1>3. ASSUME NEW t \in Session, Destroy(t) PROVE FALSE
    BY <1>0, <1>3 DEF Destroy
  <1>4. ASSUME NEW t \in Session, NEW v \in Var, SendVarUpdate(t, v)
        PROVE  i \in granted[s]
    <2>1. PICK p \in mapper[t] : seen' = [seen EXCEPT ![t][p.id] = Head(posted[t][v])]
      BY <1>1, <1>4 DEF SendVarUpdate
    <2>2. s = t /\ i = p.id
      BY <1>0, <2>1
    <2> QED BY <2>1, <2>2, EntryIsSubscribed
  <1>5. ASSUME NEW t \in Session,
               \/ Accept(t) \/ ClientSends(t) \/ ClientLeaves(t)
               \/ ReadBeginSession(t) \/ OnReadBeginSessionError(t)
               \/ OnReadRequestError(t) \/ OnWriteMessage(t)
        PROVE  FALSE
    BY <1>1, <1>5
    DEF Accept, ClientSends, ClientLeaves, ReadBeginSession, OnReadBeginSession,
        OnReadBeginSessionError, OnReadRequestError, OnWriteMessage
  <1>6. ~Tick /\ ~SimulatorStep /\ ~UNCHANGED vars
    BY <1>1 DEF Tick, SimulatorStep, serverVars, vars
  <1> QED BY <1>2, <1>3, <1>4, <1>5, <1>6 DEF Next

\* send_var_update() writes an update only under an identifier its client has
\* been granted and that no reply has taken back.
THEOREM UpdatesOnlyWhenGrantedAlways == Spec => UpdatesOnlyWhenGranted
  <1>1. ServerInv /\ [Next]_vars
          => [\A s \in Session, i \in Id :
                seen'[s][i] \notin {seen[s][i], NoValue} => i \in granted[s]]_vars
    BY UpdateIsGranted
  <1> QED
    BY <1>1, ServerInvariant, PTL DEF Spec, UpdatesOnlyWhenGranted
=============================================================================
