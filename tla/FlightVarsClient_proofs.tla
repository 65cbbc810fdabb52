----------------------- MODULE FlightVarsClient_proofs -----------------------
(***************************************************************************)
(* Proofs about FlightVarsClient and the server's session of it, for any   *)
(* threads, variables and bounds, whether or not messages are split, calls *)
(* time out and the connection breaks.                                     *)
(***************************************************************************)
EXTENDS FlightVarsClient, SequenceTheorems, TLAPS

-----------------------------------------------------------------------------
(* The operations of subscription_db keep its maps consistent, provided    *)
(* that the identifiers of new virtual subscriptions are new.  No typing   *)
(* is needed.                                                              *)

VirtualIds == {l.id : l \in byVirtual}

\* Binding new identifiers to an entry names each of them once.
LEMMA BindIsNew ==
  ASSUME NEW ids, NEW e,
         \A k, l \in byVirtual : k.id = l.id => k = l,
         ids \cap VirtualIds = {},
         NEW k \in byVirtual \cup Bind(ids, e),
         NEW l \in byVirtual \cup Bind(ids, e),
         k.id = l.id
  PROVE  k = l
  <1>1. \A x \in Bind(ids, e) : x.id \in ids /\ x = [id |-> x.id, entry |-> e]
    BY DEF Bind
  <1>2. \A x \in byVirtual : x.id \notin ids
    BY DEF VirtualIds
  <1> QED
    BY <1>1, <1>2

\* add_virtual_subscription() keeps the database consistent.
LEMMA AddVirtualConsistent ==
  ASSUME DbConsistent, NEW v, NEW ids, ids \cap VirtualIds = {},
         AddVirtual(v, ids)
  PROVE  DbConsistent'
  <1>1. PICK e \in byVar : /\ e.var = v
                           /\ byVirtual' = byVirtual \cup Bind(ids, e)
                           /\ listed' = listed \cup Bind(ids, e)
    BY DEF AddVirtual
  <1>2. byVar' = byVar /\ byMaster' = byMaster
    BY DEF AddVirtual
  <1>3. \A k, l \in byVirtual' : k.id = l.id => k = l
    BY <1>1, BindIsNew DEF DbConsistent
  <1>4. \A l \in Bind(ids, e) : l.entry = e
    BY DEF Bind
  <1>5. byVar' = {l.entry : l \in byVirtual'}
    BY <1>1, <1>2, <1>4 DEF DbConsistent
  <1> QED
    BY <1>1, <1>2, <1>3, <1>5 DEF DbConsistent

\* create_entry() keeps the database consistent, with its first virtual
\* subscriptions.
LEMMA CreateEntryConsistent ==
  ASSUME DbConsistent, NEW v, NEW m, NEW ids, ids # {},
         ids \cap VirtualIds = {}, CreateEntry(v, m, ids)
  PROVE  DbConsistent'
  <1> DEFINE e == [var |-> v, master |-> m]
  <1>1. /\ byVar' = byVar \cup {e}
        /\ byMaster' = byMaster \cup {e}
        /\ byVirtual' = byVirtual \cup Bind(ids, e)
        /\ listed' = listed \cup Bind(ids, e)
    BY DEF CreateEntry
  <1>2. \A f \in byVar : f.var # e.var /\ f.master # e.master
    BY DEF CreateEntry, VariableDefined, MasterDefined, DbConsistent
  <1>3. \A k, l \in byVirtual' : k.id = l.id => k = l
    BY <1>1, BindIsNew DEF DbConsistent
  <1>4. {l.entry : l \in Bind(ids, e)} = {e}
    <2>1. \A l \in Bind(ids, e) : l.entry = e
      BY DEF Bind
    <2>2. PICK i \in ids : TRUE
      OBVIOUS
    <2>3. [id |-> i, entry |-> e] \in Bind(ids, e)
      BY DEF Bind
    <2> QED
      BY <2>1, <2>3
  <1>5. byVar' = {l.entry : l \in byVirtual'}
    BY <1>1, <1>4 DEF DbConsistent
  <1>6. \A f, g \in byVar' : (f.var = g.var \/ f.master = g.master) => f = g
    BY <1>1, <1>2 DEF DbConsistent
  <1> QED
    BY <1>1, <1>3, <1>5, <1>6 DEF DbConsistent

\* remove_virtual_subscription() keeps the database consistent: the entry goes
\* with its last virtual subscription, and no other does.
LEMMA RemoveVirtualConsistent ==
  ASSUME DbConsistent, NEW i, RemoveVirtual(i)
  PROVE  DbConsistent'
  <1> DEFINE found == CHOOSE l \in byVirtual : l.id = i
             f == found.entry
  <1>1. found \in byVirtual /\ found.id = i
    BY DEF RemoveVirtual, VirtualDefined
  <1>2. \A l \in byVirtual : l.id = i => l = found
    BY <1>1 DEF DbConsistent
  <1>3. f \in byVar /\ MasterOf(i) = f.master
    BY <1>1 DEF DbConsistent, MasterOf
  <1>4. /\ byVirtual' = {l \in byVirtual : l.id # i}
        /\ listed' = byVirtual'
    BY DEF RemoveVirtual, DbConsistent
  <1>5. CASE IsLast(i)
    <2>1. byVar' = {e \in byVar : e.master # f.master} /\ byMaster' = byVar'
      BY <1>3, <1>5 DEF RemoveVirtual, DbConsistent
    <2>2. \A k \in byVirtual : k.entry = f => k.id = i
      BY <1>2, <1>5 DEF IsLast, DbConsistent
    <2>3. \A e \in byVar : e.master = f.master => e = f
      BY <1>3 DEF DbConsistent
    <2>4. byVar' = {l.entry : l \in byVirtual'}
      <3>1. \A l \in byVirtual' : l.entry \in byVar'
        BY <1>1, <1>2, <1>4, <2>1, <2>2, <2>3 DEF DbConsistent
      <3>2. \A e \in byVar' : \E l \in byVirtual' : l.entry = e
        BY <1>1, <1>2, <1>4, <2>1 DEF DbConsistent
      <3> QED
        BY <3>1, <3>2
    <2> QED
      BY <1>4, <2>1, <2>4 DEF DbConsistent
  <1>6. CASE ~IsLast(i)
    <2>1. byVar' = byVar /\ byMaster' = byVar
      BY <1>6 DEF RemoveVirtual, DbConsistent
    <2>2. PICK k \in byVirtual : k.entry = f /\ k.id # i
      BY <1>1, <1>6 DEF IsLast, DbConsistent
    <2>3. byVar' = {l.entry : l \in byVirtual'}
      <3>1. \A e \in byVar : \E l \in byVirtual' : l.entry = e
        BY <1>2, <1>4, <2>2 DEF DbConsistent
      <3> QED
        BY <1>4, <2>1, <3>1 DEF DbConsistent
    <2> QED
      BY <1>4, <2>1, <2>3 DEF DbConsistent
  <1> QED
    BY <1>5, <1>6

-----------------------------------------------------------------------------
(* Type correctness.                                                       *)

Outcome == {"pending", "ok", "no_such", "comm_error"}

LEMMA ReceivesType ==
  ASSUME TypeOK, NEW n \in Nat, NEW h \in BOOLEAN, Receives(n, h)
  PROVE  /\ toClient' \in Seq(ToClient)
         /\ Received(n) \in Seq(ToClient)
         /\ Received(n) # <<>> => /\ Head(Received(n)) \in ToClient
                                  /\ Tail(Received(n)) \in Seq(ToClient)
  <1>1. toClient \in Seq(ToClient) /\ inbuf \in Seq(ToClient)
    BY DEF TypeOK
  <1>2. n <= Len(toClient) /\ Len(toClient) \in Nat
    BY <1>1, LenProperties DEF Receives
  <1>3. \A i \in 1..Len(toClient) : toClient[i] \in ToClient
    BY <1>1, ElementOfSeq
  <1>4. SubSeq(toClient, 1, n) \in Seq(ToClient)
    BY <1>2, <1>3, SubSeqProperties
  <1>5. SubSeq(toClient, n + 1, Len(toClient)) \in Seq(ToClient)
    BY <1>2, <1>3, SubSeqProperties
  <1>6. Received(n) \in Seq(ToClient)
    BY <1>1, <1>4, ConcatProperties DEF Received
  <1> QED
    BY <1>5, <1>6, HeadTailProperties DEF Receives

LEMMA SettleType ==
  ASSUME TypeOK, NEW S, NEW how \in Outcome, Settle(S, how)
  PROVE  outcome' \in [Req -> Outcome]
  BY DEF TypeOK, Settle, Outcome

LEMMA WritesType ==
  ASSUME TypeOK, NEW m \in ToClient, Writes(m)
  PROVE  toClient' \in Seq(ToClient)
  BY AppendProperties DEF TypeOK, Writes

LEMMA SendsType ==
  ASSUME TypeOK, NEW m \in ToServer, Sends(m)
  PROVE  toServer' \in Seq(ToServer)
  BY AppendProperties DEF TypeOK, Sends

LEMMA MasterOfType ==
  ASSUME TypeOK, NEW i, VirtualDefined(i)
  PROVE  MasterOf(i) \in Master
  BY DEF TypeOK, TypeOKDb, VirtualDefined, MasterOf, Link, Entry

LEMMA BindType ==
  ASSUME NEW ids \in SUBSET Virtual, NEW e \in Entry
  PROVE  Bind(ids, e) \subseteq Link
  BY DEF Bind, Link

LEMMA AddVirtualType ==
  ASSUME TypeOKDb, NEW v, NEW ids \in SUBSET Virtual, AddVirtual(v, ids)
  PROVE  TypeOKDb'
  BY BindType DEF TypeOKDb, AddVirtual

LEMMA CreateEntryType ==
  ASSUME TypeOKDb, NEW v \in Var, NEW m \in Master, NEW ids \in SUBSET Virtual,
         CreateEntry(v, m, ids)
  PROVE  TypeOKDb'
  <1>1. [var |-> v, master |-> m] \in Entry
    BY DEF Entry
  <1> QED
    BY <1>1, BindType DEF TypeOKDb, CreateEntry

LEMMA RemoveVirtualType ==
  ASSUME TypeOKDb, NEW i, RemoveVirtual(i)
  PROVE  TypeOKDb'
  BY DEF TypeOKDb, RemoveVirtual

LEMMA InitType == Init => TypeOK
  <1> SUFFICES ASSUME Init PROVE TypeOK
    OBVIOUS
  <1>1. TypeOKDb
    BY DEF Init, InitDb, TypeOKDb
  <1>2. /\ calls \in Seq(Call) /\ Len(calls) = 0
        /\ posts \in Seq(Req)
        /\ inbuf \in Seq(ToClient)
        /\ toServer \in Seq(ToServer)
    BY EmptySeq DEF Init
  <1>3. [kind |-> "begin"] \in ToClient
    BY DEF ToClient
  <1>4. toClient \in Seq(ToClient)
    BY <1>3 DEF Init
  <1>5. MaxCalls \in Nat
    BY ClientAssumption
  <1>6. /\ outcome \in [Req -> {"pending", "ok", "no_such", "comm_error"}]
        /\ missed \subseteq ToClient
        /\ waiting \in [Caller -> Req \cup {0}]
        /\ subReqs \in [Var -> SUBSET Req]
        /\ unsubReqs \in [Master -> SUBSET Req]
    BY DEF Init
  <1>7. Len(calls) <= MaxCalls /\ given \in 0..MaxCalls
    BY <1>2, <1>5 DEF Init
  <1> QED
    BY <1>1, <1>2, <1>4, <1>6, <1>7 DEF Init, TypeOK

LEMMA ServerHandlesType ==
  ASSUME TypeOK, NEW n \in Nat, ServerHandles(n)
  PROVE  TypeOK'
  <1>0. toServer # <<>>
    BY LenProperties, EmptySeq DEF TypeOK, ServerHandles
  <1>1. toServer' \in Seq(ToServer) /\ Head(toServer) \in ToServer
    BY <1>0, HeadTailProperties DEF TypeOK, ServerHandles
  <1>2. UNCHANGED <<dbVars, clientVars>> /\ arrived' \in Nat
    BY LenProperties DEF ServerHandles, TypeOK
  <1> SUFFICES /\ toClient' \in Seq(ToClient)
               /\ link' \in {"open", "closed", "reset"}
               /\ session' \subseteq Entry
               /\ given' \in 0..MaxCalls
    BY <1>1, <1>2 DEF TypeOK, TypeOKDb, dbVars, clientVars
  <1>3. CASE Head(toServer).kind = "subscribe" /\ ServerSubscribes(Head(toServer).var) /\ UNCHANGED link
    <2> DEFINE v == Head(toServer).var
    <2>1. v \in Var
      BY <1>1, <1>3 DEF ToServer
    <2>2. CASE /\ Writes([kind |-> "VAR_ALREADY_SUBSCRIBED", var |-> v])
               /\ UNCHANGED <<session, given>>
      <3>1. [kind |-> "VAR_ALREADY_SUBSCRIBED", var |-> v] \in ToClient
        BY <2>1 DEF ToClient
      <3> QED
        BY <1>3, <2>2, <3>1, WritesType DEF TypeOK
    <2>3. CASE /\ Writes([kind |-> "NO_SUCH_VAR", var |-> v])
               /\ UNCHANGED <<session, given>>
      <3>1. [kind |-> "NO_SUCH_VAR", var |-> v] \in ToClient
        BY <2>1 DEF ToClient
      <3> QED
        BY <1>3, <2>3, <3>1, WritesType DEF TypeOK
    <2>4. CASE /\ given < MaxCalls
               /\ given' = given + 1
               /\ session' = session \cup {[var |-> v, master |-> given + 1]}
               /\ Writes([kind |-> "SUBSCRIBED", var |-> v, id |-> given + 1])
      <3>1. given + 1 \in Master
        BY <2>4, ClientAssumption DEF TypeOK, Req
      <3>2. [kind |-> "SUBSCRIBED", var |-> v, id |-> given + 1] \in ToClient
        BY <2>1, <3>1 DEF ToClient
      <3>3. [var |-> v, master |-> given + 1] \in Entry
        BY <2>1, <3>1 DEF Entry
      <3> QED
        BY <1>3, <2>4, <3>2, <3>3, WritesType, ClientAssumption DEF TypeOK
    <2> QED
      BY <1>3, <2>2, <2>3, <2>4 DEF ServerSubscribes
  <1>4. CASE Head(toServer).kind = "unsubscribe" /\ ServerUnsubscribes(Head(toServer).id) /\ UNCHANGED link
    <2> DEFINE m == Head(toServer).id
    <2>1. m \in Master
      BY <1>1, <1>4 DEF ToServer
    <2>2. /\ [kind |-> "UNSUBSCRIBED", id |-> m] \in ToClient
          /\ [kind |-> "NO_SUCH_SUBSCRIPTION", id |-> m] \in ToClient
      BY <2>1 DEF ToClient
    <2> QED
      BY <1>4, <2>2, WritesType DEF TypeOK, ServerUnsubscribes
  <1>5. CASE UNCHANGED <<link, toClient, session, given>>
    BY <1>5 DEF TypeOK
  <1>6. CASE link' = "closed" /\ session' = {} /\ UNCHANGED <<toClient, given>>
    BY <1>6 DEF TypeOK
  <1> QED
    BY <1>3, <1>4, <1>5, <1>6 DEF ServerHandles

LEMMA ServerTellsType ==
  ASSUME TypeOK, NEW e \in session, ServerTells(e)
  PROVE  TypeOK'
  <1>1. e.master \in Master
    BY DEF TypeOK, Entry
  <1>2. [kind |-> "var_update", id |-> e.master] \in ToClient
    BY <1>1 DEF ToClient
  <1> QED
    BY <1>2, WritesType
    DEF ServerTells, TypeOK, TypeOKDb, dbVars, clientVars

LEMMA ServerBreaksType == TypeOK /\ ServerBreaks => TypeOK'
  <1> SUFFICES ASSUME TypeOK, ServerBreaks PROVE TypeOK'
    OBVIOUS
  <1>1. /\ link' \in {"open", "closed", "reset"}
        /\ toClient' \in Seq(ToClient)
        /\ session' \subseteq Entry
    <2>1. <<>> \in Seq(ToClient)
      BY EmptySeq
    <2> QED
      BY <2>1 DEF ServerBreaks, TypeOK
  <1> QED
    BY <1>1 DEF ServerBreaks, TypeOK, TypeOKDb, dbVars, clientVars

LEMMA SubmitType ==
  ASSUME TypeOK, NEW c \in Caller, Submit(c)
  PROVE  TypeOK'
  <1>1. PICK k \in CallsOf(c) :
          /\ calls' = Append(calls, k)
          /\ waiting' = [waiting EXCEPT ![c] = Len(calls) + 1]
          /\ posts' = Append(posts, Len(calls) + 1)
    BY DEF Submit
  <1>2. Len(calls) \in Nat /\ Len(calls) < MaxCalls /\ Len(calls) + 1 \in Req
    BY LenProperties, ClientAssumption DEF TypeOK, Submit, Req
  <1>3. k \in Call
    <2>1. VarsOf[c] \subseteq Var
      BY ClientAssumption
    <2>2. Held \subseteq Virtual
      BY LenProperties, ClientAssumption DEF Held, TypeOK, Req
    <2> QED
      BY <2>1, <2>2 DEF CallsOf, Call
  <1>4. calls' \in Seq(Call) /\ Len(calls') <= MaxCalls
    <2>1. calls \in Seq(Call)
      BY DEF TypeOK
    <2>2. calls' \in Seq(Call) /\ Len(calls') = Len(calls) + 1
      BY <1>1, <1>3, <2>1, AppendProperties
    <2> QED
      BY <1>2, <2>2, ClientAssumption
  <1>5. posts' \in Seq(Req)
    BY <1>1, <1>2, AppendProperties DEF TypeOK
  <1>6. waiting' \in [Caller -> Req \cup {0}]
    BY <1>1, <1>2 DEF TypeOK
  <1> QED
    BY <1>4, <1>5, <1>6 DEF Submit, TypeOK, TypeOKDb, dbVars, serverVars

LEMMA GetResultType ==
  ASSUME TypeOK, NEW c \in Caller, GetResult(c)
  PROVE  TypeOK'
  BY DEF GetResult, TypeOK, TypeOKDb, dbVars, serverVars

LEMMA OnSubscriptionRequestedType ==
  ASSUME TypeOK, NEW n \in Req, NEW v \in Var, OnSubscriptionRequested(n, v)
  PROVE  /\ TypeOKDb'
         /\ outcome' \in [Req -> Outcome]
         /\ subReqs' \in [Var -> SUBSET Req]
         /\ unsubReqs' \in [Master -> SUBSET Req]
         /\ toServer' \in Seq(ToServer)
  <1>1. CASE VariableDefined(v)
    <2>1. {n} \in SUBSET Virtual
      BY ClientAssumption
    <2>2. TypeOKDb
      BY DEF TypeOK
    <2>3. AddVirtual(v, {n}) /\ Settle({n}, "ok") /\ UNCHANGED <<subReqs, unsubReqs, toServer>>
      BY <1>1 DEF OnSubscriptionRequested
    <2>4. outcome' \in [Req -> Outcome]
      BY <2>3, SettleType DEF Outcome
    <2> QED
      BY <2>1, <2>2, <2>3, <2>4, AddVirtualType DEF TypeOK
  <1>2. CASE ~VariableDefined(v)
    <2>1. [kind |-> "subscribe", var |-> v] \in ToServer
      BY DEF ToServer
    <2>2. toServer' \in Seq(ToServer)
      BY <1>2, <2>1, SendsType DEF OnSubscriptionRequested
    <2> QED
      BY <1>2, <2>2
      DEF OnSubscriptionRequested, TypeOK, TypeOKDb, dbVars, Outcome
  <1> QED
    BY <1>1, <1>2

LEMMA OnUnsubscriptionRequestedType ==
  ASSUME TypeOK, NEW n \in Req, NEW i, OnUnsubscriptionRequested(n, i)
  PROVE  /\ TypeOKDb'
         /\ outcome' \in [Req -> Outcome]
         /\ subReqs' \in [Var -> SUBSET Req]
         /\ unsubReqs' \in [Master -> SUBSET Req]
         /\ toServer' \in Seq(ToServer)
  <1>1. CASE ~VirtualDefined(i)
    <2>1. /\ Settle({n}, "no_such")
          /\ UNCHANGED <<dbVars, subReqs, unsubReqs, toServer>>
      BY <1>1 DEF OnUnsubscriptionRequested, RemoveVirtual
    <2>2. outcome' \in [Req -> Outcome]
      BY <2>1, SettleType DEF Outcome
    <2> QED
      BY <2>1, <2>2 DEF TypeOK, TypeOKDb, dbVars
  <1>2. CASE VirtualDefined(i)
    <2>1. RemoveVirtual(i) /\ UNCHANGED subReqs
      BY <1>2 DEF OnUnsubscriptionRequested
    <2>2. TypeOKDb'
      BY <2>1, RemoveVirtualType DEF TypeOK
    <2>3. MasterOf(i) \in Master
      BY <1>2, MasterOfType
    <2>4. CASE IsLast(i)
      <3>1. /\ unsubReqs' = [unsubReqs EXCEPT ![MasterOf(i)] = @ \cup {n}]
            /\ Sends([kind |-> "unsubscribe", id |-> MasterOf(i)])
            /\ UNCHANGED outcome
        BY <1>2, <2>4 DEF OnUnsubscriptionRequested
      <3>2. [kind |-> "unsubscribe", id |-> MasterOf(i)] \in ToServer
        BY <2>3 DEF ToServer
      <3>3. toServer' \in Seq(ToServer)
        BY <3>1, <3>2, SendsType
      <3> QED
        BY <2>1, <2>2, <3>1, <3>3 DEF TypeOK, Outcome
    <2>5. CASE ~IsLast(i)
      <3>1. Settle({n}, "ok") /\ UNCHANGED <<unsubReqs, toServer>>
        BY <1>2, <2>5 DEF OnUnsubscriptionRequested
      <3>2. outcome' \in [Req -> Outcome]
        BY <3>1, SettleType DEF Outcome
      <3> QED
        BY <2>1, <2>2, <3>1, <3>2 DEF TypeOK
    <2> QED
      BY <2>4, <2>5
  <1> QED
    BY <1>1, <1>2

LEMMA OnVariableUpdateRequestedType ==
  ASSUME TypeOK, NEW n \in Req, NEW i, OnVariableUpdateRequested(n, i)
  PROVE  /\ TypeOKDb'
         /\ outcome' \in [Req -> Outcome]
         /\ subReqs' \in [Var -> SUBSET Req]
         /\ unsubReqs' \in [Master -> SUBSET Req]
         /\ toServer' \in Seq(ToServer)
  <1>1. CASE VirtualDefined(i)
    <2>1. Sends([kind |-> "update", id |-> MasterOf(i)]) /\ Settle({n}, "ok")
      BY <1>1 DEF OnVariableUpdateRequested
    <2>2. [kind |-> "update", id |-> MasterOf(i)] \in ToServer
      BY <1>1, MasterOfType DEF ToServer
    <2>3. toServer' \in Seq(ToServer)
      BY <2>1, <2>2, SendsType
    <2>4. outcome' \in [Req -> Outcome]
      BY <2>1, SettleType DEF Outcome
    <2> QED
      BY <2>3, <2>4 DEF OnVariableUpdateRequested, TypeOK, TypeOKDb, dbVars
  <1>2. CASE ~VirtualDefined(i)
    <2>1. Settle({n}, "no_such") /\ UNCHANGED toServer
      BY <1>2 DEF OnVariableUpdateRequested
    <2>2. outcome' \in [Req -> Outcome]
      BY <2>1, SettleType DEF Outcome
    <2> QED
      BY <2>1, <2>2 DEF OnVariableUpdateRequested, TypeOK, TypeOKDb, dbVars
  <1> QED
    BY <1>1, <1>2

LEMMA RunPostType ==
  ASSUME TypeOK, RunPost, Head(posts) \in 1..Len(calls)
  PROVE  TypeOK'
  <1> DEFINE n == Head(posts)
  <1>1. n \in Req /\ posts' \in Seq(Req)
    BY HeadTailProperties DEF TypeOK, RunPost
  <1>2. /\ TypeOKDb'
        /\ outcome' \in [Req -> Outcome]
        /\ subReqs' \in [Var -> SUBSET Req]
        /\ unsubReqs' \in [Master -> SUBSET Req]
        /\ toServer' \in Seq(ToServer)
    <2>1. CASE calls[n].op = "subscribe" /\ OnSubscriptionRequested(n, calls[n].var)
      <3>1. calls[n] \in Call
        BY ElementOfSeq DEF TypeOK
      <3>2. calls[n].var \in Var
        BY <2>1, <3>1 DEF Call
      <3> QED
        BY <1>1, <2>1, <3>2, OnSubscriptionRequestedType
    <2>2. CASE calls[n].op = "unsubscribe" /\ OnUnsubscriptionRequested(n, calls[n].id)
      BY <1>1, <2>2, OnUnsubscriptionRequestedType
    <2>3. CASE calls[n].op = "update" /\ OnVariableUpdateRequested(n, calls[n].id)
      BY <1>1, <2>3, OnVariableUpdateRequestedType
    <2> QED
      BY <2>1, <2>2, <2>3 DEF RunPost
  <1>3. crossed' \in BOOLEAN
    BY DEF RunPost, OnSubscriptionRequested, OnUnsubscriptionRequested,
           OnVariableUpdateRequested, TypeOK
  <1> QED
    BY <1>1, <1>2, <1>3 DEF TypeOK, RunPost, Outcome

LEMMA InPoolMembers ==
  ASSUME NEW n
  PROVE  n \in InPool <=> \/ \E v \in Var : n \in subReqs[v]
                          \/ \E m \in Master : n \in unsubReqs[m]
  <1>1. n \in UNION {subReqs[v] : v \in Var} <=> \E v \in Var : n \in subReqs[v]
    OBVIOUS
  <1>2. n \in UNION {unsubReqs[m] : m \in Master} <=> \E m \in Master : n \in unsubReqs[m]
    OBVIOUS
  <1> QED
    BY <1>1, <1>2 DEF InPool

LEMMA InPoolType == TypeOK => InPool \subseteq Req
  BY InPoolMembers DEF TypeOK

LEMMA DisconnectsType ==
  ASSUME TypeOK, NEW S, Disconnects(S)
  PROVE  /\ outcome' \in [Req -> Outcome]
         /\ subReqs' \in [Var -> SUBSET Req]
         /\ unsubReqs' \in [Master -> SUBSET Req]
         /\ conn' \in {"handshake", "connected", "disconnected", "error",
                       "closing", "failing", "closed", "threw", "failed"}
         /\ reading' \in BOOLEAN
  <1>1. outcome' \in [Req -> Outcome]
    BY SettleType DEF Disconnects, Outcome
  <1> QED
    BY <1>1 DEF Disconnects, TypeOK

\* What the handlers of messages change is well-typed after them.
HandledType ==
  /\ TypeOKDb
  /\ outcome \in [Req -> Outcome]
  /\ subReqs \in [Var -> SUBSET Req]
  /\ unsubReqs \in [Master -> SUBSET Req]
  /\ conn \in {"handshake", "connected", "disconnected", "error", "closing",
               "failing", "closed", "threw", "failed"}
  /\ reading \in BOOLEAN

LEMMA OnSubscriptionReplyType ==
  ASSUME TypeOK, NEW m \in ToClient, m.var \in Var,
         m.kind = "SUBSCRIBED" => m.id \in Master,
         OnSubscriptionReplyReceived(m)
  PROVE  HandledType'
  <1> DEFINE S == subReqs[m.var]
  <1>1. S \in SUBSET Req /\ S \in SUBSET Virtual
    BY ClientAssumption DEF TypeOK
  <1>2. CASE Disconnects(InPool \ S) /\ UNCHANGED dbVars
    BY <1>2, DisconnectsType DEF HandledType, TypeOK, TypeOKDb, dbVars
  <1>3. CASE /\ Settle(S, "no_such")
             /\ subReqs' = [subReqs EXCEPT ![m.var] = {}]
             /\ ReadsOn
             /\ UNCHANGED <<dbVars, unsubReqs>>
    <2>1. outcome' \in [Req -> Outcome]
      BY <1>3, SettleType DEF Outcome
    <2> QED
      BY <1>3, <2>1 DEF HandledType, TypeOK, TypeOKDb, dbVars, ReadsOn
  <1>4. CASE /\ m.kind = "SUBSCRIBED"
             /\ AddVirtual(m.var, S) \/ CreateEntry(m.var, m.id, S)
             /\ Settle(S, "ok")
             /\ subReqs' = [subReqs EXCEPT ![m.var] = {}]
             /\ ReadsOn
             /\ UNCHANGED unsubReqs
    <2>1. outcome' \in [Req -> Outcome]
      BY <1>4, SettleType DEF Outcome
    <2>2. TypeOKDb'
      BY <1>1, <1>4, AddVirtualType, CreateEntryType DEF TypeOK
    <2> QED
      BY <1>4, <2>1, <2>2 DEF HandledType, TypeOK, ReadsOn
  <1> QED
    BY <1>2, <1>3, <1>4 DEF OnSubscriptionReplyReceived

LEMMA OnUnsubscriptionReplyType ==
  ASSUME TypeOK, NEW m \in ToClient, m.id \in Master,
         OnUnsubscriptionReplyReceived(m)
  PROVE  HandledType'
  <1> DEFINE S == unsubReqs[m.id]
             how == IF m.kind = "UNSUBSCRIBED" THEN "ok" ELSE "no_such"
  <1>1. TypeOKDb'
    BY DEF OnUnsubscriptionReplyReceived, TypeOK, TypeOKDb, dbVars
  <1>2. CASE Disconnects(InPool)
    BY <1>1, <1>2, DisconnectsType DEF HandledType
  <1>3. CASE /\ Settle(S, how)
             /\ unsubReqs' = [unsubReqs EXCEPT ![m.id] = {}]
             /\ ReadsOn
             /\ UNCHANGED subReqs
    <2>1. how \in Outcome
      BY DEF Outcome
    <2>2. outcome' \in [Req -> Outcome]
      BY <1>3, <2>1, SettleType
    <2> QED
      BY <1>1, <1>3, <2>2 DEF HandledType, TypeOK, ReadsOn
  <1> QED
    BY <1>2, <1>3 DEF OnUnsubscriptionReplyReceived

LEMMA OnMessageReceivedType ==
  ASSUME TypeOK, NEW n \in Nat, NEW h \in BOOLEAN, OnMessageReceived(n, h)
  PROVE  TypeOK'
  <1> DEFINE m == Head(Received(n))
  <1>1. /\ toClient' \in Seq(ToClient)
        /\ inbuf' \in Seq(ToClient)
        /\ m \in ToClient
    BY ReceivesType DEF OnMessageReceived
  <1>2. HandledType'
    <2>1. CASE /\ m.kind \in {"SUBSCRIBED", "NO_SUCH_VAR", "VAR_ALREADY_SUBSCRIBED"}
               /\ OnSubscriptionReplyReceived(m)
      <3>1. m.var \in Var /\ (m.kind = "SUBSCRIBED" => m.id \in Master)
        BY <1>1, <2>1 DEF ToClient
      <3> QED
        BY <1>1, <2>1, <3>1, OnSubscriptionReplyType
    <2>2. CASE /\ m.kind \in {"UNSUBSCRIBED", "NO_SUCH_SUBSCRIPTION"}
               /\ OnUnsubscriptionReplyReceived(m)
      <3>1. m.id \in Master
        BY <1>1, <2>2 DEF ToClient
      <3> QED
        BY <1>1, <2>2, <3>1, OnUnsubscriptionReplyType
    <2>3. CASE OnVariableUpdateReceived
      BY <2>3
      DEF OnVariableUpdateReceived, ReadsOn, HandledType, TypeOK, TypeOKDb,
          dbVars, Outcome
    <2> QED
      BY <2>1, <2>2, <2>3 DEF OnMessageReceived
  <1> QED
    BY <1>1, <1>2 DEF OnMessageReceived, TypeOK, HandledType, Outcome

LEMMA OnPartialMessageReceivedType ==
  TypeOK /\ OnPartialMessageReceived => TypeOK'
  <1> SUFFICES ASSUME TypeOK, OnPartialMessageReceived PROVE TypeOK'
    OBVIOUS
  <1>1. toClient' \in Seq(ToClient)
    BY ReceivesType DEF OnPartialMessageReceived
  <1> QED
    BY <1>1 DEF OnPartialMessageReceived, TypeOK, TypeOKDb, dbVars

\* The messages dropped with the rest of one.
LEMMA MissedType ==
  ASSUME TypeOK, NEW n \in Nat, n <= Len(toClient)
  PROVE  {toClient[i] : i \in 1..n} \subseteq ToClient
  <1>1. toClient \in Seq(ToClient) /\ Len(toClient) \in Nat
    BY LenProperties DEF TypeOK
  <1>2. \A i \in 1..n : toClient[i] \in ToClient
    BY <1>1, ElementOfSeq
  <1> QED
    BY <1>2

LEMMA OnGarbageReceivedType ==
  ASSUME TypeOK, NEW n \in Nat, NEW h \in BOOLEAN, OnGarbageReceived(n, h)
  PROVE  TypeOK'
  <1>1. CASE Disconnects(InPool) /\ UNCHANGED <<torn, missed, toClient>>
    BY <1>1, DisconnectsType
    DEF OnGarbageReceived, TypeOK, TypeOKDb, dbVars, Outcome
  <1>2. CASE /\ Receives(n, h)
             /\ torn' = h
             /\ missed' = missed \cup {toClient[i] : i \in 1..n}
             /\ ReadsOn
             /\ UNCHANGED <<outcome, subReqs, unsubReqs>>
    <2>1. toClient' \in Seq(ToClient)
      BY <1>2, ReceivesType
    <2>2. missed' \subseteq ToClient
      BY <1>2, MissedType DEF Receives, TypeOK
    <2> QED
      BY <1>2, <2>1, <2>2 DEF OnGarbageReceived, ReadsOn, TypeOK, TypeOKDb, dbVars
  <1> QED
    BY <1>1, <1>2 DEF OnGarbageReceived

LEMMA OnReadErrorType == TypeOK /\ OnReadError => TypeOK'
  <1> SUFFICES ASSUME TypeOK, OnReadError PROVE TypeOK'
    OBVIOUS
  <1>1. CASE Disconnects(InPool)
    BY <1>1, DisconnectsType
    DEF OnReadError, TypeOK, TypeOKDb, dbVars, serverVars, Outcome
  <1>2. CASE /\ conn' = IF conn = "connected" THEN "disconnected" ELSE conn
             /\ reading' = FALSE
             /\ UNCHANGED <<outcome, subReqs, unsubReqs>>
    BY <1>2 DEF OnReadError, TypeOK, TypeOKDb, dbVars, serverVars
  <1> QED
    BY <1>1, <1>2 DEF OnReadError

LEMMA HandshakeType ==
  ASSUME TypeOK, NEW n \in Nat, NEW h \in BOOLEAN, Handshake(n, h)
  PROVE  TypeOK'
  <1>1. toClient' \in Seq(ToClient)
    BY ReceivesType DEF Handshake
  <1>2. /\ inbuf' \in Seq(ToClient)
        /\ conn' \in {"connected", "failed"}
        /\ thread' \in {"none", "starting", "running", "exited"}
        /\ reading' \in BOOLEAN
    BY ReceivesType DEF Handshake, Greeted, TypeOK
  <1> QED
    BY <1>1, <1>2 DEF Handshake, TypeOK, TypeOKDb, dbVars

LEMMA JoinType == TypeOK /\ Join => TypeOK'
  <1> SUFFICES ASSUME TypeOK, Join PROVE TypeOK'
    OBVIOUS
  <1>1. [kind |-> "end"] \in ToServer
    BY DEF ToServer
  <1>2. /\ toServer' \in Seq(ToServer)
        /\ conn' \in {"closing", "failing", "closed"}
    BY <1>1, SendsType DEF Join, TypeOK
  <1> QED
    BY <1>2 DEF Join, TypeOK, TypeOKDb, dbVars

\* The steps that begin or end something: nothing but flags change.
FlagStep ==
  ThreadStarts \/ ThreadExits \/ HandshakeFails \/ Stop \/ ResidualRead \/ Closed

LEMMA FlagStepType == TypeOK /\ FlagStep => TypeOK'
  <1> SUFFICES ASSUME TypeOK, FlagStep PROVE TypeOK'
    OBVIOUS
  <1>1. /\ UNCHANGED <<dbVars, serverVars, calls, outcome, waiting, posts, subReqs,
                       unsubReqs, crossed, inbuf, torn, missed>>
        /\ conn' \in {conn, "failed", "closed", "threw"}
        /\ thread' \in {thread, "running", "exited"}
        /\ stop' \in {stop, "set", "lost"}
        /\ reading' \in {reading, FALSE}
    BY DEF FlagStep, ThreadStarts, ThreadExits, HandshakeFails, Stop, ResidualRead,
           Closed
  <1>2. /\ conn' \in {"handshake", "connected", "disconnected", "error", "closing",
                      "failing", "closed", "threw", "failed"}
        /\ thread' \in {"none", "starting", "running", "exited"}
        /\ stop' \in {"none", "set", "lost"}
        /\ reading' \in BOOLEAN
    BY <1>1 DEF TypeOK
  <1> QED
    BY <1>1, <1>2 DEF TypeOK, TypeOKDb, dbVars, serverVars

-----------------------------------------------------------------------------
(* The way of a request: posted, perhaps pooled, settled.                  *)

Posted == {posts[i] : i \in DOMAIN posts}

PostedOnce == \A i, j \in DOMAIN posts : posts[i] = posts[j] => i = j

PoolDisjoint ==
  /\ \A v, w \in Var : v # w => subReqs[v] \cap subReqs[w] = {}
  /\ \A m, k \in Master : m # k => unsubReqs[m] \cap unsubReqs[k] = {}
  /\ \A v \in Var, m \in Master : subReqs[v] \cap unsubReqs[m] = {}

\* A request is in one place at most until it is settled, and has no virtual
\* subscription before.
OnePlace ==
  /\ PostedOnce
  /\ PoolDisjoint
  /\ Posted \cap InPool = {}
  /\ \A n \in Posted \cup InPool :
       n \in 1..Len(calls) /\ outcome[n] = "pending" /\ n \notin VirtualIds
  /\ VirtualIds \subseteq 1..Len(calls)
  /\ \A n \in Req : n > Len(calls) => outcome[n] = "pending"

\* What an unsubscription is for has been given, and is gone for good when the
\* request has been run.
Unsubscribed ==
  \A n \in DOMAIN calls :
    calls[n].op = "unsubscribe" =>
      /\ calls[n].id \in 1..Len(calls)
      /\ outcome[calls[n].id] = "ok"
      /\ n \notin Posted => calls[n].id \notin VirtualIds

\* The inductive invariant: TypeOK is not inductive alone, since a post must
\* be a call that has been made.
ClientInv == TypeOK /\ DbConsistent /\ OnePlace /\ Unsubscribed

\* A step settles only what is not settled.
Settles == \A n \in Req : outcome'[n] # outcome[n] => outcome[n] = "pending"

\* A step of a request: those in S leave the posts and the pool, and only they
\* are settled or get a virtual subscription.
LEMMA RequestsProgress ==
  ASSUME TypeOK, OnePlace, Unsubscribed, NEW S,
         S \subseteq Posted \cup InPool,
         UNCHANGED calls,
         PostedOnce', PoolDisjoint',
         Posted' \subseteq Posted \ S,
         InPool' \subseteq (Posted \cup InPool) \ S,
         Posted' \cap InPool' = {},
         VirtualIds' \subseteq VirtualIds \cup S,
         \A n \in Req \ S : outcome'[n] = outcome[n],
         \A n \in Posted \ Posted' :
           calls[n].op = "unsubscribe" => calls[n].id \notin VirtualIds'
  PROVE  OnePlace' /\ Unsubscribed' /\ Settles
  <1>1. Len(calls) \in Nat /\ 1..Len(calls) \subseteq Req /\ DOMAIN calls = 1..Len(calls)
    BY LenProperties, ClientAssumption DEF TypeOK, Req
  <1>2. Posted' \cup InPool' \subseteq (Posted \cup InPool) \ S
    OBVIOUS
  <1>3. \A n \in Posted' \cup InPool' :
          n \in 1..Len(calls) /\ outcome'[n] = "pending" /\ n \notin VirtualIds'
    BY <1>1, <1>2 DEF OnePlace
  <1>4. S \subseteq 1..Len(calls)
    BY DEF OnePlace
  <1>5. VirtualIds' \subseteq 1..Len(calls)
    BY <1>4 DEF OnePlace
  <1>6. \A n \in Req : n > Len(calls) => outcome'[n] = "pending"
    <2> SUFFICES ASSUME NEW n \in Req, n > Len(calls) PROVE outcome'[n] = "pending"
      OBVIOUS
    <2>1. n \in Int
      BY ClientAssumption DEF Req
    <2>2. n \notin S
      BY <1>1, <1>4, <2>1
    <2> QED
      BY <2>2 DEF OnePlace
  <1>7. OnePlace'
    BY <1>3, <1>5, <1>6 DEF OnePlace
  <1>8. ASSUME NEW n \in DOMAIN calls, calls[n].op = "unsubscribe"
        PROVE  /\ calls[n].id \in 1..Len(calls)
               /\ outcome'[calls[n].id] = "ok"
               /\ n \notin Posted' => calls[n].id \notin VirtualIds'
    <2>1. calls[n].id \in 1..Len(calls) /\ outcome[calls[n].id] = "ok"
      BY <1>8 DEF Unsubscribed
    <2>2. calls[n].id \notin S
      BY <2>1 DEF OnePlace
    <2>3. n \notin Posted => calls[n].id \notin VirtualIds'
      BY <1>8, <2>2 DEF Unsubscribed
    <2> QED
      BY <1>1, <1>8, <2>1, <2>2, <2>3
  <1>9. Unsubscribed'
    BY <1>8 DEF Unsubscribed
  <1>10. Settles
    BY DEF OnePlace, Settles
  <1> QED
    BY <1>7, <1>9, <1>10

\* Nothing of a request changes.
LEMMA RequestsStay ==
  ASSUME ClientInv,
         UNCHANGED <<dbVars, calls, outcome, posts, subReqs, unsubReqs>>
  PROVE  DbConsistent' /\ OnePlace' /\ Unsubscribed' /\ Settles
  <1>1. DbConsistent'
    BY DEF ClientInv, DbConsistent, dbVars
  <1>2. Posted' = Posted /\ InPool' = InPool /\ VirtualIds' = VirtualIds
    BY DEF Posted, InPool, VirtualIds, dbVars
  <1>3. PostedOnce' /\ PoolDisjoint'
    BY DEF ClientInv, OnePlace, PostedOnce, PoolDisjoint
  <1> QED
    BY <1>1, <1>2, <1>3 DEF ClientInv, OnePlace, Unsubscribed, Settles

LEMMA PostsPopped ==
  ASSUME TypeOK, PostedOnce, posts # <<>>, posts' = Tail(posts)
  PROVE  /\ PostedOnce'
         /\ Posted' = Posted \ {Head(posts)}
         /\ Head(posts) \in Posted
  <1>1. posts \in Seq(Req) /\ Len(posts) \in Nat \ {0} /\ DOMAIN posts = 1..Len(posts)
    BY LenProperties, EmptySeq DEF TypeOK
  <1>2. /\ Tail(posts) \in Seq(Req)
        /\ Len(Tail(posts)) = Len(posts) - 1
        /\ \A i \in 1..Len(Tail(posts)) : Tail(posts)[i] = posts[i + 1]
    BY <1>1, HeadTailProperties
  <1>3. DOMAIN Tail(posts) = 1..(Len(posts) - 1)
    BY <1>2, LenProperties
  <1>4. \A i \in DOMAIN posts' : posts'[i] = posts[i + 1] /\ i + 1 \in DOMAIN posts
    BY <1>1, <1>2, <1>3
  <1>5. Head(posts) = posts[1] /\ 1 \in DOMAIN posts
    BY <1>1
  <1>6. PostedOnce'
    <2> SUFFICES ASSUME NEW i \in DOMAIN posts', NEW j \in DOMAIN posts',
                        posts'[i] = posts'[j]
                 PROVE  i = j
      BY DEF PostedOnce
    <2>1. i + 1 = j + 1
      BY <1>4 DEF PostedOnce
    <2> QED
      BY <1>3, <2>1
  <1>7. \A n \in Posted' : n \in Posted /\ n # posts[1]
    <2> SUFFICES ASSUME NEW i \in DOMAIN posts'
                 PROVE  posts'[i] \in Posted /\ posts'[i] # posts[1]
      BY DEF Posted
    <2>1. posts'[i] = posts[i + 1] /\ i + 1 \in DOMAIN posts /\ i + 1 # 1
      BY <1>3, <1>4
    <2> QED
      BY <1>5, <2>1 DEF Posted, PostedOnce
  <1>8. \A n \in Posted : n # posts[1] => n \in Posted'
    <2> SUFFICES ASSUME NEW i \in DOMAIN posts, posts[i] # posts[1]
                 PROVE  posts[i] \in Posted'
      BY DEF Posted
    <2>1. i - 1 \in DOMAIN posts' /\ (i - 1) + 1 = i
      BY <1>1, <1>3
    <2>2. posts'[i - 1] = posts[i]
      BY <1>4, <2>1
    <2> QED
      BY <2>1, <2>2 DEF Posted
  <1> QED
    BY <1>5, <1>6, <1>7, <1>8 DEF Posted

\* The pool: an insertion, and the three ways its requests leave it.
LEMMA SubReqInserted ==
  ASSUME TypeOK, PoolDisjoint, NEW n, n \notin InPool, NEW v \in Var,
         subReqs' = [subReqs EXCEPT ![v] = @ \cup {n}], UNCHANGED unsubReqs
  PROVE  PoolDisjoint' /\ InPool' = InPool \cup {n}
  <1>1. \A w \in Var : subReqs'[w] = IF w = v THEN subReqs[v] \cup {n} ELSE subReqs[w]
    BY DEF TypeOK
  <1>2. \A w \in Var : n \notin subReqs[w]
    BY DEF InPool
  <1>3. \A m \in Master : n \notin unsubReqs[m]
    BY DEF InPool
  <1>4. PoolDisjoint'
    BY <1>1, <1>2, <1>3 DEF PoolDisjoint
  <1>5. \A x : x \in InPool' <=> \/ \E w \in Var : x \in subReqs'[w]
                               \/ \E m \in Master : x \in unsubReqs[m]
    BY DEF InPool
  <1> QED
    BY <1>1, <1>4, <1>5, InPoolMembers

LEMMA UnsubReqInserted ==
  ASSUME TypeOK, PoolDisjoint, NEW n, n \notin InPool, NEW m \in Master,
         unsubReqs' = [unsubReqs EXCEPT ![m] = @ \cup {n}], UNCHANGED subReqs
  PROVE  PoolDisjoint' /\ InPool' = InPool \cup {n}
  <1>1. \A k \in Master : unsubReqs'[k] = IF k = m THEN unsubReqs[m] \cup {n} ELSE unsubReqs[k]
    BY DEF TypeOK
  <1>2. \A v \in Var : n \notin subReqs[v]
    BY DEF InPool
  <1>3. \A k \in Master : n \notin unsubReqs[k]
    BY DEF InPool
  <1>4. PoolDisjoint'
    BY <1>1, <1>2, <1>3 DEF PoolDisjoint
  <1>5. \A x : x \in InPool' <=> \/ \E w \in Var : x \in subReqs[w]
                               \/ \E k \in Master : x \in unsubReqs'[k]
    BY DEF InPool
  <1> QED
    BY <1>1, <1>4, <1>5, InPoolMembers

LEMMA SubReqsPopped ==
  ASSUME TypeOK, PoolDisjoint, NEW v \in Var,
         subReqs' = [subReqs EXCEPT ![v] = {}], UNCHANGED unsubReqs
  PROVE  PoolDisjoint' /\ InPool' = InPool \ subReqs[v]
  <1>1. \A w \in Var : subReqs'[w] = IF w = v THEN {} ELSE subReqs[w]
    BY DEF TypeOK
  <1>2. PoolDisjoint'
    BY <1>1 DEF PoolDisjoint
  <1>3. \A x : x \in InPool' <=> \/ \E w \in Var : x \in subReqs'[w]
                               \/ \E m \in Master : x \in unsubReqs[m]
    BY DEF InPool
  <1> QED
    BY <1>1, <1>2, <1>3, InPoolMembers DEF PoolDisjoint

LEMMA UnsubReqsPopped ==
  ASSUME TypeOK, PoolDisjoint, NEW m \in Master,
         unsubReqs' = [unsubReqs EXCEPT ![m] = {}], UNCHANGED subReqs
  PROVE  PoolDisjoint' /\ InPool' = InPool \ unsubReqs[m]
  <1>1. \A k \in Master : unsubReqs'[k] = IF k = m THEN {} ELSE unsubReqs[k]
    BY DEF TypeOK
  <1>2. PoolDisjoint'
    BY <1>1 DEF PoolDisjoint
  <1>3. \A x : x \in InPool' <=> \/ \E v \in Var : x \in subReqs[v]
                               \/ \E k \in Master : x \in unsubReqs'[k]
    BY DEF InPool
  <1> QED
    BY <1>1, <1>2, <1>3, InPoolMembers DEF PoolDisjoint

LEMMA PoolEmptied ==
  ASSUME NEW S, Disconnects(S)
  PROVE  PoolDisjoint' /\ InPool' = {}
  <1>1. /\ subReqs' = [v \in Var |-> {}]
        /\ unsubReqs' = [m \in Master |-> {}]
    BY DEF Disconnects
  <1>2. PoolDisjoint'
    BY <1>1 DEF PoolDisjoint
  <1>3. \A x : x \in InPool' <=> \/ \E v \in Var : x \in subReqs'[v]
                               \/ \E m \in Master : x \in unsubReqs'[m]
    BY DEF InPool
  <1> QED
    BY <1>1, <1>2, <1>3

LEMMA InitClientInv == Init => ClientInv
  <1> SUFFICES ASSUME Init PROVE ClientInv
    OBVIOUS
  <1>1. DbConsistent
    BY DEF Init, InitDb, DbConsistent
  <1>2. Posted = {} /\ PostedOnce
    BY DEF Init, Posted, PostedOnce
  <1>3. InPool = {} /\ PoolDisjoint
    BY DEF Init, InPool, PoolDisjoint
  <1>4. VirtualIds = {}
    BY DEF Init, InitDb, VirtualIds
  <1>5. OnePlace
    BY <1>2, <1>3, <1>4 DEF Init, OnePlace
  <1>6. Unsubscribed
    BY DEF Init, Unsubscribed
  <1> QED
    BY <1>1, <1>5, <1>6, InitType DEF ClientInv

\* A call is appended, and its request posted.
LEMMA CallAppended ==
  ASSUME TypeOK, NEW c \in Caller, Submit(c), NEW k,
         calls' = Append(calls, k), posts' = Append(posts, Len(calls) + 1)
  PROVE  /\ Len(calls') = Len(calls) + 1
         /\ DOMAIN calls' = 1..(Len(calls) + 1)
         /\ \A x \in DOMAIN calls : x \in DOMAIN calls' /\ calls'[x] = calls[x]
         /\ calls'[Len(calls) + 1] = k
         /\ \A i \in DOMAIN posts : posts'[i] = posts[i]
         /\ DOMAIN posts' = 1..(Len(posts) + 1)
         /\ posts'[Len(posts) + 1] = Len(calls) + 1
         /\ Posted' = Posted \cup {Len(calls) + 1}
  <1> DEFINE n == Len(calls) + 1
  <1>1. TypeOK'
    BY SubmitType
  <1>2. /\ Len(calls) \in Nat /\ n \in Req
        /\ DOMAIN calls = 1..Len(calls)
        /\ DOMAIN posts = 1..Len(posts) /\ Len(posts) \in Nat
    BY LenProperties, ClientAssumption DEF TypeOK, Submit, Req
  <1>3. /\ DOMAIN posts' = 1..(Len(posts) + 1)
        /\ \A i \in DOMAIN posts : posts'[i] = posts[i]
        /\ posts'[Len(posts) + 1] = n
    <2>1. posts \in Seq(Req) /\ posts' \in Seq(Req)
      BY <1>1 DEF TypeOK
    <2>2. /\ Len(posts') = Len(posts) + 1
          /\ \A i \in 1..Len(posts) : posts'[i] = posts[i]
          /\ posts'[Len(posts) + 1] = n
      BY <1>2, <2>1, AppendProperties
    <2> QED
      BY <1>2, <2>1, <2>2, LenProperties
  <1>4. /\ Len(calls') = n
        /\ DOMAIN calls' = 1..n
        /\ \A i \in 1..Len(calls) : calls'[i] = calls[i]
        /\ calls'[n] = k
    <2>1. calls \in Seq(Call) /\ calls' \in Seq(Call)
      BY <1>1 DEF TypeOK
    <2>2. calls \in Seq(Call \cup {k}) /\ k \in Call \cup {k}
      BY <2>1, SeqMonotonic
    <2>3. /\ Len(calls') = Len(calls) + 1
          /\ \A i \in 1..Len(calls) : calls'[i] = calls[i]
          /\ calls'[Len(calls) + 1] = k
      BY <2>2, AppendProperties
    <2> QED
      BY <1>2, <2>1, <2>3, LenProperties
  <1>5. Posted' = Posted \cup {n}
    <2>1. \A x \in Posted' : x \in Posted \cup {n}
      BY <1>2, <1>3 DEF Posted
    <2>2. \A x \in Posted : x \in Posted'
      BY <1>2, <1>3 DEF Posted
    <2>3. n \in Posted'
      BY <1>2, <1>3 DEF Posted
    <2> QED
      BY <2>1, <2>2, <2>3
  <1> QED
    BY <1>2, <1>3, <1>4, <1>5

LEMMA SubmitInv ==
  ASSUME ClientInv, NEW c \in Caller, Submit(c)
  PROVE  ClientInv' /\ Settles
  <1>1. PICK k \in CallsOf(c) :
          /\ calls' = Append(calls, k)
          /\ posts' = Append(posts, Len(calls) + 1)
    BY DEF Submit
  <1> DEFINE n == Len(calls) + 1
  <1>2. TypeOK /\ TypeOK'
    BY SubmitType DEF ClientInv
  <1>3. /\ Len(calls) \in Nat /\ n \in Req
        /\ DOMAIN calls = 1..Len(calls)
        /\ DOMAIN posts = 1..Len(posts) /\ Len(posts) \in Nat
    BY <1>2, LenProperties, ClientAssumption DEF TypeOK, Submit, Req
  <1>4. /\ DOMAIN posts' = 1..(Len(posts) + 1)
        /\ \A i \in DOMAIN posts : posts'[i] = posts[i]
        /\ posts'[Len(posts) + 1] = n
    BY <1>1, <1>2, CallAppended
  <1>5. /\ Len(calls') = n
        /\ DOMAIN calls' = 1..n
        /\ \A i \in 1..Len(calls) : calls'[i] = calls[i]
        /\ calls'[n] = k
    BY <1>1, <1>2, <1>3, CallAppended
  <1>6. UNCHANGED <<dbVars, outcome, subReqs, unsubReqs>>
    BY DEF Submit
  <1>7. InPool' = InPool /\ PoolDisjoint' /\ VirtualIds' = VirtualIds
    BY <1>6 DEF ClientInv, OnePlace, InPool, PoolDisjoint, VirtualIds, dbVars
  <1>8. Posted' = Posted \cup {n}
    BY <1>1, <1>2, CallAppended
  <1>9. \A x \in Posted \cup InPool : x \in 1..Len(calls) /\ x # n
    BY <1>3 DEF ClientInv, OnePlace
  <1>10. PostedOnce'
    <2> SUFFICES ASSUME NEW i \in DOMAIN posts', NEW j \in DOMAIN posts',
                        posts'[i] = posts'[j]
                 PROVE  i = j
      BY DEF PostedOnce
    <2>1. \A x \in DOMAIN posts : posts[x] # n
      BY <1>9 DEF Posted
    <2> QED
      BY <1>3, <1>4, <2>1 DEF ClientInv, OnePlace, PostedOnce
  <1>11. outcome[n] = "pending" /\ n \notin VirtualIds
    BY <1>3 DEF ClientInv, OnePlace
  <1>12. OnePlace'
    <2>1. Posted' \cap InPool' = {}
      BY <1>7, <1>8, <1>9 DEF ClientInv, OnePlace
    <2>2. 1..Len(calls) \subseteq 1..n /\ n \in 1..n
      BY <1>3
    <2>3. \A x \in Posted' \cup InPool' :
            x \in 1..n /\ outcome'[x] = "pending" /\ x \notin VirtualIds'
      BY <1>6, <1>7, <1>8, <1>11, <2>2 DEF ClientInv, OnePlace
    <2>4. \A x \in Req : x > n => outcome'[x] = "pending"
      <3> SUFFICES ASSUME NEW x \in Req, x > n PROVE outcome[x] = "pending"
        BY <1>6
      <3>1. x > Len(calls)
        BY <1>3, ClientAssumption DEF Req
      <3> QED
        BY <3>1 DEF ClientInv, OnePlace
    <2>5. VirtualIds' \subseteq 1..n
      BY <1>7, <2>2 DEF ClientInv, OnePlace
    <2> QED
      BY <1>5, <1>7, <1>10, <2>1, <2>3, <2>4, <2>5 DEF OnePlace
  <1>13. Unsubscribed'
    <2> SUFFICES ASSUME NEW x \in 1..n, calls'[x].op = "unsubscribe"
                 PROVE  /\ calls'[x].id \in 1..n
                        /\ outcome[calls'[x].id] = "ok"
                        /\ x \notin Posted' => calls'[x].id \notin VirtualIds
      BY <1>5, <1>6, <1>7 DEF Unsubscribed
    <2>1. CASE x = n
      <3>1. k.op = "unsubscribe"
        BY <1>5, <2>1
      <3>2. k.id \in Held
        BY <3>1 DEF CallsOf
      <3>3. k.id \in 1..Len(calls) /\ outcome[k.id] = "ok"
        BY <1>3, <3>2 DEF Held
      <3> QED
        BY <1>3, <1>5, <1>8, <2>1, <3>3
    <2>2. CASE x # n
      <3>1. x \in DOMAIN calls /\ calls'[x] = calls[x]
        BY <1>3, <1>5, <2>2
      <3>2. /\ calls[x].id \in 1..Len(calls)
            /\ outcome[calls[x].id] = "ok"
            /\ x \notin Posted => calls[x].id \notin VirtualIds
        BY <3>1 DEF ClientInv, Unsubscribed
      <3> QED
        BY <1>3, <1>8, <3>1, <3>2
    <2> QED
      BY <2>1, <2>2
  <1>14. DbConsistent'
    BY <1>6 DEF ClientInv, DbConsistent, dbVars
  <1> QED
    BY <1>2, <1>6, <1>12, <1>13, <1>14 DEF ClientInv, Settles

LEMMA VirtualIdsMembers == \A i : VirtualDefined(i) <=> i \in VirtualIds
  BY DEF VirtualDefined, VirtualIds

LEMMA AddVirtualIds ==
  ASSUME NEW v, NEW ids, AddVirtual(v, ids)
  PROVE  VirtualIds' \subseteq VirtualIds \cup ids
  BY DEF AddVirtual, VirtualIds, Bind

LEMMA CreateEntryIds ==
  ASSUME NEW v, NEW m, NEW ids, CreateEntry(v, m, ids)
  PROVE  VirtualIds' \subseteq VirtualIds \cup ids
  BY DEF CreateEntry, VirtualIds, Bind

LEMMA RemoveVirtualIds ==
  ASSUME NEW i, RemoveVirtual(i)
  PROVE  VirtualIds' = VirtualIds \ {i}
  BY DEF RemoveVirtual, VirtualIds

LEMMA RunPostInv ==
  ASSUME ClientInv, RunPost
  PROVE  ClientInv' /\ Settles
  <1> DEFINE n == Head(posts)
  <1>1. /\ PostedOnce'
        /\ Posted' = Posted \ {n}
        /\ n \in Posted
    BY PostsPopped DEF ClientInv, OnePlace, RunPost
  <1>2. /\ n \in 1..Len(calls)
        /\ n \notin VirtualIds
        /\ n \notin InPool
        /\ UNCHANGED calls
    BY <1>1 DEF ClientInv, OnePlace, RunPost
  <1>3. TypeOK /\ TypeOK'
    BY <1>2, RunPostType DEF ClientInv
  <1>4. Posted \cap InPool = {} /\ PoolDisjoint /\ DbConsistent
    BY DEF ClientInv, OnePlace
  <1> SUFFICES ASSUME NEW S \in SUBSET {n},
                      \A x \in Req \ S : outcome'[x] = outcome[x],
                      PoolDisjoint',
                      InPool' \subseteq InPool \cup ({n} \ S),
                      VirtualIds' \subseteq VirtualIds \cup S,
                      calls[n].op = "unsubscribe" => calls[n].id \notin VirtualIds',
                      DbConsistent'
               PROVE  ClientInv' /\ Settles
    <2>1. n \in Req
      BY <1>2, LenProperties, ClientAssumption DEF ClientInv, TypeOK, Req
    <2>2. \A how : Settle({n}, how) => \A x \in Req \ {n} : outcome'[x] = outcome[x]
      BY <1>3 DEF Settle
    <2>3. UNCHANGED <<subReqs, unsubReqs>> => PoolDisjoint' /\ InPool' = InPool
      BY <1>4 DEF PoolDisjoint, InPool
    <2>4. UNCHANGED dbVars => VirtualIds' = VirtualIds /\ DbConsistent'
      BY <1>4 DEF DbConsistent, VirtualIds, dbVars
    <2>5. {n} \in SUBSET {n} /\ {} \in SUBSET {n}
      OBVIOUS
    <2>6. CASE /\ calls[n].op = "subscribe"
               /\ AddVirtual(calls[n].var, {n})
               /\ Settle({n}, "ok")
               /\ UNCHANGED <<subReqs, unsubReqs>>
      <3>1. DbConsistent'
        BY <1>2, <1>4, <2>6, AddVirtualConsistent
      <3> QED
        BY <2>2, <2>3, <2>5, <2>6, <3>1, AddVirtualIds
    <2>7. CASE /\ calls[n].op = "subscribe"
               /\ subReqs' = [subReqs EXCEPT ![calls[n].var] = @ \cup {n}]
               /\ UNCHANGED <<dbVars, outcome, unsubReqs>>
      <3>1. calls[n] \in Call
        BY <1>2, <1>3, ElementOfSeq DEF TypeOK
      <3>2. calls[n].var \in Var
        BY <2>7, <3>1 DEF Call
      <3>3. PoolDisjoint' /\ InPool' = InPool \cup {n}
        BY <1>2, <1>3, <1>4, <2>7, <3>2, SubReqInserted
      <3> QED
        BY <2>4, <2>5, <2>7, <3>3
    <2>8. CASE /\ ~VirtualDefined(calls[n].id)
               /\ Settle({n}, "no_such")
               /\ UNCHANGED <<dbVars, subReqs, unsubReqs>>
      BY <2>2, <2>3, <2>4, <2>5, <2>8, VirtualIdsMembers
    <2>9. CASE /\ RemoveVirtual(calls[n].id)
               /\ unsubReqs' = [unsubReqs EXCEPT ![MasterOf(calls[n].id)] = @ \cup {n}]
               /\ UNCHANGED <<outcome, subReqs>>
      <3>1. MasterOf(calls[n].id) \in Master
        BY <1>3, <2>9, MasterOfType DEF RemoveVirtual
      <3>2. PoolDisjoint' /\ InPool' = InPool \cup {n}
        BY <1>2, <1>3, <1>4, <2>9, <3>1, UnsubReqInserted
      <3>3. VirtualIds' = VirtualIds \ {calls[n].id}
        BY <2>9, RemoveVirtualIds
      <3>4. DbConsistent'
        BY <1>4, <2>9, RemoveVirtualConsistent
      <3> QED
        BY <2>5, <2>9, <3>2, <3>3, <3>4
    <2>10. CASE /\ RemoveVirtual(calls[n].id)
                /\ Settle({n}, "ok")
                /\ UNCHANGED <<subReqs, unsubReqs>>
      <3>1. VirtualIds' = VirtualIds \ {calls[n].id}
        BY <2>10, RemoveVirtualIds
      <3>2. DbConsistent'
        BY <1>4, <2>10, RemoveVirtualConsistent
      <3> QED
        BY <2>2, <2>3, <2>5, <2>10, <3>1, <3>2
    <2>11. CASE /\ calls[n].op = "update"
                /\ Settle({n}, "ok") \/ Settle({n}, "no_such")
                /\ UNCHANGED <<dbVars, subReqs, unsubReqs>>
      BY <2>2, <2>3, <2>4, <2>5, <2>11
    <2>12. CASE calls[n].op = "subscribe" /\ OnSubscriptionRequested(n, calls[n].var)
      BY <2>6, <2>7, <2>12 DEF OnSubscriptionRequested
    <2>13. CASE calls[n].op = "unsubscribe" /\ OnUnsubscriptionRequested(n, calls[n].id)
      BY <2>8, <2>9, <2>10, <2>13 DEF OnUnsubscriptionRequested
    <2>14. CASE calls[n].op = "update" /\ OnVariableUpdateRequested(n, calls[n].id)
      BY <2>11, <2>14 DEF OnVariableUpdateRequested
    <2> QED
      BY <2>12, <2>13, <2>14 DEF RunPost
  <1>5. /\ S \subseteq Posted \cup InPool
        /\ Posted' \subseteq Posted \ S
        /\ InPool' \subseteq (Posted \cup InPool) \ S
        /\ Posted' \cap InPool' = {}
        /\ \A x \in Posted \ Posted' :
              calls[x].op = "unsubscribe" => calls[x].id \notin VirtualIds'
    BY <1>1, <1>2, <1>4
  <1>6. OnePlace' /\ Unsubscribed' /\ Settles
    BY <1>1, <1>2, <1>3, <1>5, RequestsProgress DEF ClientInv
  <1> QED
    BY <1>3, <1>6 DEF ClientInv

\* Handlers of messages: the posts stay, S leaves the pool.
LEMMA PoolProgress ==
  ASSUME ClientInv, TypeOK', NEW S, S \subseteq InPool,
         UNCHANGED <<calls, posts>>,
         PoolDisjoint', InPool' \subseteq InPool \ S,
         VirtualIds' \subseteq VirtualIds \cup S,
         \A n \in Req \ S : outcome'[n] = outcome[n],
         DbConsistent'
  PROVE  ClientInv' /\ Settles
  <1>1. Posted' = Posted /\ PostedOnce'
    BY DEF ClientInv, OnePlace, Posted, PostedOnce
  <1>2. /\ S \subseteq Posted \cup InPool
        /\ Posted' \subseteq Posted \ S
        /\ InPool' \subseteq (Posted \cup InPool) \ S
        /\ Posted' \cap InPool' = {}
        /\ Posted \ Posted' = {}
    BY <1>1 DEF ClientInv, OnePlace
  <1>3. OnePlace' /\ Unsubscribed' /\ Settles
    BY <1>1, <1>2, RequestsProgress DEF ClientInv
  <1> QED
    BY <1>3 DEF ClientInv

\* A disconnection takes every request from the pool.
LEMMA DisconnectsInv ==
  ASSUME ClientInv, TypeOK', NEW S, S \subseteq InPool, Disconnects(S),
         UNCHANGED <<dbVars, calls, posts>>
  PROVE  ClientInv' /\ Settles
  <1>1. PoolDisjoint' /\ InPool' = {}
    BY PoolEmptied
  <1>2. \A n \in Req \ InPool : outcome'[n] = outcome[n]
    BY DEF Disconnects, Settle
  <1>3. VirtualIds' = VirtualIds /\ DbConsistent'
    BY DEF ClientInv, DbConsistent, VirtualIds, dbVars
  <1> QED
    BY <1>1, <1>2, <1>3, PoolProgress

LEMMA OnSubscriptionReplyInv ==
  ASSUME ClientInv, TypeOK', NEW m, m.var \in Var,
         OnSubscriptionReplyReceived(m), UNCHANGED <<calls, posts>>
  PROVE  ClientInv' /\ Settles
  <1> DEFINE S == subReqs[m.var]
  <1>1. S \subseteq InPool
    BY DEF InPool
  <1>2. \A how : Settle(S, how) => \A n \in Req \ S : outcome'[n] = outcome[n]
    BY DEF Settle
  <1>3. S \cap VirtualIds = {}
    BY <1>1 DEF ClientInv, OnePlace
  <1>4. TypeOK /\ PoolDisjoint /\ DbConsistent
    BY DEF ClientInv, OnePlace
  <1>5. CASE Disconnects(InPool \ S) /\ UNCHANGED dbVars
    BY <1>5, DisconnectsInv
  <1>6. CASE /\ Settle(S, "no_such")
             /\ subReqs' = [subReqs EXCEPT ![m.var] = {}]
             /\ UNCHANGED <<dbVars, unsubReqs>>
    <2>1. PoolDisjoint' /\ InPool' = InPool \ S
      BY <1>4, <1>6, SubReqsPopped
    <2>2. VirtualIds' = VirtualIds /\ DbConsistent'
      BY <1>4, <1>6 DEF DbConsistent, VirtualIds, dbVars
    <2> QED
      BY <1>1, <1>2, <1>6, <2>1, <2>2, PoolProgress
  <1>7. CASE /\ S # {}
             /\ AddVirtual(m.var, S) \/ CreateEntry(m.var, m.id, S)
             /\ Settle(S, "ok")
             /\ subReqs' = [subReqs EXCEPT ![m.var] = {}]
             /\ UNCHANGED unsubReqs
    <2>1. PoolDisjoint' /\ InPool' = InPool \ S
      BY <1>4, <1>7, SubReqsPopped
    <2>2. DbConsistent'
      BY <1>3, <1>4, <1>7, AddVirtualConsistent, CreateEntryConsistent
    <2>3. VirtualIds' \subseteq VirtualIds \cup S
      BY <1>7, AddVirtualIds, CreateEntryIds
    <2> QED
      BY <1>1, <1>2, <1>7, <2>1, <2>2, <2>3, PoolProgress
  <1> QED
    BY <1>5, <1>6, <1>7 DEF OnSubscriptionReplyReceived

LEMMA OnUnsubscriptionReplyInv ==
  ASSUME ClientInv, TypeOK', NEW m, m.id \in Master,
         OnUnsubscriptionReplyReceived(m), UNCHANGED <<calls, posts>>
  PROVE  ClientInv' /\ Settles
  <1> DEFINE S == unsubReqs[m.id]
  <1>1. S \subseteq InPool
    BY DEF InPool
  <1>2. UNCHANGED dbVars
    BY DEF OnUnsubscriptionReplyReceived
  <1>3. CASE Disconnects(InPool)
    BY <1>2, <1>3, DisconnectsInv
  <1>4. CASE /\ \E how : Settle(S, how)
             /\ unsubReqs' = [unsubReqs EXCEPT ![m.id] = {}]
             /\ UNCHANGED subReqs
    <2>1. PoolDisjoint' /\ InPool' = InPool \ S
      BY <1>4, UnsubReqsPopped DEF ClientInv, OnePlace
    <2>2. VirtualIds' = VirtualIds /\ DbConsistent'
      BY <1>2 DEF ClientInv, DbConsistent, VirtualIds, dbVars
    <2>3. \A n \in Req \ S : outcome'[n] = outcome[n]
      BY <1>4 DEF Settle
    <2> QED
      BY <1>1, <2>1, <2>2, <2>3, PoolProgress
  <1> QED
    BY <1>3, <1>4 DEF OnUnsubscriptionReplyReceived

LEMMA OnMessageReceivedInv ==
  ASSUME ClientInv, NEW n \in Nat, NEW h \in BOOLEAN, OnMessageReceived(n, h)
  PROVE  ClientInv' /\ Settles
  <1> DEFINE m == Head(Received(n))
  <1>1. TypeOK'
    BY OnMessageReceivedType DEF ClientInv
  <1>2. m \in ToClient /\ UNCHANGED <<calls, posts>>
    BY ReceivesType DEF OnMessageReceived, ClientInv
  <1>3. CASE /\ m.kind \in {"SUBSCRIBED", "NO_SUCH_VAR", "VAR_ALREADY_SUBSCRIBED"}
             /\ OnSubscriptionReplyReceived(m)
    <2>1. m.var \in Var
      BY <1>2, <1>3 DEF ToClient
    <2> QED
      BY <1>1, <1>2, <1>3, <2>1, OnSubscriptionReplyInv
  <1>4. CASE /\ m.kind \in {"UNSUBSCRIBED", "NO_SUCH_SUBSCRIPTION"}
             /\ OnUnsubscriptionReplyReceived(m)
    <2>1. m.id \in Master
      BY <1>2, <1>4 DEF ToClient
    <2> QED
      BY <1>1, <1>2, <1>4, <2>1, OnUnsubscriptionReplyInv
  <1>5. CASE OnVariableUpdateReceived
    BY <1>1, <1>2, <1>5, RequestsStay DEF OnVariableUpdateReceived, ClientInv
  <1> QED
    BY <1>3, <1>4, <1>5 DEF OnMessageReceived

\* Every other step leaves the requests alone.
LEMMA StayInv ==
  ASSUME ClientInv, TypeOK',
         UNCHANGED <<dbVars, calls, outcome, posts, subReqs, unsubReqs>>
  PROVE  ClientInv' /\ Settles
  BY RequestsStay DEF ClientInv

LEMMA NextClientInv ==
  ASSUME ClientInv, [Next]_vars
  PROVE  ClientInv' /\ [\A n \in Req : outcome'[n] # outcome[n] => outcome[n] = "pending"]_vars
  <1>0. TypeOK
    BY DEF ClientInv
  <1> SUFFICES ClientInv' /\ Settles
    BY DEF Settles
  <1>1. CASE ServerReads
    <2>1. 0..MaxBurst \subseteq Nat
      BY ClientAssumption
    <2>2. PICK n \in Nat : ServerHandles(n)
      BY <1>1, <2>1 DEF ServerReads
    <2> QED
      BY <1>0, <2>2, ServerHandlesType, StayInv DEF ServerHandles, clientVars
  <1>2. CASE \E e \in session : ServerTells(e)
    BY <1>0, <1>2, ServerTellsType, StayInv DEF ServerTells, clientVars
  <1>3. CASE ServerBreaks
    BY <1>0, <1>3, ServerBreaksType, StayInv DEF ServerBreaks, clientVars
  <1>4. CASE \E c \in Caller : Submit(c)
    BY <1>4, SubmitInv
  <1>5. CASE \E c \in Caller : GetResult(c)
    BY <1>0, <1>5, GetResultType, StayInv DEF GetResult
  <1>6. CASE RunPost
    BY <1>6, RunPostInv
  <1>7. CASE ReadMessage
    <2>1. 0..MaxBurst \subseteq Nat
      BY ClientAssumption
    <2> QED
      BY <1>7, <2>1, OnMessageReceivedInv DEF ReadMessage
  <1>8. CASE OnPartialMessageReceived
    BY <1>0, <1>8, OnPartialMessageReceivedType, StayInv DEF OnPartialMessageReceived
  <1>9. CASE ReadGarbage
    <2>1. 0..MaxBurst \subseteq Nat
      BY ClientAssumption
    <2>2. PICK n \in Nat, h \in BOOLEAN : OnGarbageReceived(n, h)
      BY <1>9, <2>1 DEF ReadGarbage
    <2>3. TypeOK' /\ UNCHANGED <<dbVars, calls, posts>>
      BY <1>0, <2>2, OnGarbageReceivedType DEF OnGarbageReceived
    <2>4. Disconnects(InPool) \/ UNCHANGED <<outcome, subReqs, unsubReqs>>
      BY <2>2 DEF OnGarbageReceived
    <2> QED
      BY <2>3, <2>4, DisconnectsInv, StayInv
  <1>10. CASE OnReadError
    <2>1. TypeOK' /\ UNCHANGED <<dbVars, calls, posts>>
      BY <1>0, <1>10, OnReadErrorType DEF OnReadError
    <2>2. Disconnects(InPool) \/ UNCHANGED <<outcome, subReqs, unsubReqs>>
      BY <1>10 DEF OnReadError
    <2> QED
      BY <2>1, <2>2, DisconnectsInv, StayInv
  <1>11. CASE ReadGreeting
    <2>1. 0..MaxBurst \subseteq Nat
      BY ClientAssumption
    <2>2. PICK n \in Nat, h \in BOOLEAN : Handshake(n, h)
      BY <1>11, <2>1 DEF ReadGreeting
    <2> QED
      BY <1>0, <2>2, HandshakeType, StayInv DEF Handshake
  <1>12. CASE Join
    BY <1>0, <1>12, JoinType, StayInv DEF Join
  <1>13. CASE FlagStep
    BY <1>0, <1>13, FlagStepType, StayInv
    DEF FlagStep, ThreadStarts, ThreadExits, HandshakeFails, Stop, ResidualRead, Closed
  <1>14. CASE UNCHANGED vars
    <2>1. TypeOK'
      BY <1>0, <1>14 DEF TypeOK, TypeOKDb, vars, dbVars, clientVars, serverVars
    <2> QED
      BY <1>14, <2>1, StayInv DEF vars, clientVars
  <1> QED
    BY <1>1, <1>2, <1>3, <1>4, <1>5, <1>6, <1>7, <1>8, <1>9, <1>10, <1>11,
       <1>12, <1>13, <1>14 DEF Next, FlagStep

-----------------------------------------------------------------------------
(* Requests for a variable.                                                *)

\* Subscriptions of the pool are filed under the variable they are for.
IsFor(n, v) == calls[n].op = "subscribe" /\ calls[n].var = v
Filed == \A v \in Var : \A n \in subReqs[v] : IsFor(n, v)

LEMMA SubmitFiled ==
  ASSUME Filed, ClientInv, NEW c \in Caller, Submit(c)
  PROVE  Filed'
  <1>1. PICK k \in CallsOf(c) :
          /\ calls' = Append(calls, k)
          /\ posts' = Append(posts, Len(calls) + 1)
    BY DEF Submit
  <1>2. TypeOK /\ subReqs' = subReqs
    BY DEF ClientInv, Submit
  <1>3. \A x \in DOMAIN calls : calls'[x] = calls[x]
    BY <1>1, <1>2, CallAppended
  <1>4. \A v \in Var : \A x \in subReqs[v] : x \in DOMAIN calls
    BY LenProperties DEF ClientInv, OnePlace, InPool, TypeOK
  <1> QED
    BY <1>2, <1>3, <1>4 DEF Filed, IsFor

\* Otherwise requests leave the pool, or enter it where they belong.
LEMMA FiledStays ==
  ASSUME Filed, UNCHANGED calls,
         \A v \in Var : \A n \in subReqs'[v] : n \in subReqs[v] \/ IsFor(n, v)
  PROVE  Filed'
  BY DEF Filed, IsFor

LEMMA RunPostFiled ==
  ASSUME Filed, TypeOK, RunPost
  PROVE  Filed'
  <1> DEFINE n == Head(posts)
  <1>1. UNCHANGED calls
    BY DEF RunPost
  <1>2. CASE UNCHANGED subReqs
    BY <1>1, <1>2, FiledStays
  <1>3. CASE /\ calls[n].op = "subscribe"
             /\ subReqs' = [subReqs EXCEPT ![calls[n].var] = @ \cup {n}]
    <2>1. \A v \in Var : \A x \in subReqs'[v] : x \in subReqs[v] \/ IsFor(x, v)
      BY <1>3 DEF TypeOK, IsFor
    <2> QED
      BY <1>1, <2>1, FiledStays
  <1> QED
    BY <1>2, <1>3
    DEF RunPost, OnSubscriptionRequested, OnUnsubscriptionRequested,
        OnVariableUpdateRequested

LEMMA DisconnectsFiled ==
  ASSUME Filed, NEW S, Disconnects(S), UNCHANGED calls
  PROVE  Filed'
  <1>1. \A v \in Var : subReqs'[v] = {}
    BY DEF Disconnects
  <1> QED
    BY <1>1, FiledStays

LEMMA OnMessageReceivedFiled ==
  ASSUME Filed, TypeOK, NEW n \in Nat, NEW h \in BOOLEAN, OnMessageReceived(n, h)
  PROVE  Filed'
  <1>1. UNCHANGED calls
    BY DEF OnMessageReceived
  <1>2. CASE \E S : Disconnects(S)
    BY <1>1, <1>2, DisconnectsFiled
  <1>3. CASE \E v : subReqs' = [subReqs EXCEPT ![v] = {}]
    <2>1. \A v \in Var : subReqs'[v] \subseteq subReqs[v]
      BY <1>3 DEF TypeOK
    <2> QED
      BY <1>1, <2>1, FiledStays
  <1>4. CASE UNCHANGED subReqs
    BY <1>1, <1>4, FiledStays
  <1> QED
    BY <1>2, <1>3, <1>4
    DEF OnMessageReceived, OnSubscriptionReplyReceived,
        OnUnsubscriptionReplyReceived, OnVariableUpdateReceived

LEMMA NextFiled ==
  ASSUME Filed, ClientInv, [Next]_vars
  PROVE  Filed'
  <1>1. 0..MaxBurst \subseteq Nat /\ TypeOK
    BY ClientAssumption DEF ClientInv
  <1>2. CASE \E c \in Caller : Submit(c)
    BY <1>2, SubmitFiled
  <1>3. CASE RunPost
    BY <1>1, <1>3, RunPostFiled
  <1>4. CASE ReadMessage
    BY <1>1, <1>4, OnMessageReceivedFiled DEF ReadMessage
  <1>5. CASE ReadGarbage \/ OnReadError
    <2>1. UNCHANGED calls /\ (UNCHANGED subReqs \/ \E S : Disconnects(S))
      BY <1>5 DEF ReadGarbage, OnGarbageReceived, OnReadError
    <2> QED
      BY <2>1, FiledStays, DisconnectsFiled
  <1>6. CASE \/ ServerReads \/ \E e \in session : ServerTells(e)
             \/ ServerBreaks \/ OnPartialMessageReceived \/ ReadGreeting
             \/ Join \/ FlagStep \/ \E c \in Caller : GetResult(c)
             \/ UNCHANGED vars
    <2>1. UNCHANGED <<calls, subReqs>>
      BY <1>6
      DEF ServerReads, ServerHandles, ServerTells, ServerBreaks,
          OnPartialMessageReceived, ReadGreeting, Handshake, Join, FlagStep,
          ThreadStarts, ThreadExits, HandshakeFails, Stop, ResidualRead, Closed,
          GetResult, vars, clientVars
    <2> QED
      BY <2>1, FiledStays
  <1> QED
    BY <1>2, <1>3, <1>4, <1>5, <1>6 DEF Next, FlagStep

LEMMA InitFiled == Init => Filed
  BY DEF Init, Filed

-----------------------------------------------------------------------------
(* The theorems.                                                           *)

THEOREM ClientInvariant == Spec => []ClientInv
  <1>1. ClientInv /\ [Next]_vars => ClientInv'
    BY NextClientInv
  <1> QED
    BY <1>1, InitClientInv, PTL DEF Spec

\* Every variable of the client has its type, whatever the server sends.
THEOREM ClientTypeCorrect == Spec => []TypeOK
  <1>1. ClientInv => TypeOK
    BY DEF ClientInv
  <1> QED
    BY <1>1, ClientInvariant, PTL

\* The maps of subscription_db agree after any history of calls and messages.
THEOREM DbConsistentAlways == Spec => []DbConsistent
  <1>1. ClientInv => DbConsistent
    BY DEF ClientInv
  <1> QED
    BY <1>1, ClientInvariant, PTL

\* No promise is settled twice: not by a late reply, a disconnection or a post.
THEOREM SettledOnceAlways == Spec => SettledOnce
  <1>1. ClientInv /\ [Next]_vars
          => [\A n \in Req : outcome'[n] # outcome[n] => outcome[n] = "pending"]_vars
    BY NextClientInv
  <1> QED
    BY <1>1, ClientInvariant, PTL DEF Spec, SettledOnce

\* No handler is called once the unsubscribe() for it has returned.
THEOREM NoHandlerAfterUnsubscribeAlways == Spec => []NoHandlerAfterUnsubscribe
  <1>1. ClientInv => NoHandlerAfterUnsubscribe
    <2> SUFFICES ASSUME ClientInv, NEW n \in DOMAIN calls,
                        calls[n].op = "unsubscribe", outcome[n] = "ok",
                        NEW m \in Master
                 PROVE  calls[n].id \notin HandlersOf(m)
      BY DEF NoHandlerAfterUnsubscribe
    <2>1. n \notin Posted
      BY DEF ClientInv, OnePlace
    <2>2. calls[n].id \notin VirtualIds
      BY <2>1 DEF ClientInv, Unsubscribed
    <2> QED
      BY <2>2 DEF ClientInv, DbConsistent, HandlersOf, VirtualIds
  <1> QED
    BY <1>1, ClientInvariant, PTL

(***************************************************************************)
(* What the client and the server's session know of each other: of a       *)
(* subscription, of the answers on their way or dropped, and of the        *)
(* requests that these answer.                                             *)
(***************************************************************************)

-----------------------------------------------------------------------------
(* Sequences that hold each message of a kind once.                        *)

Once(s, T) == \A i, j \in DOMAIN s : s[i] = s[j] /\ s[i] \in T => i = j

LEMMA RangeOfAppend ==
  ASSUME NEW S, NEW s \in Seq(S), NEW x \in S
  PROVE  Range(Append(s, x)) = Range(s) \cup {x}
  <1>1. /\ Append(s, x) \in Seq(S)
        /\ Len(Append(s, x)) = Len(s) + 1
        /\ \A i \in 1..Len(s) : Append(s, x)[i] = s[i]
        /\ Append(s, x)[Len(s) + 1] = x
    BY AppendProperties
  <1>2. /\ Len(s) \in Nat
        /\ DOMAIN s = 1..Len(s)
        /\ DOMAIN Append(s, x) = 1..(Len(s) + 1)
    BY <1>1, LenProperties
  <1>3. ASSUME NEW i \in DOMAIN Append(s, x)
        PROVE  Append(s, x)[i] \in Range(s) \cup {x}
    BY <1>1, <1>2 DEF Range
  <1>4. ASSUME NEW i \in DOMAIN s
        PROVE  s[i] \in Range(Append(s, x))
    BY <1>1, <1>2 DEF Range
  <1>5. x \in Range(Append(s, x))
    BY <1>1, <1>2 DEF Range
  <1> QED
    BY <1>3, <1>4, <1>5 DEF Range

LEMMA OnceAppended ==
  ASSUME NEW S, NEW s \in Seq(S), NEW x \in S, NEW T, Once(s, T),
         x \in T => x \notin Range(s)
  PROVE  Once(Append(s, x), T)
  <1>1. /\ Append(s, x) \in Seq(S)
        /\ Len(Append(s, x)) = Len(s) + 1
        /\ \A i \in 1..Len(s) : Append(s, x)[i] = s[i]
        /\ Append(s, x)[Len(s) + 1] = x
    BY AppendProperties
  <1>2. /\ Len(s) \in Nat
        /\ DOMAIN s = 1..Len(s)
        /\ DOMAIN Append(s, x) = 1..(Len(s) + 1)
    BY <1>1, LenProperties
  <1>3. x \in T => \A i \in DOMAIN s : s[i] # x
    BY DEF Range
  <1> QED
    BY <1>1, <1>2, <1>3 DEF Once

LEMMA RangeOfTail ==
  ASSUME NEW S, NEW s \in Seq(S), s # <<>>
  PROVE  Range(s) = Range(Tail(s)) \cup {Head(s)}
  <1>1. /\ Len(s) \in Nat \ {0} /\ DOMAIN s = 1..Len(s)
        /\ Tail(s) \in Seq(S)
        /\ DOMAIN Tail(s) = 1..(Len(s) - 1)
        /\ \A i \in 1..(Len(s) - 1) : Tail(s)[i] = s[i + 1]
        /\ Head(s) = s[1]
    BY EmptySeq, LenProperties, HeadTailProperties
  <1>2. ASSUME NEW i \in DOMAIN s, i # 1
        PROVE  s[i] \in Range(Tail(s))
    <2>1. i - 1 \in DOMAIN Tail(s) /\ Tail(s)[i - 1] = s[i]
      BY <1>1, <1>2
    <2> QED
      BY <2>1 DEF Range
  <1>3. ASSUME NEW i \in DOMAIN Tail(s)
        PROVE  Tail(s)[i] \in Range(s)
    BY <1>1 DEF Range
  <1>4. Head(s) \in Range(s)
    BY <1>1 DEF Range
  <1> QED
    BY <1>1, <1>2, <1>3, <1>4 DEF Range

LEMMA OnceRemoved ==
  ASSUME NEW S, NEW s \in Seq(S), s # <<>>, NEW T, Once(s, T)
  PROVE  /\ Once(Tail(s), T)
         /\ Head(s) \in T => Head(s) \notin Range(Tail(s))
  <1>1. /\ Len(s) \in Nat \ {0} /\ DOMAIN s = 1..Len(s)
        /\ DOMAIN Tail(s) = 1..(Len(s) - 1)
        /\ \A i \in 1..(Len(s) - 1) : Tail(s)[i] = s[i + 1] /\ i + 1 \in DOMAIN s
        /\ Head(s) = s[1]
    BY EmptySeq, LenProperties, HeadTailProperties
  <1>2. Once(Tail(s), T)
    <2> SUFFICES ASSUME NEW i \in DOMAIN Tail(s), NEW j \in DOMAIN Tail(s),
                        Tail(s)[i] = Tail(s)[j], Tail(s)[i] \in T
                 PROVE  i = j
      BY DEF Once
    <2>1. i + 1 = j + 1
      BY <1>1 DEF Once
    <2> QED
      BY <1>1, <2>1
  <1>3. ASSUME s[1] \in T, NEW i \in DOMAIN Tail(s)
        PROVE  Tail(s)[i] # s[1]
    <2>1. i + 1 # 1 /\ 1 \in DOMAIN s
      BY <1>1
    <2> QED
      BY <1>1, <1>3, <2>1 DEF Once
  <1> QED
    BY <1>1, <1>2, <1>3 DEF Range

LEMMA OnceInPrefix ==
  ASSUME NEW S, NEW s \in Seq(S), NEW t \in Seq(S), NEW T
  PROVE  /\ Range(s) \subseteq Range(s \o t)
         /\ Once(s \o t, T) => Once(s, T)
  <1>1. /\ s \o t \in Seq(S)
        /\ Len(s \o t) = Len(s) + Len(t)
        /\ \A i \in 1..(Len(s) + Len(t)) :
             (s \o t)[i] = IF i <= Len(s) THEN s[i] ELSE t[i - Len(s)]
    BY ConcatProperties
  <1>2. /\ Len(s) \in Nat /\ Len(t) \in Nat
        /\ DOMAIN s = 1..Len(s) /\ DOMAIN (s \o t) = 1..(Len(s) + Len(t))
    BY <1>1, LenProperties
  <1>3. \A i \in DOMAIN s : i \in DOMAIN (s \o t) /\ (s \o t)[i] = s[i]
    BY <1>1, <1>2
  <1> QED
    BY <1>3 DEF Range, Once

-----------------------------------------------------------------------------
(* What is on its way to the client.                                       *)

Flow == inbuf \o toClient

LEMMA FlowType ==
  ASSUME TypeOK
  PROVE  Flow \in Seq(ToClient) /\ Coming = Range(Flow) /\ Going = Range(toServer)
  BY ConcatProperties DEF TypeOK, Flow, Coming, Going, Range

LEMMA FlowWritten ==
  ASSUME TypeOK, NEW m \in ToClient, Writes(m), inbuf' = inbuf
  PROVE  Flow' = Append(Flow, m)
  <1>1. /\ inbuf \in Seq(ToClient) /\ toClient \in Seq(ToClient)
        /\ <<m>> \in Seq(ToClient)
    BY DEF TypeOK
  <1>2. toClient' = toClient \o <<m>>
    BY <1>1, AppendIsConcat DEF Writes
  <1>3. Flow' = (inbuf \o toClient) \o <<m>>
    BY <1>1, <1>2, ConcatAssociative DEF Flow
  <1> QED
    BY <1>1, <1>3, ConcatProperties, AppendIsConcat DEF Flow

LEMMA TailOfConcat ==
  ASSUME NEW S, NEW s \in Seq(S), NEW t \in Seq(S), s # <<>>
  PROVE  /\ s \o t # <<>>
         /\ Head(s \o t) = Head(s)
         /\ Tail(s \o t) = Tail(s) \o t
  <1>1. /\ s \o t \in Seq(S)
        /\ Len(s \o t) = Len(s) + Len(t)
        /\ \A i \in 1..(Len(s) + Len(t)) :
             (s \o t)[i] = IF i <= Len(s) THEN s[i] ELSE t[i - Len(s)]
    BY ConcatProperties
  <1>2. Len(s) \in Nat \ {0} /\ Len(t) \in Nat
    BY EmptySeq, LenProperties
  <1>3. s \o t # <<>>
    BY <1>1, <1>2, EmptySeq
  <1>4. Head(s \o t) = Head(s)
    BY <1>1, <1>2
  <1>5. /\ Tail(s) \in Seq(S)
        /\ Len(Tail(s)) = Len(s) - 1
        /\ \A i \in 1..(Len(s) - 1) : Tail(s)[i] = s[i + 1]
    BY HeadTailProperties
  <1>6. /\ Tail(s \o t) \in Seq(S)
        /\ Len(Tail(s \o t)) = Len(s) + Len(t) - 1
        /\ \A i \in 1..(Len(s) + Len(t) - 1) : Tail(s \o t)[i] = (s \o t)[i + 1]
    BY <1>1, <1>3, HeadTailProperties
  <1>7. /\ Tail(s) \o t \in Seq(S)
        /\ Len(Tail(s) \o t) = Len(s) - 1 + Len(t)
        /\ \A i \in 1..(Len(s) - 1 + Len(t)) :
             (Tail(s) \o t)[i] = IF i <= Len(s) - 1 THEN Tail(s)[i] ELSE t[i - (Len(s) - 1)]
    BY <1>5, ConcatProperties
  <1>8. \A i \in 1..Len(Tail(s \o t)) : Tail(s \o t)[i] = (Tail(s) \o t)[i]
    BY <1>1, <1>2, <1>5, <1>6, <1>7
  <1>9. Tail(s \o t) = Tail(s) \o t
    BY <1>2, <1>6, <1>7, <1>8, SeqEqual
  <1> QED
    BY <1>3, <1>4, <1>9

\* A read completion moves messages into the buffer and takes the first.
LEMMA FlowReceived ==
  ASSUME TypeOK, NEW n \in Nat, NEW h \in BOOLEAN, Receives(n, h),
         Received(n) # <<>>, inbuf' = Tail(Received(n))
  PROVE  /\ Flow # <<>>
         /\ Head(Flow) = Head(Received(n))
         /\ Flow' = Tail(Flow)
  <1> DEFINE rest == SubSeq(toClient, n + 1, Len(toClient))
  <1>1. /\ toClient' = rest
        /\ rest \in Seq(ToClient)
        /\ Received(n) \in Seq(ToClient)
    BY ReceivesType DEF Receives
  <1>2. /\ inbuf \in Seq(ToClient) /\ toClient \in Seq(ToClient)
        /\ Len(toClient) \in Nat /\ n <= Len(toClient)
    BY LenProperties DEF TypeOK, Receives
  <1>3. SubSeq(toClient, 1, n) \o rest = toClient
    <2>1. /\ 1 \in 1..(Len(toClient) + 1)
          /\ n \in (1 - 1)..Len(toClient)
          /\ Len(toClient) \in n..Len(toClient)
      BY <1>2
    <2>2. SubSeq(toClient, 1, n) \o SubSeq(toClient, n + 1, Len(toClient))
            = SubSeq(toClient, 1, Len(toClient))
      BY <1>2, <2>1, ConcatAdjacentSubSeq
    <2> QED
      BY <1>2, <2>2, SubSeqFull
  <1>4. SubSeq(toClient, 1, n) \in Seq(ToClient)
    <2>1. \A i \in 1..n : toClient[i] \in ToClient
      BY <1>2, ElementOfSeq
    <2> QED
      BY <2>1, SubSeqProperties
  <1>5. Flow = Received(n) \o rest
    <2>1. inbuf \o (SubSeq(toClient, 1, n) \o rest) = Received(n) \o rest
      <3> DEFINE first == SubSeq(toClient, 1, n)
      <3>1. first \in Seq(ToClient) /\ rest \in Seq(ToClient)
        BY <1>1, <1>4
      <3> HIDE DEF first, rest
      <3>2. inbuf \o (first \o rest) = (inbuf \o first) \o rest
        <4>1. ASSUME NEW s \in Seq(ToClient), NEW t \in Seq(ToClient), NEW u \in Seq(ToClient)
              PROVE  (s \o t) \o u = s \o (t \o u)
          BY ConcatAssociative, SMTT(30)
        <4> QED
          BY <1>2, <3>1, <4>1
      <3> QED
        BY <3>2 DEF Received, first
    <2> QED
      BY <1>3, <2>1 DEF Flow
  <1>6. Flow' = Tail(Received(n)) \o rest
    BY <1>1 DEF Flow
  <1> QED
    BY <1>1, <1>5, <1>6, TailOfConcat

\* Messages are taken out in the middle.
LEMMA FlowSkipped ==
  ASSUME TypeOK, NEW n \in Nat, NEW h \in BOOLEAN, Receives(n, h), inbuf' = inbuf,
         NEW T
  PROVE  LET gone == {toClient[i] : i \in 1..n}
         IN  /\ Range(Flow) = Range(Flow') \cup gone
             /\ Once(Flow, T) => /\ Once(Flow', T)
                                /\ Range(Flow') \cap gone \cap T = {}
  <1> DEFINE s == Len(inbuf)
             t == Len(toClient)
             at(i) == IF i <= s THEN i ELSE i + n
             gone == {toClient[i] : i \in 1..n}
  <1>1. /\ s \in Nat /\ t \in Nat /\ n <= t
        /\ inbuf \in Seq(ToClient) /\ toClient \in Seq(ToClient)
    BY LenProperties DEF TypeOK, Receives
  <1>2. /\ DOMAIN Flow = 1..(s + t)
        /\ \A i \in 1..(s + t) : Flow[i] = IF i <= s THEN inbuf[i] ELSE toClient[i - s]
    BY <1>1, ConcatProperties, LenProperties DEF Flow
  <1>3. /\ toClient' \in Seq(ToClient)
        /\ Len(toClient') = t - n
        /\ \A i \in 1..(t - n) : toClient'[i] = toClient[n + i]
    <2>1. toClient' = SubSeq(toClient, n + 1, t) /\ \A i \in (n + 1)..t : toClient[i] \in ToClient
      BY <1>1, ElementOfSeq DEF Receives
    <2>2. /\ toClient' \in Seq(ToClient)
          /\ Len(toClient') = IF n + 1 <= t THEN t - (n + 1) + 1 ELSE 0
          /\ \A i \in 1..(t - (n + 1) + 1) : toClient'[i] = toClient[(n + 1) + i - 1]
      BY <1>1, <2>1, SubSeqProperties
    <2>3. \A i \in 1..(t - n) : (n + 1) + i - 1 = n + i
      BY <1>1
    <2> QED
      BY <1>1, <2>2, <2>3
  <1>4. /\ DOMAIN Flow' = 1..(s + (t - n))
        /\ \A i \in 1..(s + (t - n)) :
             Flow'[i] = IF i <= s THEN inbuf[i] ELSE toClient'[i - s]
    <2>1. \A x \in Seq(ToClient) :
            /\ DOMAIN (inbuf \o x) = 1..(s + Len(x))
            /\ \A i \in 1..(s + Len(x)) : (inbuf \o x)[i] = IF i <= s THEN inbuf[i] ELSE x[i - s]
      BY <1>1, ConcatProperties, LenProperties
    <2>2. Flow' = inbuf \o toClient'
      BY DEF Flow
    <2> QED
      BY <1>3, <2>1, <2>2
  <1> HIDE DEF s, t
  <1>5. \A i \in DOMAIN Flow' : at(i) \in DOMAIN Flow /\ Flow'[i] = Flow[at(i)]
    <2> SUFFICES ASSUME NEW i \in DOMAIN Flow'
                 PROVE  at(i) \in DOMAIN Flow /\ Flow'[i] = Flow[at(i)]
      OBVIOUS
    <2>1. CASE i <= s
      BY <1>1, <1>2, <1>4, <2>1
    <2>2. CASE i > s
      <3>1. i - s \in 1..(t - n) /\ i + n \in 1..(s + t) /\ at(i) = i + n
        BY <1>1, <1>4, <2>2
      <3>2. Flow'[i] = toClient[n + (i - s)]
        <4>1. Flow'[i] = toClient'[i - s]
          BY <1>1, <1>4, <2>2
        <4>2. toClient'[i - s] = toClient[n + (i - s)]
          BY <1>3, <3>1
        <4> QED
          BY <4>1, <4>2
      <3>3. Flow[i + n] = toClient[(i + n) - s]
        BY <1>1, <1>2, <1>4, <2>2, <3>1
      <3>4. n + (i - s) = (i + n) - s
        BY <1>1, <1>4
      <3> HIDE DEF at
      <3> QED
        BY <1>2, <3>1, <3>2, <3>3, <3>4
    <2> QED
      BY <1>1, <1>4, <2>1, <2>2
  <1>6. \A i \in 1..n : s + i \in DOMAIN Flow /\ Flow[s + i] = toClient[i]
    BY <1>1, <1>2
  <1>7. \A j \in DOMAIN Flow : \/ \E i \in DOMAIN Flow' : at(i) = j
                               \/ \E i \in 1..n : s + i = j
    <2> SUFFICES ASSUME NEW j \in DOMAIN Flow
                 PROVE  \/ \E i \in DOMAIN Flow' : at(i) = j
                        \/ \E i \in 1..n : s + i = j
      OBVIOUS
    <2>1. CASE j <= s
      BY <1>1, <1>2, <1>4, <2>1
    <2>2. CASE j > s /\ j <= s + n
      <3>1. j - s \in 1..n /\ s + (j - s) = j
        BY <1>1, <1>2, <2>2
      <3> QED
        BY <3>1
    <2>3. CASE j > s + n
      <3>1. j - n \in DOMAIN Flow' /\ at(j - n) = j
        BY <1>1, <1>2, <1>4, <2>3
      <3> QED
        BY <3>1
    <2> QED
      BY <1>1, <1>2, <2>1, <2>2, <2>3
  <1>8. /\ \A i, j \in DOMAIN Flow' : at(i) = at(j) => i = j
        /\ \A i \in DOMAIN Flow', j \in 1..n : at(i) # s + j
    BY <1>1, <1>4
  <1> HIDE DEF at
  <1>9. Range(Flow) = Range(Flow') \cup gone
    <2>1. ASSUME NEW j \in DOMAIN Flow
          PROVE  Flow[j] \in Range(Flow') \cup gone
      <3>1. CASE \E i \in DOMAIN Flow' : at(i) = j
        BY <1>5, <3>1 DEF Range
      <3>2. CASE \E i \in 1..n : s + i = j
        BY <1>6, <3>2
      <3> QED
        BY <1>7, <3>1, <3>2
    <2>2. \A x \in Range(Flow') \cup gone : x \in Range(Flow)
      BY <1>5, <1>6 DEF Range
    <2> QED
      BY <2>1, <2>2 DEF Range
  <1>10. ASSUME Once(Flow, T)
         PROVE  Once(Flow', T) /\ Range(Flow') \cap gone \cap T = {}
    <2>1. Once(Flow', T)
      BY <1>5, <1>8, <1>10 DEF Once
    <2>2. \A i \in DOMAIN Flow', j \in 1..n : ~(Flow'[i] = toClient[j] /\ Flow'[i] \in T)
      BY <1>5, <1>6, <1>8, <1>10 DEF Once
    <2>3. \A x \in Range(Flow') : \E i \in DOMAIN Flow' : x = Flow'[i]
      BY DEF Range
    <2> QED
      BY <2>1, <2>2, <2>3
  <1> QED
    BY <1>9, <1>10

\* Each message of T has been written once, of those not handled.
Fresh(T) == Once(Flow, T) /\ Coming \cap missed \cap T = {}

-----------------------------------------------------------------------------
(* The inductive invariant. SessionAgrees and AnswerComing are not inductive: *)
(* a SUBSCRIBED that is received must find no entry for its variable or its   *)
(* master, and an unsubscribe must find its subscription.                     *)

Grant(e) == [kind |-> "SUBSCRIBED", var |-> e.var, id |-> e.master]
Grants == {Grant(e) : e \in Entry}
AskFor(v) == [kind |-> "subscribe", var |-> v]
Drop(m) == [kind |-> "unsubscribe", id |-> m]
Drops == {Drop(m) : m \in Master}

\* Until the connection is given up, the client takes messages; until it is
\* lost, too, the session lasts.
Listening == conn \in {"handshake", "connected"}
Lasting == Listening /\ link = "open"

\* A subscription is granted once, to a client that has none for its variable.
GrantsAreNew ==
  /\ Fresh(Grants)
  /\ \A e, f \in Entry :
       Grant(e) \in Told /\ Grant(f) \in Told
         /\ (e.var = f.var \/ e.master = f.master) => e = f
  /\ \A e \in Entry, f \in byMaster :
       Grant(e) \in Told => e.var # f.var /\ e.master # f.master

SessionIsOrdered ==
  /\ \A e, f \in session : (e.var = f.var \/ e.master = f.master) => e = f
  /\ \A e \in session : e.master <= given

\* The session has what it grants and what it is asked to drop, and one side
\* or the other is being told of what only the session has.
BothSidesKnow ==
  /\ byMaster \subseteq session
  /\ \A e \in Entry : Grant(e) \in Told => e \in session /\ Drop(e.master) \notin Going
  /\ Once(toServer, Drops)
  /\ \A m \in Master : Drop(m) \in Going => \E e \in session \ byMaster : e.master = m
  /\ \A e \in session \ byMaster : Grant(e) \in Told \/ Drop(e.master) \in Going

Answers(v) ==
  \/ AskFor(v) \in Going
  \/ \E m \in Told : IsReplyFor(m, v)
DropAnswers(i) == Drop(i) \in Going \/ Dropped(i) \in Told

RequestsAnswered ==
  /\ \A v \in Var : subReqs[v] # {} => Answers(v)
  /\ \A i \in Master : unsubReqs[i] # {} => DropAnswers(i)

SessionInv ==
  /\ ClientInv
  /\ conn = "handshake" => thread = "none"
  /\ Listening => GrantsAreNew
  /\ Lasting => SessionIsOrdered /\ BothSidesKnow /\ RequestsAnswered

LEMMA GrantProperties ==
  /\ \A e \in Entry : Grant(e) \in ToClient /\ Grant(e) \in Grants
  /\ \A e, f \in Entry : Grant(e) = Grant(f) => e = f
  /\ \A m \in Grants : \E e \in Entry : m = Grant(e)
  /\ \A m \in ToClient : m.kind = "SUBSCRIBED" =>
       m \in Grants /\ m = Grant([var |-> m.var, master |-> m.id])
         /\ [var |-> m.var, master |-> m.id] \in Entry
  /\ \A m \in ToClient : m.kind # "SUBSCRIBED" => m \notin Grants
  <1>1. \A e \in Entry : Grant(e) \in ToClient /\ Grant(e) \in Grants
    BY DEF Entry, Grant, Grants, ToClient
  <1>2. \A e, f \in Entry : Grant(e) = Grant(f) => e = f
    <2> SUFFICES ASSUME NEW e \in Entry, NEW f \in Entry, Grant(e) = Grant(f)
                 PROVE  e = f
      OBVIOUS
    <2>1. e.var = f.var /\ e.master = f.master
      BY DEF Grant
    <2> QED
      BY <2>1 DEF Entry
  <1>3. \A m \in ToClient : m.kind = "SUBSCRIBED" =>
          m \in Grants /\ m = Grant([var |-> m.var, master |-> m.id])
            /\ [var |-> m.var, master |-> m.id] \in Entry
    <2> SUFFICES ASSUME NEW m \in ToClient, m.kind = "SUBSCRIBED"
                 PROVE  /\ m \in Grants
                        /\ m = Grant([var |-> m.var, master |-> m.id])
                        /\ [var |-> m.var, master |-> m.id] \in Entry
      OBVIOUS
    <2>1. m \in [kind: {"SUBSCRIBED"}, var: Var, id: Master]
      BY DEF ToClient
    <2>2. [var |-> m.var, master |-> m.id] \in Entry
      BY <2>1 DEF Entry
    <2>3. m = Grant([var |-> m.var, master |-> m.id])
      BY <2>1 DEF Grant
    <2> QED
      BY <2>2, <2>3 DEF Grants
  <1>4. \A m \in Grants : m.kind = "SUBSCRIBED" /\ \E e \in Entry : m = Grant(e)
    BY DEF Grants, Grant
  <1> QED
    BY <1>1, <1>2, <1>3, <1>4

LEMMA DropProperties ==
  /\ \A m \in Master : Drop(m) \in ToServer /\ Drop(m) \in Drops
  /\ \A m, k \in Master : Drop(m) = Drop(k) => m = k
  /\ \A x \in ToServer : x.kind = "unsubscribe" =>
       x \in Drops /\ x.id \in Master /\ x = Drop(x.id)
  /\ \A x \in ToServer : x.kind # "unsubscribe" => x \notin Drops
  <1>1. \A m \in Master : Drop(m) \in ToServer /\ Drop(m) \in Drops
    BY DEF Drop, Drops, ToServer
  <1>2. \A m, k \in Master : Drop(m) = Drop(k) => m = k
    <2> SUFFICES ASSUME NEW m \in Master, NEW k \in Master, Drop(m) = Drop(k)
                 PROVE  m = k
      OBVIOUS
    <2>1. Drop(m).id = m /\ Drop(k).id = k
      BY DEF Drop
    <2> QED
      BY <2>1
  <1>3. \A x \in ToServer : x.kind = "unsubscribe" =>
          x \in Drops /\ x.id \in Master /\ x = Drop(x.id)
    <2> SUFFICES ASSUME NEW x \in ToServer, x.kind = "unsubscribe"
                 PROVE  x \in Drops /\ x.id \in Master /\ x = Drop(x.id)
      OBVIOUS
    <2>1. x \in [kind: {"unsubscribe", "update"}, id: Master]
      BY DEF ToServer
    <2>2. x = Drop(x.id) /\ x.id \in Master
      BY <2>1 DEF Drop
    <2> QED
      BY <2>2 DEF Drops
  <1>4. \A x \in Drops : x.kind = "unsubscribe"
    BY DEF Drops, Drop
  <1> QED
    BY <1>1, <1>2, <1>3, <1>4

\* The ways the messages on their way change. The server writes one.
LEMMA ToldGrows ==
  ASSUME TypeOK, NEW m \in ToClient, Writes(m), UNCHANGED <<inbuf, missed>>
  PROVE  /\ Told' = Told \cup {m}
         /\ \A T : Fresh(T) /\ (m \notin T \/ m \notin Told) => Fresh(T)'
  <1>1. Flow \in Seq(ToClient) /\ Coming = Range(Flow)
    BY FlowType
  <1>2. Flow' = Append(Flow, m)
    BY FlowWritten
  <1>3. Coming' = Range(Flow')
    BY DEF Coming, Flow, Range
  <1>4. Coming' = Coming \cup {m}
    BY <1>1, <1>2, <1>3, RangeOfAppend
  <1>5. ASSUME NEW T, Fresh(T), m \notin T \/ m \notin Told
        PROVE  Fresh(T)'
    <2>1. Once(Flow', T)
      BY <1>1, <1>2, <1>5, OnceAppended DEF Fresh, Told
    <2>2. Coming' \cap missed' \cap T = {}
      BY <1>4, <1>5 DEF Fresh, Told
    <2> QED
      BY <2>1, <2>2 DEF Fresh, Once
  <1> QED
    BY <1>4, <1>5 DEF Told

\* The client handles the first.
LEMMA ToldShrinks ==
  ASSUME TypeOK, NEW n \in Nat, NEW h \in BOOLEAN, Receives(n, h),
         Received(n) # <<>>, inbuf' = Tail(Received(n)), missed' = missed
  PROVE  /\ Head(Received(n)) \in ToClient
         /\ Head(Received(n)) \in Told
         /\ Told = Told' \cup {Head(Received(n))}
         /\ \A T : Fresh(T) =>
              /\ Fresh(T)'
              /\ Head(Received(n)) \in T => Head(Received(n)) \notin Told'
  <1>1. Flow \in Seq(ToClient) /\ Coming = Range(Flow)
    BY FlowType
  <1>2. Flow # <<>> /\ Head(Flow) = Head(Received(n)) /\ Flow' = Tail(Flow)
    BY FlowReceived
  <1>3. Coming' = Range(Flow')
    BY DEF Coming, Flow, Range
  <1>4. Coming = Coming' \cup {Head(Flow)} /\ Head(Flow) \in ToClient
    BY <1>1, <1>2, <1>3, RangeOfTail, HeadTailProperties
  <1>5. ASSUME NEW T, Fresh(T)
        PROVE  Fresh(T)' /\ (Head(Flow) \in T => Head(Flow) \notin Told')
    <2>1. Once(Flow', T) /\ (Head(Flow) \in T => Head(Flow) \notin Coming')
      BY <1>1, <1>2, <1>3, <1>5, OnceRemoved DEF Fresh
    <2> QED
      BY <1>4, <1>5, <2>1 DEF Fresh, Once, Told
  <1> QED
    BY <1>2, <1>4, <1>5 DEF Told

\* The client drops some, and the connection stays.
LEMMA ToldDropped ==
  ASSUME TypeOK, NEW n \in Nat, NEW h \in BOOLEAN, Receives(n, h),
         inbuf' = inbuf, missed' = missed \cup {toClient[i] : i \in 1..n}
  PROVE  /\ Told' = Told
         /\ \A T : Fresh(T) => Fresh(T)'
  <1> DEFINE gone == {toClient[i] : i \in 1..n}
  <1>1. \A T : /\ Range(Flow) = Range(Flow') \cup gone
               /\ Once(Flow, T) => Once(Flow', T) /\ Range(Flow') \cap gone \cap T = {}
    BY FlowSkipped
  <1>2. Coming = Range(Flow) /\ Coming' = Range(Flow') /\ missed' = missed \cup gone
    BY DEF Coming, Flow, Range
  <1> HIDE DEF gone
  <1>3. Coming = Coming' \cup gone
    BY <1>1, <1>2
  <1>4. ASSUME NEW T, Fresh(T)
        PROVE  Fresh(T)'
    <2>1. Once(Flow', T) /\ Coming' \cap gone \cap T = {}
      BY <1>1, <1>2, <1>4 DEF Fresh
    <2>2. Coming' \cap missed' \cap T = {}
      BY <1>2, <1>3, <1>4, <2>1 DEF Fresh
    <2> QED
      BY <2>1, <2>2 DEF Fresh, Once
  <1> QED
    BY <1>2, <1>3, <1>4 DEF Told

\* A reset loses those that the client has not received.
LEMMA ToldLost ==
  ASSUME TypeOK, toClient' \in {toClient, << >>}, UNCHANGED <<inbuf, missed>>
  PROVE  /\ Told' \subseteq Told
         /\ \A T : Fresh(T) => Fresh(T)'
  <1>1. inbuf \in Seq(ToClient) /\ toClient \in Seq(ToClient)
    BY DEF TypeOK
  <1>2. Flow' = Flow \/ Flow' = inbuf
    BY <1>1, ConcatEmptySeq DEF Flow
  <1>3. Coming = Range(Flow) /\ Coming' = Range(Flow')
    BY DEF Coming, Flow, Range
  <1>4. /\ Range(Flow') \subseteq Range(Flow)
        /\ \A T : Once(Flow, T) => Once(Flow', T)
    BY <1>1, <1>2, OnceInPrefix DEF Flow
  <1>5. ASSUME NEW T, Fresh(T)
        PROVE  Fresh(T)'
    BY <1>3, <1>4, <1>5 DEF Fresh, Once
  <1> QED
    BY <1>3, <1>4, <1>5 DEF Told

\* Or nothing changes.
LEMMA ToldUnchanged ==
  ASSUME UNCHANGED <<inbuf, toClient, missed>>
  PROVE  /\ Told' = Told
         /\ \A T : Fresh(T) => Fresh(T)'
  BY DEF Told, Coming, Fresh, Flow, Once

LEMMA GoingGrows ==
  ASSUME TypeOK, link = "open", NEW m \in ToServer, Sends(m)
  PROVE  /\ toServer' = Append(toServer, m)
         /\ Going' = Going \cup {m}
  <1>1. toServer' = Append(toServer, m)
    BY DEF Sends
  <1>2. toServer \in Seq(ToServer) /\ Going = Range(toServer) /\ Going' = Range(toServer')
    BY DEF TypeOK, Going, Range
  <1> QED
    BY <1>1, <1>2, RangeOfAppend

LEMMA GoingShrinks ==
  ASSUME TypeOK, toServer # <<>>, toServer' = Tail(toServer)
  PROVE  /\ Head(toServer) \in ToServer
         /\ Going = Going' \cup {Head(toServer)}
         /\ Once(toServer, Drops) =>
              /\ Once(toServer', Drops)
              /\ Head(toServer) \in Drops => Head(toServer) \notin Going'
  <1>1. toServer \in Seq(ToServer) /\ Going = Range(toServer) /\ Going' = Range(toServer')
    BY DEF TypeOK, Going, Range
  <1> QED
    BY <1>1, RangeOfTail, OnceRemoved, HeadTailProperties

-----------------------------------------------------------------------------
(* The steps of the server.                                                *)

\* A message that grants nothing leaves the grants as they are.
LEMMA GrantsStayNew ==
  ASSUME TypeOK, GrantsAreNew, NEW m \in ToClient, m.kind # "SUBSCRIBED",
         Writes(m), UNCHANGED <<inbuf, missed, byMaster>>
  PROVE  /\ GrantsAreNew'
         /\ \A e \in Entry : Grant(e) \in Told' <=> Grant(e) \in Told
  <1>1. m \notin Grants
    BY GrantProperties
  <1>2. Told' = Told \cup {m} /\ Fresh(Grants)'
    BY <1>1, ToldGrows DEF GrantsAreNew
  <1>3. \A e \in Entry : Grant(e) \in Told' <=> Grant(e) \in Told
    BY <1>1, <1>2, GrantProperties
  <1> QED
    BY <1>2, <1>3 DEF GrantsAreNew

\* A message of the client is handled that drops nothing.
LEMMA DropsStay ==
  ASSUME TypeOK, Once(toServer, Drops), toServer # <<>>,
         toServer' = Tail(toServer), Head(toServer).kind # "unsubscribe"
  PROVE  /\ Once(toServer, Drops)'
         /\ \A m \in Master : Drop(m) \in Going' <=> Drop(m) \in Going
  <1>1. /\ Head(toServer) \in ToServer
        /\ Going = Going' \cup {Head(toServer)}
        /\ Once(toServer', Drops)
    BY GoingShrinks
  <1>2. \A m \in Master : Drop(m) # Head(toServer)
    BY <1>1, DropProperties
  <1> QED
    BY <1>1, <1>2 DEF Once

\* The answer to a subscription request is written before it is gone.
LEMMA ServerSubscribesAnswers ==
  ASSUME TypeOK, RequestsAnswered, toServer # <<>>, toServer' = Tail(toServer),
         Head(toServer).kind = "subscribe", Told \subseteq Told',
         \E m \in Told' : IsReplyFor(m, Head(toServer).var),
         UNCHANGED <<subReqs, unsubReqs>>
  PROVE  RequestsAnswered'
  <1>1. /\ Head(toServer) \in ToServer
        /\ Going = Going' \cup {Head(toServer)}
    BY GoingShrinks
  <1>2. ASSUME NEW v \in Var, subReqs[v] # {}
        PROVE  Answers(v)'
    <2>1. CASE Head(toServer) = AskFor(v)
      BY <2>1 DEF Answers, AskFor
    <2>2. CASE Head(toServer) # AskFor(v)
      BY <1>1, <1>2, <2>2 DEF Answers, RequestsAnswered
    <2> QED
      BY <2>1, <2>2
  <1>3. ASSUME NEW i \in Master, unsubReqs[i] # {}
        PROVE  DropAnswers(i)'
    <2>1. Drop(i) # Head(toServer)
      BY DEF Drop
    <2> QED
      BY <1>1, <1>3, <2>1 DEF DropAnswers, RequestsAnswered
  <1> QED
    BY <1>2, <1>3 DEF RequestsAnswered

LEMMA ServerSubscribesInv ==
  ASSUME SessionInv, Lasting, toServer # <<>>, toServer' = Tail(toServer),
         Head(toServer).kind = "subscribe", ServerSubscribes(Head(toServer).var),
         UNCHANGED <<dbVars, clientVars>>
  PROVE  GrantsAreNew' /\ SessionIsOrdered' /\ BothSidesKnow' /\ RequestsAnswered'
  <1> DEFINE v == Head(toServer).var
  <1>1. /\ TypeOK /\ GrantsAreNew /\ SessionIsOrdered /\ BothSidesKnow
        /\ RequestsAnswered
    BY DEF SessionInv, ClientInv, Lasting
  <1>2. UNCHANGED <<inbuf, missed, byMaster, subReqs, unsubReqs>>
    BY DEF dbVars, clientVars
  <1>3. /\ Once(toServer, Drops)'
        /\ \A m \in Master : Drop(m) \in Going' <=> Drop(m) \in Going
    BY <1>1, DropsStay DEF BothSidesKnow
  <1>4. v \in Var /\ session \subseteq Entry /\ byMaster \subseteq Entry /\ given \in 0..MaxCalls
    <2>1. Head(toServer) \in ToServer
      BY <1>1, GoingShrinks
    <2> QED
      BY <1>1, <2>1 DEF ToServer, TypeOK, TypeOKDb
  <1>5. ASSUME NEW k \in {"NO_SUCH_VAR", "VAR_ALREADY_SUBSCRIBED"},
               Writes([kind |-> k, var |-> v]),
               UNCHANGED <<session, given>>
        PROVE  GrantsAreNew' /\ SessionIsOrdered' /\ BothSidesKnow' /\ RequestsAnswered'
    <2> DEFINE m == [kind |-> k, var |-> v]
    <2>1. m \in ToClient
      BY <1>4 DEF ToClient
    <2>2. /\ GrantsAreNew'
          /\ \A e \in Entry : Grant(e) \in Told' <=> Grant(e) \in Told
      BY <1>1, <1>2, <1>5, <2>1, GrantsStayNew
    <2>3. Told' = Told \cup {m}
      BY <1>1, <1>2, <1>5, <2>1, ToldGrows
    <2>4. RequestsAnswered'
      <3>1. m \in Told' /\ IsReplyFor(m, v)
        BY <2>3 DEF IsReplyFor
      <3>2. Told \subseteq Told'
        BY <2>3
      <3> HIDE DEF m
      <3> QED
        BY <1>1, <1>2, <3>1, <3>2, ServerSubscribesAnswers
    <2>5. BothSidesKnow'
      <3>1. \A e \in session : e \in Entry /\ e.master \in Master
        BY <1>4 DEF Entry
      <3>2. \A e \in Entry : e.master \in Master
        BY DEF Entry
      <3> QED
        BY <1>1, <1>2, <1>3, <1>5, <2>2, <3>1, <3>2 DEF BothSidesKnow
    <2> QED
      BY <1>1, <1>5, <2>2, <2>4, <2>5 DEF SessionIsOrdered
  <1>6. CASE /\ \A e \in session : e.var # v
             /\ given < MaxCalls
             /\ given' = given + 1
             /\ session' = session \cup {[var |-> v, master |-> given + 1]}
             /\ Writes([kind |-> "SUBSCRIBED", var |-> v, id |-> given + 1])
    <2> DEFINE e == [var |-> v, master |-> given + 1]
    <2>1. e \in Entry /\ e.var = v /\ e.master = given + 1 /\ given + 1 \in Master
      BY <1>4, <1>6, ClientAssumption DEF Entry, Req
    <2>2. Writes(Grant(e)) /\ Grant(e) \in ToClient /\ Grant(e) \in Grants
      BY <1>6, <2>1, GrantProperties DEF Grant
    <2>3. Told' = Told \cup {Grant(e)}
      BY <1>1, <1>2, <2>2, ToldGrows
    <2>4. \A f \in session : f.master # given + 1 /\ f.var # v
      <3>1. \A f \in session : f.master \in Nat
        BY <1>4, ClientAssumption DEF Entry, Req
      <3> QED
        BY <1>1, <1>4, <1>6, <3>1 DEF SessionIsOrdered
    <2>5. e \notin session /\ Grant(e) \notin Told /\ Drop(given + 1) \notin Going
      BY <1>1, <2>1, <2>4 DEF BothSidesKnow
    <2>6. \A f \in Entry : Grant(f) \in Told' <=> Grant(f) \in Told \/ f = e
      BY <2>1, <2>3, GrantProperties
    <2>7. Fresh(Grants)'
      BY <1>1, <1>2, <2>2, <2>5, ToldGrows DEF GrantsAreNew
    <2>8. GrantsAreNew'
      <3>1. ASSUME NEW f \in Entry, NEW g \in Entry,
                   Grant(f) \in Told', Grant(g) \in Told',
                   f.var = g.var \/ f.master = g.master
            PROVE  f = g
        <4>1. \A x \in Entry : Grant(x) \in Told => x.var # v /\ x.master # given + 1
          BY <1>1, <2>4 DEF BothSidesKnow
        <4> QED
          BY <1>1, <2>1, <2>6, <3>1, <4>1 DEF GrantsAreNew
      <3>2. ASSUME NEW f \in Entry, NEW g \in byMaster, Grant(f) \in Told'
            PROVE  f.var # g.var /\ f.master # g.master
        BY <1>1, <2>1, <2>4, <2>6, <3>2 DEF GrantsAreNew, BothSidesKnow
      <3> QED
        BY <1>2, <2>7, <3>1, <3>2 DEF GrantsAreNew
    <2>9. SessionIsOrdered'
      <3>1. \A f \in session : f.master \in Nat
        BY <1>4, ClientAssumption DEF Entry, Req
      <3>2. \A f \in session' : f.master <= given'
        BY <1>1, <1>4, <1>6, <2>1, <3>1 DEF SessionIsOrdered
      <3>3. \A f, g \in session' : (f.var = g.var \/ f.master = g.master) => f = g
        BY <1>1, <1>6, <2>1, <2>4 DEF SessionIsOrdered
      <3> QED
        BY <3>2, <3>3 DEF SessionIsOrdered
    <2>10. BothSidesKnow'
      <3>1. \A f \in Entry : f.master \in Master
        BY DEF Entry
      <3>2. \A f \in session' : f \in session \/ f = e
        BY <1>6
      <3>3. \A f \in Entry : Grant(f) \in Told' => f \in session' /\ Drop(f.master) \notin Going'
        BY <1>1, <1>3, <1>6, <2>1, <2>5, <2>6, <3>1 DEF BothSidesKnow
      <3>4. \A m \in Master : Drop(m) \in Going' => \E f \in session' \ byMaster' : f.master = m
        BY <1>1, <1>2, <1>3, <1>6 DEF BothSidesKnow
      <3>5. \A f \in session' \ byMaster' : Grant(f) \in Told' \/ Drop(f.master) \in Going'
        BY <1>1, <1>2, <1>3, <1>4, <2>1, <2>3, <3>1, <3>2 DEF BothSidesKnow
      <3>6. byMaster' \subseteq session'
        BY <1>1, <1>2, <1>6 DEF BothSidesKnow
      <3> QED
        BY <1>3, <3>3, <3>4, <3>5, <3>6 DEF BothSidesKnow
    <2>11. RequestsAnswered'
      <3>1. IsReplyFor(Grant(e), v)
        BY <2>1 DEF Grant, IsReplyFor
      <3> QED
        BY <1>1, <1>2, <2>3, <3>1, ServerSubscribesAnswers
    <2> QED
      BY <2>8, <2>9, <2>10, <2>11
  <1> QED
    BY <1>5, <1>6 DEF ServerSubscribes

LEMMA ServerUnsubscribesInv ==
  ASSUME SessionInv, Lasting, toServer # <<>>, toServer' = Tail(toServer),
         Head(toServer).kind = "unsubscribe",
         ServerUnsubscribes(Head(toServer).id),
         UNCHANGED <<dbVars, clientVars>>
  PROVE  GrantsAreNew' /\ SessionIsOrdered' /\ BothSidesKnow' /\ RequestsAnswered'
  <1> DEFINE i == Head(toServer).id
             m == [kind |-> "UNSUBSCRIBED", id |-> i]
  <1>1. /\ TypeOK /\ GrantsAreNew /\ SessionIsOrdered /\ BothSidesKnow
        /\ RequestsAnswered
    BY DEF SessionInv, ClientInv, Lasting
  <1>2. UNCHANGED <<inbuf, missed, byMaster, subReqs, unsubReqs>>
    BY DEF dbVars, clientVars
  <1>3. /\ i \in Master
        /\ Head(toServer) = Drop(i)
        /\ Going = Going' \cup {Drop(i)}
        /\ Once(toServer', Drops)
        /\ Drop(i) \notin Going'
    BY <1>1, GoingShrinks, DropProperties DEF BothSidesKnow
  <1>4. \A k \in Master : Drop(k) \in Going' <=> Drop(k) \in Going /\ k # i
    BY <1>3, DropProperties
  <1>5. PICK f \in session \ byMaster : f.master = i
    BY <1>1, <1>3 DEF BothSidesKnow
  <1>6. /\ session' = {e \in session : e.master # i}
        /\ Writes(m)
        /\ given' = given
    BY <1>5 DEF ServerUnsubscribes
  <1>7. m \in ToClient
    BY <1>3 DEF ToClient
  <1>8. /\ GrantsAreNew'
        /\ \A e \in Entry : Grant(e) \in Told' <=> Grant(e) \in Told
    BY <1>1, <1>2, <1>6, <1>7, GrantsStayNew
  <1>9. Told' = Told \cup {m}
    BY <1>1, <1>2, <1>6, <1>7, ToldGrows
  <1>10. SessionIsOrdered'
    BY <1>1, <1>6 DEF SessionIsOrdered
  <1>11. BothSidesKnow'
    <2>1. \A e \in session : e.master = i => e = f
      BY <1>1, <1>5 DEF SessionIsOrdered
    <2>2. \A e \in Entry : e.master \in Master
      BY DEF Entry
    <2>3. byMaster' \subseteq session'
      BY <1>1, <1>2, <1>5, <1>6, <2>1 DEF BothSidesKnow
    <2>4. \A e \in Entry : Grant(e) \in Told' => e \in session' /\ Drop(e.master) \notin Going'
      BY <1>1, <1>3, <1>4, <1>6, <1>8, <2>2 DEF BothSidesKnow
    <2>5. \A k \in Master : Drop(k) \in Going' => \E e \in session' \ byMaster' : e.master = k
      BY <1>1, <1>2, <1>4, <1>6 DEF BothSidesKnow
    <2>6. \A e \in session' \ byMaster' : Grant(e) \in Told' \/ Drop(e.master) \in Going'
      <3>1. session \subseteq Entry
        BY <1>1 DEF TypeOK
      <3> QED
        BY <1>1, <1>2, <1>4, <1>6, <1>8, <2>2, <3>1 DEF BothSidesKnow
    <2>7. Once(toServer, Drops)'
      BY <1>3 DEF Once
    <2> QED
      BY <2>3, <2>4, <2>5, <2>6, <2>7 DEF BothSidesKnow
  <1>12. RequestsAnswered'
    <2>1. ASSUME NEW v \in Var, subReqs[v] # {}
          PROVE  Answers(v)'
      <3>1. AskFor(v) # Drop(i)
        BY DEF AskFor, Drop
      <3> QED
        BY <1>1, <1>3, <1>9, <2>1, <3>1 DEF Answers, RequestsAnswered
    <2>2. ASSUME NEW k \in Master, unsubReqs[k] # {}
          PROVE  DropAnswers(k)'
      <3>1. CASE k = i
        BY <1>9, <3>1 DEF DropAnswers, Dropped
      <3>2. CASE k # i
        BY <1>1, <1>4, <1>9, <2>2, <3>2 DEF DropAnswers, RequestsAnswered
      <3> QED
        BY <3>1, <3>2
    <2> QED
      BY <1>2, <2>1, <2>2 DEF RequestsAnswered
  <1> QED
    BY <1>8, <1>10, <1>11, <1>12

LEMMA ServerUpdatesInv ==
  ASSUME SessionInv, Lasting, toServer # <<>>, toServer' = Tail(toServer),
         Head(toServer).kind = "update",
         UNCHANGED <<toClient, session, given, dbVars, clientVars>>
  PROVE  GrantsAreNew' /\ SessionIsOrdered' /\ BothSidesKnow' /\ RequestsAnswered'
  <1>1. /\ TypeOK /\ GrantsAreNew /\ SessionIsOrdered /\ BothSidesKnow
        /\ RequestsAnswered
    BY DEF SessionInv, ClientInv, Lasting
  <1>2. UNCHANGED <<inbuf, missed, byMaster, subReqs, unsubReqs>>
    BY DEF dbVars, clientVars
  <1>0. Told' = Told /\ (Fresh(Grants) => Fresh(Grants)')
    BY <1>2, ToldUnchanged
  <1>3. /\ Once(toServer, Drops)'
        /\ \A m \in Master : Drop(m) \in Going' <=> Drop(m) \in Going
    BY <1>1, DropsStay DEF BothSidesKnow
  <1>4. GrantsAreNew' /\ SessionIsOrdered'
    BY <1>0, <1>1, <1>2 DEF GrantsAreNew, SessionIsOrdered
  <1>5. BothSidesKnow'
    <2>1. session \subseteq Entry /\ \A e \in Entry : e.master \in Master
      BY <1>1 DEF TypeOK, Entry
    <2> QED
      BY <1>0, <1>1, <1>2, <1>3, <2>1 DEF BothSidesKnow
  <1>6. RequestsAnswered'
    <2>1. Going = Going' \cup {Head(toServer)}
      BY <1>1, GoingShrinks
    <2>2. \A v : AskFor(v) # Head(toServer)
      BY DEF AskFor
    <2>3. \A v \in Var : Answers(v) => Answers(v)'
      BY <1>0, <2>1, <2>2 DEF Answers
    <2>4. \A i \in Master : DropAnswers(i) => DropAnswers(i)'
      BY <1>0, <1>3 DEF DropAnswers
    <2> QED
      BY <1>1, <1>2, <2>3, <2>4 DEF RequestsAnswered
  <1> QED
    BY <1>4, <1>5, <1>6

\* Nothing said of a subscription changes.
LEMMA SessionStays ==
  ASSUME SessionInv, ClientInv', Told' = Told, Fresh(Grants) => Fresh(Grants)',
         UNCHANGED <<toServer, session, given, byMaster, subReqs, unsubReqs>>,
         Listening' => Listening, Lasting' => Lasting,
         conn' = "handshake" => thread' = "none"
  PROVE  SessionInv'
  <1>1. Going' = Going
    BY DEF Going
  <1>2. GrantsAreNew => GrantsAreNew'
    BY DEF GrantsAreNew
  <1>3. SessionIsOrdered => SessionIsOrdered'
    BY DEF SessionIsOrdered
  <1>4. BothSidesKnow => BothSidesKnow'
    BY <1>1 DEF BothSidesKnow, Once
  <1>5. RequestsAnswered => RequestsAnswered'
    BY <1>1 DEF RequestsAnswered, Answers, DropAnswers
  <1> QED
    BY <1>2, <1>3, <1>4, <1>5 DEF SessionInv

\* The connection has been given up.
LEMMA GivenUp ==
  ASSUME ClientInv', ~Listening'
  PROVE  SessionInv'
  BY DEF SessionInv, Listening, Lasting

LEMMA ServerHandlesInv ==
  ASSUME SessionInv, ClientInv', NEW n \in Nat, ServerHandles(n)
  PROVE  SessionInv'
  <1>1. /\ link = "open" /\ toServer # <<>> /\ toServer' = Tail(toServer)
        /\ UNCHANGED <<dbVars, clientVars>>
    <2>1. toServer # <<>>
      BY LenProperties, EmptySeq DEF ServerHandles, SessionInv, ClientInv, TypeOK
    <2> QED
      BY <2>1 DEF ServerHandles
  <1>2. conn' = conn /\ thread' = thread
    BY <1>1 DEF clientVars
  <1>3. CASE ~Listening
    BY <1>2, <1>3, GivenUp DEF Listening
  <1>4. CASE Listening
    <2>1. Lasting
      BY <1>1, <1>4 DEF Lasting
    <2>2. CASE GrantsAreNew' /\ SessionIsOrdered' /\ BothSidesKnow' /\ RequestsAnswered'
      BY <1>2, <2>2 DEF SessionInv
    <2>3. CASE Head(toServer).kind = "subscribe" /\ ServerSubscribes(Head(toServer).var)
      BY <1>1, <2>1, <2>2, <2>3, ServerSubscribesInv
    <2>4. CASE Head(toServer).kind = "unsubscribe" /\ ServerUnsubscribes(Head(toServer).id)
      BY <1>1, <2>1, <2>2, <2>4, ServerUnsubscribesInv
    <2>5. CASE Head(toServer).kind = "update" /\ UNCHANGED <<toClient, session, given>>
      BY <1>1, <2>1, <2>2, <2>5, ServerUpdatesInv
    <2>6. CASE link' = "closed" /\ UNCHANGED toClient
      <3>1. UNCHANGED <<inbuf, toClient, missed, byMaster>>
        BY <1>1, <2>6 DEF clientVars, dbVars
      <3>2. Told' = Told /\ (Fresh(Grants) => Fresh(Grants)')
        BY <3>1, ToldUnchanged
      <3>3. GrantsAreNew'
        BY <1>4, <3>1, <3>2 DEF SessionInv, GrantsAreNew
      <3> QED
        BY <1>2, <2>6, <3>3 DEF SessionInv, Lasting
    <2> QED
      BY <2>3, <2>4, <2>5, <2>6 DEF ServerHandles
  <1> QED
    BY <1>3, <1>4

LEMMA ServerTellsInv ==
  ASSUME SessionInv, ClientInv', NEW e \in session, ServerTells(e)
  PROVE  SessionInv'
  <1> DEFINE m == [kind |-> "var_update", id |-> e.master]
  <1>1. TypeOK
    BY DEF SessionInv, ClientInv
  <1>2. m \in ToClient
    BY <1>1 DEF ToClient, TypeOK, Entry
  <1>3. /\ Writes(m)
        /\ UNCHANGED <<inbuf, missed, byMaster, toServer, session, given, subReqs,
                       unsubReqs, conn, thread, link>>
    BY DEF ServerTells, dbVars, clientVars
  <1>4. Told' = Told \cup {m} /\ Going' = Going
    BY <1>1, <1>2, <1>3, ToldGrows DEF Going
  <1>5. GrantsAreNew => /\ GrantsAreNew'
                        /\ \A f \in Entry : Grant(f) \in Told' <=> Grant(f) \in Told
    BY <1>1, <1>2, <1>3, GrantsStayNew
  <1>6. SessionIsOrdered => SessionIsOrdered'
    BY <1>3 DEF SessionIsOrdered
  <1>7. GrantsAreNew /\ BothSidesKnow => BothSidesKnow'
    <2>1. session \subseteq Entry
      BY <1>1 DEF TypeOK
    <2> QED
      BY <1>3, <1>4, <1>5, <2>1 DEF BothSidesKnow, Once
  <1>8. RequestsAnswered => RequestsAnswered'
    BY <1>3, <1>4 DEF RequestsAnswered, Answers, DropAnswers
  <1> QED
    BY <1>3, <1>5, <1>6, <1>7, <1>8 DEF SessionInv, Listening, Lasting

LEMMA ServerBreaksInv ==
  ASSUME SessionInv, ClientInv', ServerBreaks
  PROVE  SessionInv'
  <1>1. /\ link' # "open"
        /\ UNCHANGED <<inbuf, missed, byMaster, conn, thread>>
        /\ toClient' \in {toClient, <<>>}
    BY DEF ServerBreaks, dbVars, clientVars
  <1>2. Told' \subseteq Told /\ (Fresh(Grants) => Fresh(Grants)')
    BY <1>1, ToldLost DEF SessionInv, ClientInv
  <1>3. GrantsAreNew => GrantsAreNew'
    BY <1>1, <1>2 DEF GrantsAreNew
  <1> QED
    BY <1>1, <1>3 DEF SessionInv, Listening, Lasting

-----------------------------------------------------------------------------
(* The steps of the client's thread.                                       *)

\* A message that drops nothing is sent, or none.
LEMMA SentInv ==
  ASSUME SessionInv, Lasting, NEW m \in ToServer, m.kind # "unsubscribe",
         Sends(m), UNCHANGED <<inbuf, toClient, missed, byMaster, session, given, unsubReqs>>,
         \A v \in Var : subReqs'[v] # {} => subReqs[v] # {} \/ m = AskFor(v)
  PROVE  GrantsAreNew' /\ SessionIsOrdered' /\ BothSidesKnow' /\ RequestsAnswered'
  <1>1. /\ TypeOK /\ GrantsAreNew /\ SessionIsOrdered /\ BothSidesKnow
        /\ RequestsAnswered
    BY DEF SessionInv, ClientInv, Lasting
  <1>2. toServer' = Append(toServer, m) /\ Going' = Going \cup {m}
    BY <1>1, GoingGrows DEF Lasting
  <1>3. Told' = Told /\ (Fresh(Grants) => Fresh(Grants)')
    BY ToldUnchanged
  <1>4. GrantsAreNew' /\ SessionIsOrdered'
    BY <1>1, <1>3 DEF GrantsAreNew, SessionIsOrdered
  <1>5. \A i \in Master : Drop(i) \in Going' <=> Drop(i) \in Going
    BY <1>2, DropProperties DEF Drop
  <1>6. Once(toServer, Drops)'
    <2>1. Once(Append(toServer, m), Drops)
      BY <1>1, DropProperties, OnceAppended DEF BothSidesKnow, TypeOK
    <2> QED
      BY <1>2, <2>1 DEF Once
  <1>7. BothSidesKnow'
    <2>1. session \subseteq Entry /\ \A e \in Entry : e.master \in Master
      BY <1>1 DEF TypeOK, Entry
    <2> QED
      BY <1>1, <1>3, <1>5, <1>6, <2>1 DEF BothSidesKnow
  <1>8. RequestsAnswered'
    BY <1>1, <1>2, <1>3 DEF RequestsAnswered, Answers, DropAnswers
  <1> QED
    BY <1>4, <1>7, <1>8

\* The entry of the last virtual subscription goes, and the server is told.
LEMMA DroppedInv ==
  ASSUME SessionInv, Lasting, NEW n, NEW i, RemoveVirtual(i), IsLast(i),
         unsubReqs' = [unsubReqs EXCEPT ![MasterOf(i)] = @ \cup {n}],
         Sends(Drop(MasterOf(i))),
         UNCHANGED <<inbuf, toClient, missed, session, given, subReqs>>
  PROVE  GrantsAreNew' /\ SessionIsOrdered' /\ BothSidesKnow' /\ RequestsAnswered'
  <1> DEFINE k == MasterOf(i)
  <1>1. /\ TypeOK /\ GrantsAreNew /\ SessionIsOrdered /\ BothSidesKnow
        /\ RequestsAnswered /\ DbConsistent
    BY DEF SessionInv, ClientInv, Lasting
  <1>2. k \in Master
    BY <1>1, MasterOfType DEF RemoveVirtual
  <1>3. PICK f \in byMaster : f.master = k
    <2>1. \E l \in byVirtual : l.id = i
      BY DEF RemoveVirtual, VirtualDefined
    <2>2. PICK l \in byVirtual : k = l.entry.master
      BY <2>1 DEF MasterOf
    <2>3. l.entry \in byMaster
      BY <1>1 DEF DbConsistent
    <2> QED
      BY <2>2, <2>3
  <1>4. byMaster' = {e \in byMaster : e.master # k}
    BY DEF RemoveVirtual
  <1>5. f \in session /\ \A e \in session : e.master = k => e = f
    BY <1>1, <1>3 DEF BothSidesKnow, SessionIsOrdered
  <1>6. Drop(k) \notin Going
    BY <1>1, <1>2, <1>3, <1>5 DEF BothSidesKnow
  <1>7. /\ Drop(k) \in ToServer
        /\ \A m \in Master : Drop(m) = Drop(k) => m = k
    BY <1>2, DropProperties
  <1>8. toServer' = Append(toServer, Drop(k)) /\ Going' = Going \cup {Drop(k)}
    BY <1>1, <1>7, GoingGrows DEF Lasting
  <1>9. Told' = Told /\ (Fresh(Grants) => Fresh(Grants)')
    BY ToldUnchanged
  <1>10. GrantsAreNew' /\ SessionIsOrdered'
    BY <1>1, <1>4, <1>9 DEF GrantsAreNew, SessionIsOrdered
  <1>11. BothSidesKnow'
    <2>1. session \subseteq Entry /\ \A e \in Entry : e.master \in Master
      BY <1>1 DEF TypeOK, Entry
    <2>2. byMaster' \subseteq session'
      BY <1>1, <1>4 DEF BothSidesKnow
    <2>3. ASSUME NEW e \in Entry, Grant(e) \in Told'
          PROVE  e \in session' /\ Drop(e.master) \notin Going'
      <3>1. e.master # k
        BY <1>1, <1>3, <1>9, <2>3 DEF GrantsAreNew
      <3> QED
        BY <1>1, <1>7, <1>8, <1>9, <2>1, <2>3, <3>1 DEF BothSidesKnow
    <2>4. Once(toServer, Drops)'
      <3>1. Once(Append(toServer, Drop(k)), Drops)
        BY <1>1, <1>6, <1>7, FlowType, OnceAppended DEF BothSidesKnow, TypeOK
      <3> QED
        BY <1>8, <3>1 DEF Once
    <2>5. ASSUME NEW m \in Master, Drop(m) \in Going'
          PROVE  \E e \in session' \ byMaster' : e.master = m
      <3>1. CASE m = k
        BY <1>3, <1>4, <1>5, <3>1
      <3>2. CASE m # k
        BY <1>1, <1>4, <1>7, <1>8, <2>5, <3>2 DEF BothSidesKnow
      <3> QED
        BY <3>1, <3>2
    <2>6. ASSUME NEW e \in session' \ byMaster'
          PROVE  Grant(e) \in Told' \/ Drop(e.master) \in Going'
      BY <1>1, <1>4, <1>8, <1>9, <2>6 DEF BothSidesKnow
    <2> QED
      BY <2>2, <2>3, <2>4, <2>5, <2>6 DEF BothSidesKnow
  <1>12. RequestsAnswered'
    <2>1. \A v \in Var : subReqs'[v] # {} => Answers(v)'
      BY <1>1, <1>8, <1>9 DEF RequestsAnswered, Answers
    <2>2. ASSUME NEW m \in Master, unsubReqs'[m] # {}
          PROVE  DropAnswers(m)'
      <3>1. m = k \/ unsubReqs[m] # {}
        BY <1>1, <1>2, <2>2 DEF TypeOK
      <3> QED
        BY <1>1, <1>8, <1>9, <3>1 DEF RequestsAnswered, DropAnswers
    <2> QED
      BY <2>1, <2>2 DEF RequestsAnswered
  <1> QED
    BY <1>10, <1>11, <1>12

LEMMA RunPostSession ==
  ASSUME SessionInv, ClientInv', RunPost
  PROVE  SessionInv'
  <1> DEFINE n == Head(posts)
  <1>1. UNCHANGED <<calls, conn, thread, inbuf, missed, link, toClient, session, given>>
    BY DEF RunPost
  <1>2. TypeOK /\ n \in 1..Len(calls)
    <2>1. n \in Posted
      BY PostsPopped DEF SessionInv, ClientInv, OnePlace, RunPost
    <2> QED
      BY <2>1 DEF SessionInv, ClientInv, OnePlace
  <1>3. calls[n] \in Call
    BY <1>2, ElementOfSeq DEF TypeOK
  <1>4. CASE ~Listening
    BY <1>1, <1>4, GivenUp DEF Listening
  <1>5. CASE Listening /\ link # "open"
    <2>1. byMaster' \subseteq byMaster
      <3>1. /\ \A v, S : AddVirtual(v, S) => byMaster' = byMaster
            /\ \A i : RemoveVirtual(i) => byMaster' \subseteq byMaster
            /\ UNCHANGED dbVars => byMaster' = byMaster
        BY DEF AddVirtual, RemoveVirtual, dbVars
      <3> QED
        BY <3>1 DEF RunPost, OnSubscriptionRequested, OnUnsubscriptionRequested,
                    OnVariableUpdateRequested
    <2>2. Told' = Told /\ (Fresh(Grants) => Fresh(Grants)')
      BY <1>1, ToldUnchanged
    <2>3. GrantsAreNew'
      BY <1>5, <2>1, <2>2 DEF SessionInv, GrantsAreNew
    <2> QED
      BY <1>1, <1>5, <2>3 DEF SessionInv, Lasting
  <1>6. CASE Listening /\ link = "open"
    <2>1. Lasting /\ link = "open"
      BY <1>6 DEF Lasting
    <2>2. CASE GrantsAreNew' /\ SessionIsOrdered' /\ BothSidesKnow' /\ RequestsAnswered'
      BY <1>1, <2>2 DEF SessionInv
    <2>3. CASE UNCHANGED <<byMaster, subReqs, unsubReqs, toServer>>
      <3>1. Told' = Told /\ (Fresh(Grants) => Fresh(Grants)')
        BY <1>1, ToldUnchanged
      <3>2. conn' = "handshake" => thread' = "none"
        BY <1>1 DEF SessionInv
      <3> QED
        BY <1>1, <2>3, <3>1, <3>2, SessionStays DEF Listening, Lasting
    <2>4. CASE calls[n].op = "subscribe" /\ OnSubscriptionRequested(n, calls[n].var)
      <3> DEFINE v == calls[n].var
      <3>1. v \in Var
        BY <1>3, <2>4 DEF Call
      <3>2. CASE VariableDefined(v)
        BY <2>3, <2>4, <3>2 DEF OnSubscriptionRequested, AddVirtual
      <3>3. CASE ~VariableDefined(v)
        <4>1. AskFor(v) \in ToServer /\ AskFor(v).kind # "unsubscribe"
          BY <3>1 DEF AskFor, ToServer
        <4>2. /\ subReqs' = [subReqs EXCEPT ![v] = @ \cup {n}]
              /\ Sends(AskFor(v))
              /\ UNCHANGED <<byMaster, unsubReqs>>
          BY <2>4, <3>3 DEF OnSubscriptionRequested, AskFor, dbVars
        <4>3. \A w \in Var : subReqs'[w] # {} => subReqs[w] # {} \/ AskFor(v) = AskFor(w)
          BY <1>2, <4>2 DEF TypeOK
        <4> QED
          BY <1>1, <2>1, <2>2, <4>1, <4>2, <4>3, SentInv
      <3> QED
        BY <3>2, <3>3
    <2>5. CASE calls[n].op = "unsubscribe" /\ OnUnsubscriptionRequested(n, calls[n].id)
      <3> DEFINE i == calls[n].id
      <3>1. CASE ~RemoveVirtual(i)
        BY <2>3, <2>5, <3>1 DEF OnUnsubscriptionRequested, dbVars
      <3>2. CASE RemoveVirtual(i) /\ ~IsLast(i)
        BY <2>3, <2>5, <3>2 DEF OnUnsubscriptionRequested, RemoveVirtual
      <3>3. CASE RemoveVirtual(i) /\ IsLast(i)
        <4>1. /\ unsubReqs' = [unsubReqs EXCEPT ![MasterOf(i)] = @ \cup {n}]
              /\ Sends(Drop(MasterOf(i)))
              /\ UNCHANGED subReqs
          BY <2>5, <3>3 DEF OnUnsubscriptionRequested, RemoveVirtual, Drop
        <4> QED
          BY <1>1, <2>1, <2>2, <3>3, <4>1, DroppedInv
      <3> QED
        BY <3>1, <3>2, <3>3
    <2>6. CASE calls[n].op = "update" /\ OnVariableUpdateRequested(n, calls[n].id)
      <3> DEFINE i == calls[n].id
                 m == [kind |-> "update", id |-> MasterOf(i)]
      <3>1. UNCHANGED <<byMaster, subReqs, unsubReqs>>
        BY <2>6 DEF OnVariableUpdateRequested, dbVars
      <3>2. CASE VirtualDefined(i) /\ Sends(m)
        <4>1. m \in ToServer /\ m.kind # "unsubscribe"
          BY <1>2, <3>2, MasterOfType DEF ToServer
        <4> QED
          BY <1>1, <2>1, <2>2, <3>1, <3>2, <4>1, SentInv
      <3>3. CASE UNCHANGED toServer
        BY <2>3, <3>1, <3>3
      <3> QED
        BY <2>6, <3>2, <3>3 DEF OnVariableUpdateRequested
    <2> QED
      BY <2>4, <2>5, <2>6 DEF RunPost
  <1> QED
    BY <1>4, <1>5, <1>6

\* The message received is no grant, and its requests are settled.
LEMMA ReplyReceived ==
  ASSUME SessionInv, Listening, NEW m \in ToClient, m.kind # "SUBSCRIBED",
         Told = Told' \cup {m}, Fresh(Grants)',
         UNCHANGED <<byMaster, toServer, session, given, link>>,
         \A v \in Var : subReqs'[v] # {} =>
           /\ subReqs[v] # {}
           /\ ~IsReplyFor(m, v),
         \A i \in Master : unsubReqs'[i] # {} =>
           /\ unsubReqs[i] # {}
           /\ m # Dropped(i)
  PROVE  /\ GrantsAreNew'
         /\ Lasting => SessionIsOrdered' /\ BothSidesKnow' /\ RequestsAnswered'
  <1>1. TypeOK /\ GrantsAreNew
    BY DEF SessionInv, ClientInv
  <1>2. \A e \in Entry : Grant(e) \in Told' <=> Grant(e) \in Told
    BY GrantProperties
  <1>3. GrantsAreNew'
    BY <1>1, <1>2 DEF GrantsAreNew
  <1>4. ASSUME Lasting
        PROVE  SessionIsOrdered' /\ BothSidesKnow' /\ RequestsAnswered'
    <2>1. SessionIsOrdered /\ BothSidesKnow /\ RequestsAnswered
      BY <1>4 DEF SessionInv
    <2>2. Going' = Going
      BY DEF Going
    <2>3. BothSidesKnow'
      <3>1. session \subseteq Entry
        BY <1>1 DEF TypeOK
      <3> QED
        BY <1>2, <2>1, <2>2, <3>1 DEF BothSidesKnow, Once
    <2>4. RequestsAnswered'
      <3>1. ASSUME NEW v \in Var, subReqs'[v] # {}
            PROVE  Answers(v)'
        BY <2>1, <2>2, <3>1 DEF RequestsAnswered, Answers
      <3>2. ASSUME NEW i \in Master, unsubReqs'[i] # {}
            PROVE  DropAnswers(i)'
        BY <2>1, <2>2, <3>2 DEF RequestsAnswered, DropAnswers
      <3> QED
        BY <3>1, <3>2 DEF RequestsAnswered
    <2> QED
      BY <2>1, <2>3, <2>4 DEF SessionIsOrdered
  <1> QED
    BY <1>3, <1>4

\* A grant becomes an entry, since there is none for its variable.
LEMMA GrantReceived ==
  ASSUME SessionInv, Listening, NEW m \in ToClient, m.kind = "SUBSCRIBED",
         m \in Told, Told = Told' \cup {m}, m \notin Told',
         Fresh(Grants)',
         \/ VariableDefined(m.var) /\ AddVirtual(m.var, subReqs[m.var])
         \/ CreateEntry(m.var, m.id, subReqs[m.var]),
         subReqs' = [subReqs EXCEPT ![m.var] = {}],
         UNCHANGED <<unsubReqs, toServer, session, given, link>>
  PROVE  /\ GrantsAreNew'
         /\ Lasting => SessionIsOrdered' /\ BothSidesKnow' /\ RequestsAnswered'
  <1> DEFINE e == [var |-> m.var, master |-> m.id]
  <1>1. TypeOK /\ DbConsistent /\ GrantsAreNew
    BY DEF SessionInv, ClientInv
  <1>2. e \in Entry /\ m = Grant(e) /\ e.var = m.var /\ e.master = m.id
    BY GrantProperties
  <1>3. byMaster' = byMaster \cup {e}
    <2>1. ~VariableDefined(m.var)
      BY <1>1, <1>2 DEF VariableDefined, GrantsAreNew, DbConsistent
    <2> QED
      BY <2>1 DEF CreateEntry
  <1>4. \A f \in Entry : Grant(f) \in Told' <=> Grant(f) \in Told /\ f # e
    BY <1>2, GrantProperties
  <1>5. GrantsAreNew'
    <2>1. ASSUME NEW f \in Entry, NEW g \in byMaster', Grant(f) \in Told'
          PROVE  f.var # g.var /\ f.master # g.master
      <3>1. CASE g \in byMaster
        BY <1>1, <1>4, <2>1, <3>1 DEF GrantsAreNew
      <3>2. CASE g = e
        BY <1>1, <1>2, <1>4, <2>1, <3>2 DEF GrantsAreNew
      <3> QED
        BY <1>3, <3>1, <3>2
    <2>2. \A f, g \in Entry :
            Grant(f) \in Told' /\ Grant(g) \in Told'
              /\ (f.var = g.var \/ f.master = g.master) => f = g
      BY <1>1, <1>4 DEF GrantsAreNew
    <2> QED
      BY <2>1, <2>2 DEF GrantsAreNew
  <1>6. ASSUME Lasting
        PROVE  SessionIsOrdered' /\ BothSidesKnow' /\ RequestsAnswered'
    <2>1. SessionIsOrdered /\ BothSidesKnow /\ RequestsAnswered
      BY <1>6 DEF SessionInv
    <2>2. Going' = Going
      BY DEF Going
    <2>3. e \in session /\ Drop(m.id) \notin Going
      BY <1>2, <2>1 DEF BothSidesKnow
    <2>4. BothSidesKnow'
      <3>1. session \subseteq Entry
        BY <1>1 DEF TypeOK
      <3>2. byMaster' \subseteq session'
        BY <1>3, <2>1, <2>3 DEF BothSidesKnow
      <3>3. ASSUME NEW k \in Master, Drop(k) \in Going'
            PROVE  \E f \in session' \ byMaster' : f.master = k
        <4>1. PICK f \in session \ byMaster : f.master = k
          BY <2>1, <2>2, <3>3 DEF BothSidesKnow
        <4>2. f # e
          BY <1>2, <2>2, <2>3, <3>3, <4>1
        <4> QED
          BY <1>3, <4>1, <4>2
      <3>4. \A f \in session' \ byMaster' : Grant(f) \in Told' \/ Drop(f.master) \in Going'
        BY <1>3, <1>4, <2>1, <2>2, <3>1 DEF BothSidesKnow
      <3>5. \A f \in Entry : Grant(f) \in Told' => f \in session' /\ Drop(f.master) \notin Going'
        BY <1>4, <2>1, <2>2 DEF BothSidesKnow
      <3>6. Once(toServer, Drops)'
        BY <2>1 DEF BothSidesKnow, Once
      <3> QED
        BY <3>2, <3>3, <3>4, <3>5, <3>6 DEF BothSidesKnow
    <2>5. RequestsAnswered'
      <3>1. ASSUME NEW v \in Var, subReqs'[v] # {}
            PROVE  Answers(v)'
        <4>1. v # m.var /\ subReqs[v] # {}
          BY <1>1, <3>1 DEF TypeOK
        <4>2. ~IsReplyFor(m, v)
          BY <4>1 DEF IsReplyFor
        <4> QED
          BY <2>1, <2>2, <4>1, <4>2 DEF RequestsAnswered, Answers
      <3>2. ASSUME NEW i \in Master, unsubReqs'[i] # {}
            PROVE  DropAnswers(i)'
        <4>1. Dropped(i) # m
          BY DEF Dropped
        <4> QED
          BY <2>1, <2>2, <3>2, <4>1 DEF RequestsAnswered, DropAnswers
      <3> QED
        BY <3>1, <3>2 DEF RequestsAnswered
    <2> QED
      BY <2>1, <2>4, <2>5 DEF SessionIsOrdered
  <1> QED
    BY <1>5, <1>6

LEMMA OnMessageReceivedSession ==
  ASSUME SessionInv, ClientInv', NEW n \in Nat, NEW h \in BOOLEAN,
         OnMessageReceived(n, h)
  PROVE  SessionInv'
  <1> DEFINE m == Head(Received(n))
  <1>1. /\ thread = "running"
        /\ Receives(n, h) /\ Received(n) # <<>> /\ inbuf' = Tail(Received(n))
        /\ UNCHANGED <<thread, missed, link, toServer, session, given>>
    BY DEF OnMessageReceived, Running
  <1>2. conn # "handshake" /\ TypeOK
    BY <1>1 DEF SessionInv, ClientInv
  <1>3. CASE \E S : Disconnects(S)
    <2>1. ~Listening'
      BY <1>2, <1>3 DEF Disconnects, Listening
    <2> QED
      BY <2>1, GivenUp
  <1>4. CASE ~\E S : Disconnects(S)
    <2>1. conn' = conn
      BY <1>4 DEF OnMessageReceived, OnSubscriptionReplyReceived,
                  OnUnsubscriptionReplyReceived, OnVariableUpdateReceived, ReadsOn
    <2>2. CASE ~Listening
      BY <2>1, <2>2, GivenUp DEF Listening
    <2>3. CASE Listening
      <3>1. /\ m \in ToClient /\ m \in Told /\ Told = Told' \cup {m}
            /\ Fresh(Grants)'
            /\ m \in Grants => m \notin Told'
        BY <1>1, <1>2, <2>3, ToldShrinks DEF SessionInv, GrantsAreNew
      <3>2. CASE /\ GrantsAreNew'
                 /\ Lasting => SessionIsOrdered' /\ BothSidesKnow' /\ RequestsAnswered'
        BY <1>1, <1>2, <2>1, <3>2 DEF SessionInv, Listening, Lasting
      <3>3. CASE m.kind = "SUBSCRIBED"
        <4>1. /\ \/ VariableDefined(m.var) /\ AddVirtual(m.var, subReqs[m.var])
                 \/ CreateEntry(m.var, m.id, subReqs[m.var])
              /\ subReqs' = [subReqs EXCEPT ![m.var] = {}]
              /\ UNCHANGED unsubReqs
          BY <1>4, <3>3 DEF OnMessageReceived, OnSubscriptionReplyReceived
        <4>2. m \in Grants
          BY <3>1, <3>3, GrantProperties
        <4> QED
          BY <1>1, <2>3, <3>1, <3>2, <3>3, <4>1, <4>2, GrantReceived
      <3>4. CASE m.kind \in {"NO_SUCH_VAR", "VAR_ALREADY_SUBSCRIBED"}
        <4>1. /\ subReqs' = [subReqs EXCEPT ![m.var] = {}]
              /\ UNCHANGED <<byMaster, unsubReqs>>
          BY <1>4, <3>4 DEF OnMessageReceived, OnSubscriptionReplyReceived, dbVars
        <4>2. /\ \A v \in Var : subReqs'[v] # {} => subReqs[v] # {} /\ ~IsReplyFor(m, v)
              /\ \A i : m # Dropped(i)
          BY <1>2, <3>4, <4>1 DEF TypeOK, IsReplyFor, Dropped
        <4> HIDE DEF m
        <4> QED
          BY <1>1, <2>3, <3>1, <3>2, <3>4, <4>1, <4>2, ReplyReceived
      <3>5. CASE m.kind \in {"UNSUBSCRIBED", "NO_SUCH_SUBSCRIPTION"}
        <4>1. /\ unsubReqs' = [unsubReqs EXCEPT ![m.id] = {}]
              /\ UNCHANGED <<byMaster, subReqs>>
          BY <1>4, <3>5 DEF OnMessageReceived, OnUnsubscriptionReplyReceived, dbVars
        <4>2. /\ \A i \in Master : unsubReqs'[i] # {} => unsubReqs[i] # {} /\ m # Dropped(i)
              /\ \A v : ~IsReplyFor(m, v)
          BY <1>2, <3>5, <4>1 DEF TypeOK, IsReplyFor, Dropped
        <4> HIDE DEF m
        <4> QED
          BY <1>1, <2>3, <3>1, <3>2, <3>5, <4>1, <4>2, ReplyReceived
      <3>6. CASE m.kind = "var_update"
        <4>1. UNCHANGED <<byMaster, subReqs, unsubReqs>>
          BY <3>6 DEF OnMessageReceived, OnVariableUpdateReceived, dbVars
        <4>2. (\A v : ~IsReplyFor(m, v)) /\ \A i : m # Dropped(i)
          BY <3>6 DEF IsReplyFor, Dropped
        <4> HIDE DEF m
        <4> QED
          BY <1>1, <2>3, <3>1, <3>2, <3>6, <4>1, <4>2, ReplyReceived
      <3> QED
        BY <3>3, <3>4, <3>5, <3>6 DEF OnMessageReceived
    <2> QED
      BY <2>2, <2>3
  <1> QED
    BY <1>3, <1>4

LEMMA HandshakeSession ==
  ASSUME SessionInv, ClientInv', NEW n \in Nat, NEW h \in BOOLEAN, Handshake(n, h)
  PROVE  SessionInv'
  <1> DEFINE m == Head(Received(n))
  <1>1. /\ conn = "handshake" /\ Receives(n, h)
        /\ UNCHANGED <<byMaster, subReqs, unsubReqs, missed, link, toServer, session, given>>
    BY DEF Handshake, dbVars
  <1>2. CASE conn' = "failed"
    BY <1>2, GivenUp DEF Listening
  <1>3. CASE Greeted(n)
    <2>1. /\ Received(n) # <<>> /\ m.kind = "begin" /\ inbuf' = Tail(Received(n))
          /\ conn' = "connected"
      BY <1>3 DEF Greeted
    <2>2. Listening
      BY <1>1 DEF Listening
    <2>3. /\ m \in ToClient /\ Told = Told' \cup {m}
          /\ Fresh(Grants)'
      BY <1>1, <2>1, <2>2, ToldShrinks DEF SessionInv, ClientInv, GrantsAreNew
    <2>5. (\A v : ~IsReplyFor(m, v)) /\ \A i : m # Dropped(i)
      BY <2>1 DEF IsReplyFor, Dropped
    <2> HIDE DEF m
    <2>4. /\ GrantsAreNew'
          /\ Lasting => SessionIsOrdered' /\ BothSidesKnow' /\ RequestsAnswered'
      BY <1>1, <2>1, <2>2, <2>3, <2>5, ReplyReceived
    <2> QED
      BY <1>1, <2>1, <2>2, <2>4 DEF SessionInv, Listening, Lasting
  <1> QED
    BY <1>2, <1>3 DEF Handshake

LEMMA OnPartialMessageSession ==
  ASSUME SessionInv, ClientInv', OnPartialMessageReceived
  PROVE  SessionInv'
  <1>1. toClient \in Seq(ToClient)
    BY DEF SessionInv, ClientInv, TypeOK
  <1>2. toClient' = toClient
    BY <1>1, SubSeqFull DEF OnPartialMessageReceived, Receives
  <1>3. Told' = Told /\ (Fresh(Grants) => Fresh(Grants)')
    BY <1>2, ToldUnchanged DEF OnPartialMessageReceived
  <1> QED
    BY <1>3, SessionStays
    DEF OnPartialMessageReceived, dbVars, Listening, Lasting, SessionInv

LEMMA OnGarbageReceivedSession ==
  ASSUME SessionInv, ClientInv', NEW n \in Nat, NEW h \in BOOLEAN,
         OnGarbageReceived(n, h)
  PROVE  SessionInv'
  <1>1. UNCHANGED <<dbVars, inbuf, thread, link, toServer, session, given>> /\ thread = "running"
    BY DEF OnGarbageReceived, Running
  <1>2. CASE Disconnects(InPool)
    <2>1. ~Listening'
      BY <1>1, <1>2 DEF Disconnects, Listening, SessionInv
    <2> QED
      BY <2>1, GivenUp
  <1>3. CASE /\ Receives(n, h)
             /\ missed' = missed \cup {toClient[i] : i \in 1..n}
             /\ ReadsOn
             /\ UNCHANGED <<outcome, subReqs, unsubReqs>>
    <2>1. TypeOK
      BY DEF SessionInv, ClientInv
    <2>2. Told' = Told /\ (Fresh(Grants) => Fresh(Grants)')
      BY <1>1, <1>3, <2>1, ToldDropped
    <2> QED
      BY <1>1, <1>3, <2>2, SessionStays
      DEF ReadsOn, dbVars, Listening, Lasting, SessionInv
  <1> QED
    BY <1>2, <1>3 DEF OnGarbageReceived

-----------------------------------------------------------------------------
(* The theorems.                                                           *)

LEMMA InitSession == Init => SessionInv
  <1> SUFFICES ASSUME Init PROVE SessionInv
    OBVIOUS
  <1>1. ClientInv
    BY InitClientInv
  <1>2. Flow = <<[kind |-> "begin"]>>
    <2>1. <<[kind |-> "begin"]>> \in Seq(ToClient)
      BY <1>1 DEF Init, ClientInv, TypeOK
    <2> QED
      BY <2>1, ConcatEmptySeq DEF Init, Flow
  <1>3. Told = {[kind |-> "begin"]} /\ Going = {} /\ missed = {}
    <2>1. DOMAIN <<[kind |-> "begin"]>> = {1}
      OBVIOUS
    <2> QED
      BY <1>2, <2>1 DEF Told, Coming, Going, Flow, Init
  <1>4. \A e : Grant(e) \notin Told
    BY <1>3 DEF Grant
  <1>5. GrantsAreNew
    <2>1. Fresh(Grants)
      BY <1>2, <1>3 DEF Fresh, Once
    <2> QED
      BY <1>4, <2>1 DEF GrantsAreNew
  <1>6. SessionIsOrdered /\ BothSidesKnow /\ RequestsAnswered
    BY <1>3, <1>4
    DEF Init, InitDb, SessionIsOrdered, BothSidesKnow, RequestsAnswered, Once
  <1> QED
    BY <1>1, <1>5, <1>6 DEF SessionInv, Init

LEMMA NextSession ==
  ASSUME SessionInv, [Next]_vars
  PROVE  SessionInv'
  <1>1. ClientInv'
    BY NextClientInv DEF SessionInv
  <1>2. 0..MaxBurst \subseteq Nat
    BY ClientAssumption
  <1>3. CASE ServerReads
    BY <1>1, <1>2, <1>3, ServerHandlesInv DEF ServerReads
  <1>4. CASE \E e \in session : ServerTells(e)
    BY <1>1, <1>4, ServerTellsInv
  <1>5. CASE ServerBreaks
    BY <1>1, <1>5, ServerBreaksInv
  <1>6. CASE RunPost
    BY <1>1, <1>6, RunPostSession
  <1>7. CASE ReadMessage
    BY <1>1, <1>2, <1>7, OnMessageReceivedSession DEF ReadMessage
  <1>8. CASE OnPartialMessageReceived
    BY <1>1, <1>8, OnPartialMessageSession
  <1>9. CASE ReadGarbage
    BY <1>1, <1>2, <1>9, OnGarbageReceivedSession DEF ReadGarbage
  <1>10. CASE OnReadError
    <2>1. ~Listening'
      BY <1>10 DEF OnReadError, Running, Disconnects, Listening, SessionInv
    <2> QED
      BY <1>1, <2>1, GivenUp
  <1>11. CASE ReadGreeting
    BY <1>1, <1>2, <1>11, HandshakeSession DEF ReadGreeting
  <1>12. CASE HandshakeFails \/ Join \/ Closed
    BY <1>1, <1>12, GivenUp DEF HandshakeFails, Join, Closed, Listening
  <1>13. CASE \/ \E c \in Caller : Submit(c) \/ GetResult(c)
              \/ ThreadStarts \/ ThreadExits \/ Stop \/ ResidualRead
              \/ UNCHANGED vars
    <2>1. UNCHANGED <<inbuf, toClient, missed, toServer, session, given, byMaster,
                      subReqs, unsubReqs, conn, link>>
      BY <1>13 DEF Submit, GetResult, ThreadStarts, ThreadExits, Stop,
                   ResidualRead, vars, dbVars, clientVars, serverVars
    <2>2. conn' = "handshake" => thread' = "none"
      BY <1>13, <2>1 DEF Submit, GetResult, ThreadStarts, ThreadExits, Stop,
                         ResidualRead, vars, clientVars, SessionInv
    <2>3. Told' = Told /\ (Fresh(Grants) => Fresh(Grants)')
      BY <2>1, ToldUnchanged
    <2> QED
      BY <1>1, <2>1, <2>2, <2>3, SessionStays DEF Listening, Lasting
  <1> QED
    BY <1>3, <1>4, <1>5, <1>6, <1>7, <1>8, <1>9, <1>10, <1>11, <1>12, <1>13
    DEF Next

THEOREM SessionInvariant == Spec => []SessionInv
  BY InitSession, NextSession, PTL DEF Spec

\* The client and the session agree on the subscriptions, but for those a
\* message is telling the other side of, or has told a client that dropped it:
\* whatever calls time out, and however messages are split.
THEOREM SessionAgreesAlways == Spec => []SessionAgrees
  <1>1. SessionInv => SessionAgrees
    BY DEF SessionInv, Listening, Lasting, BothSidesKnow, SessionAgrees, Grant, Drop
  <1> QED
    BY <1>1, SessionInvariant, PTL

\* Each request of the pool has a message on its way that settles it, or one
\* that the client has dropped, as long as the session lasts.
THEOREM AnswerComingAlways == Spec => []AnswerComing
  <1>1. SessionInv => AnswerComing
    BY DEF SessionInv, Listening, Lasting, RequestsAnswered, Answers, DropAnswers,
           AskFor, Drop, AnswerComing
  <1> QED
    BY <1>1, SessionInvariant, PTL
-----------------------------------------------------------------------------
(* What the server is asked of a variable comes after its answer: as long as *)
(* no subscription is sent while another to the same variable has none, each *)
(* reply finds the requests it settles, and the server refuses nothing.      *)

Replies == {m \in ToClient : m.kind \notin {"begin", "var_update"}}
Asks == {AskFor(v) : v \in Var}

\* The server has one message to answer for a variable, or the client one to
\* read or dropped, and never without a request to settle.
OneAsked ==
  /\ Once(toServer, Asks)
  /\ \A v \in Var : Answers(v) => subReqs[v] # {}
  /\ \A v \in Var : AskFor(v) \in Going => \A m \in Told : ~IsReplyFor(m, v)
  /\ \A v \in Var, m, k \in Told : IsReplyFor(m, v) /\ IsReplyFor(k, v) => m = k

\* When the server reads it, the session has no subscription to the variable.
InTurn ==
  \A v \in Var, k \in DOMAIN toServer, e \in session :
    toServer[k] = AskFor(v) /\ e.var = v =>
      \E j \in DOMAIN toServer : j < k /\ toServer[j] = Drop(e.master)

OneDropped ==
  /\ \A i \in Master : DropAnswers(i) => unsubReqs[i] # {}
  /\ \A i \in Master : unsubReqs[i] # {} => i <= given
  /\ \A e \in session : Dropped(e.master) \notin Told

NoneRefused ==
  \A m \in Told : m.kind \notin {"VAR_ALREADY_SUBSCRIBED", "NO_SUCH_SUBSCRIPTION"}

OneReply == Fresh(Replies) /\ OneAsked /\ InTurn /\ OneDropped

RepliesInv ==
  /\ Listening /\ ~crossed => NoneRefused
  /\ Lasting /\ ~crossed => OneReply

\* The promises that are not settled, and held by no post and no pool.
Forgotten == {n \in DOMAIN calls : outcome[n] = "pending" /\ n \notin InPool \cup Posted}
ForgottenInv ==
  Forgotten # {} =>
    /\ crossed
    /\ ~reading /\ conn \notin {"handshake", "connected"}
    /\ \E v \in Var : \A n \in Forgotten : IsFor(n, v)

OwnInv ==
  /\ SessionInv
  /\ Filed
  /\ RepliesInv
  /\ thread \in {"starting", "running"} /\ reading => conn = "connected"
  /\ ForgottenInv
  /\ ConnectionOutlivesRequests

LEMMA ReplyProperties ==
  /\ \A v : \A m \in ToClient : IsReplyFor(m, v) => m \in Replies /\ \A i : m # Dropped(i)
  /\ \A i \in Master : Dropped(i) \in ToClient /\ Dropped(i) \in Replies
  /\ \A m \in ToClient : m.kind = "UNSUBSCRIBED" => m.id \in Master /\ m = Dropped(m.id)
  /\ \A i, k : Dropped(i) = Dropped(k) => i = k
  /\ \A i, v : ~IsReplyFor(Dropped(i), v)
  /\ Replies \subseteq ToClient
  <1>1. \A v : \A m \in ToClient : IsReplyFor(m, v) => m \in Replies /\ \A i : m # Dropped(i)
    BY DEF IsReplyFor, Replies, Dropped
  <1>2. \A i \in Master : Dropped(i) \in ToClient /\ Dropped(i) \in Replies
    BY DEF Dropped, Replies, ToClient
  <1>3. ASSUME NEW m \in ToClient, m.kind = "UNSUBSCRIBED"
        PROVE  m.id \in Master /\ m = Dropped(m.id)
    <2>1. m \in [kind: {"UNSUBSCRIBED", "NO_SUCH_SUBSCRIPTION"}, id: Master]
      BY <1>3 DEF ToClient
    <2> QED
      BY <1>3, <2>1 DEF Dropped
  <1>4. ASSUME NEW i, NEW k, Dropped(i) = Dropped(k)
        PROVE  i = k
    <2>1. Dropped(i).id = i /\ Dropped(k).id = k
      BY DEF Dropped
    <2> QED
      BY <1>4, <2>1
  <1>5. \A i, v : ~IsReplyFor(Dropped(i), v)
    BY DEF IsReplyFor, Dropped
  <1> QED
    BY <1>1, <1>2, <1>3, <1>4, <1>5 DEF Replies

LEMMA AskProperties ==
  /\ \A v \in Var : AskFor(v) \in ToServer /\ AskFor(v) \in Asks
  /\ \A v, w : AskFor(v) = AskFor(w) => v = w
  /\ \A x \in ToServer : x.kind = "subscribe" =>
       x \in Asks /\ x.var \in Var /\ x = AskFor(x.var)
  /\ \A x \in Asks : x.kind = "subscribe"
  /\ \A v, i : AskFor(v) # Drop(i)
  <1>1. \A v \in Var : AskFor(v) \in ToServer /\ AskFor(v) \in Asks
    BY DEF AskFor, Asks, ToServer
  <1>2. ASSUME NEW v, NEW w, AskFor(v) = AskFor(w)
        PROVE  v = w
    <2>1. AskFor(v).var = v /\ AskFor(w).var = w
      BY DEF AskFor
    <2> QED
      BY <1>2, <2>1
  <1>3. ASSUME NEW x \in ToServer, x.kind = "subscribe"
        PROVE  x \in Asks /\ x.var \in Var /\ x = AskFor(x.var)
    <2>1. x \in [kind: {"subscribe"}, var: Var]
      BY <1>3 DEF ToServer
    <2>2. x.var \in Var /\ x = AskFor(x.var)
      BY <1>3, <2>1 DEF AskFor
    <2> QED
      BY <1>1, <2>2
  <1>4. (\A x \in Asks : x.kind = "subscribe") /\ \A v, i : AskFor(v) # Drop(i)
    BY DEF Asks, AskFor, Drop
  <1> QED
    BY <1>1, <1>2, <1>3, <1>4

\* A message is taken.
LEMMA AsksStay ==
  ASSUME TypeOK, Once(toServer, Asks), toServer # << >>, toServer' = Tail(toServer)
  PROVE  /\ Once(toServer, Asks)'
         /\ Going' \subseteq Going
         /\ Head(toServer) \in Asks => Head(toServer) \notin Going'
  <1>1. toServer \in Seq(ToServer) /\ Going = Range(toServer) /\ Going' = Range(toServer')
    BY DEF TypeOK, Going, Range
  <1>2. /\ Once(Tail(toServer), Asks)
        /\ Head(toServer) \in Asks => Head(toServer) \notin Range(Tail(toServer))
    BY <1>1, OnceRemoved
  <1>3. Range(Tail(toServer)) \subseteq Range(toServer)
    BY <1>1, RangeOfTail
  <1> QED
    BY <1>1, <1>2, <1>3 DEF Once

\* What is left was in its turn, unless the message taken is the one it needs.
LEMMA InTurnTaken ==
  ASSUME TypeOK, InTurn, toServer # << >>, toServer' = Tail(toServer),
         \A v \in Var, e \in session' :
           AskFor(v) \in Going' /\ e.var = v =>
             e \in session /\ Drop(e.master) # Head(toServer)
  PROVE  InTurn'
  <1>1. /\ Len(toServer) \in Nat /\ DOMAIN toServer = 1..Len(toServer)
        /\ Head(toServer) = toServer[1]
        /\ DOMAIN toServer' = 1..(Len(toServer) - 1)
        /\ \A i \in DOMAIN toServer' : toServer'[i] = toServer[i + 1]
    <2>1. toServer \in Seq(ToServer)
      BY DEF TypeOK
    <2>2. toServer' \in Seq(ToServer) /\ Len(toServer') = Len(toServer) - 1
      BY <2>1, HeadTailProperties
    <2>3. DOMAIN toServer' = 1..Len(toServer') /\ Len(toServer) \in Nat
      BY <2>1, <2>2, LenProperties
    <2>4. \A i \in 1..Len(toServer') : toServer'[i] = toServer[i + 1]
      BY <2>1, <2>2, HeadTailProperties
    <2> QED
      BY <2>1, <2>2, <2>3, <2>4, LenProperties
  <1> SUFFICES ASSUME NEW v \in Var, NEW k \in DOMAIN toServer', NEW e \in session',
                      toServer'[k] = AskFor(v), e.var = v
               PROVE  \E j \in DOMAIN toServer' : j < k /\ toServer'[j] = Drop(e.master)
    BY DEF InTurn
  <1>2. AskFor(v) \in Going'
    BY DEF Going
  <1>3. e \in session /\ Drop(e.master) # Head(toServer)
    BY <1>2
  <1>4. k + 1 \in DOMAIN toServer /\ toServer[k + 1] = AskFor(v)
    BY <1>1
  <1>5. PICK j \in DOMAIN toServer : j < k + 1 /\ toServer[j] = Drop(e.master)
    BY <1>3, <1>4 DEF InTurn
  <1>6. j # 1
    BY <1>1, <1>3, <1>5
  <1>7. j - 1 \in DOMAIN toServer' /\ j - 1 < k /\ toServer'[j - 1] = toServer[j]
    BY <1>1, <1>5, <1>6
  <1> QED
    BY <1>5, <1>7

\* A message is sent after all that it needs.
LEMMA InTurnSent ==
  ASSUME TypeOK, InTurn, NEW x \in ToServer, toServer' = Append(toServer, x),
         session' = session,
         \A v \in Var, e \in session :
           x = AskFor(v) /\ e.var = v => Drop(e.master) \in Going
  PROVE  InTurn'
  <1>1. /\ Len(toServer) \in Nat /\ DOMAIN toServer = 1..Len(toServer)
        /\ DOMAIN toServer' = 1..(Len(toServer) + 1)
        /\ \A i \in DOMAIN toServer : toServer'[i] = toServer[i]
        /\ toServer'[Len(toServer) + 1] = x
    <2>1. toServer \in Seq(ToServer)
      BY DEF TypeOK
    <2>2. /\ toServer' \in Seq(ToServer) /\ Len(toServer') = Len(toServer) + 1
          /\ \A i \in 1..Len(toServer) : toServer'[i] = toServer[i]
          /\ toServer'[Len(toServer) + 1] = x
      BY <2>1, AppendProperties
    <2> QED
      BY <2>1, <2>2, LenProperties
  <1> SUFFICES ASSUME NEW v \in Var, NEW k \in DOMAIN toServer', NEW e \in session,
                      toServer'[k] = AskFor(v), e.var = v
               PROVE  \E j \in DOMAIN toServer' : j < k /\ toServer'[j] = Drop(e.master)
    BY DEF InTurn
  <1>2. CASE k \in DOMAIN toServer
    <2>1. PICK j \in DOMAIN toServer : j < k /\ toServer[j] = Drop(e.master)
      BY <1>1, <1>2 DEF InTurn
    <2> QED
      BY <1>1, <2>1
  <1>3. CASE k = Len(toServer) + 1
    <2>1. PICK j \in DOMAIN toServer : toServer[j] = Drop(e.master)
      BY <1>1, <1>3 DEF Going
    <2> QED
      BY <1>1, <1>3, <2>1
  <1> QED
    BY <1>1, <1>2, <1>3

-----------------------------------------------------------------------------
(* The steps of the server.                                                *)

LEMMA ServerSubscribesOne ==
  ASSUME OwnInv, Lasting, ~crossed, toServer # << >>, toServer' = Tail(toServer),
         Head(toServer).kind = "subscribe", ServerSubscribes(Head(toServer).var),
         UNCHANGED <<dbVars, clientVars>>
  PROVE  NoneRefused' /\ OneReply'
  <1>0. PICK v : v = Head(toServer).var
    OBVIOUS
  <1>1. /\ TypeOK /\ NoneRefused /\ Fresh(Replies) /\ OneAsked /\ InTurn /\ OneDropped
        /\ UNCHANGED <<inbuf, missed, subReqs, unsubReqs>>
    BY DEF OwnInv, SessionInv, ClientInv, RepliesInv, OneReply, Lasting, clientVars
  <1>2. /\ v \in Var /\ Head(toServer) = AskFor(v) /\ AskFor(v) \in Asks
        /\ AskFor(v) \in Going
        /\ Once(toServer, Asks)' /\ Going' \subseteq Going
        /\ AskFor(v) \notin Going'
    <2>1. Head(toServer) \in ToServer /\ Head(toServer) \in Going
      BY <1>1, GoingShrinks
    <2> QED
      BY <1>0, <1>1, <2>1, AsksStay, AskProperties DEF OneAsked
  <1>3. /\ Answers(v)
        /\ \A m \in Told : ~IsReplyFor(m, v)
    BY <1>1, <1>2 DEF Answers, OneAsked
  <1>4. \A e \in session : e.var # v
    <2>1. /\ 1 \in DOMAIN toServer /\ toServer[1] = AskFor(v)
          /\ \A j \in DOMAIN toServer : ~(j < 1)
      <3>1. toServer \in Seq(ToServer)
        BY <1>1 DEF TypeOK
      <3>2. /\ Len(toServer) \in Nat /\ DOMAIN toServer = 1..Len(toServer)
            /\ Len(toServer) # 0 /\ Head(toServer) = toServer[1]
        BY <3>1, LenProperties, EmptySeq
      <3> QED
        BY <1>2, <3>2
    <2> QED
      BY <1>1, <1>2, <2>1 DEF InTurn
  <1>5. PICK m : /\ m \in ToClient /\ Writes(m) /\ IsReplyFor(m, v)
                 /\ m.kind \in {"NO_SUCH_VAR", "SUBSCRIBED"}
    <2>1. CASE Writes([kind |-> "NO_SUCH_VAR", var |-> v])
      <3>1. [kind |-> "NO_SUCH_VAR", var |-> v] \in ToClient
        BY <1>2 DEF ToClient
      <3> QED
        BY <2>1, <3>1 DEF IsReplyFor
    <2>2. CASE Writes([kind |-> "SUBSCRIBED", var |-> v, id |-> given + 1]) /\ given < MaxCalls
      <3>1. given + 1 \in Master
        BY <1>1, <2>2, ClientAssumption DEF TypeOK, Req
      <3>2. [kind |-> "SUBSCRIBED", var |-> v, id |-> given + 1] \in ToClient
        BY <1>2, <3>1 DEF ToClient
      <3> QED
        BY <2>2, <3>2 DEF IsReplyFor
    <2> QED
      BY <1>0, <1>4, <2>1, <2>2 DEF ServerSubscribes
  <1>6. /\ given \in Nat
        /\ session \subseteq Entry
        /\ \/ UNCHANGED <<session, given>>
           \/ /\ given' = given + 1
              /\ given + 1 \in Master
              /\ session' = session \cup {[var |-> v, master |-> given + 1]}
    BY <1>0, <1>1, ClientAssumption DEF ServerSubscribes, TypeOK, Req
  <1>7. Fresh(Replies)' /\ Told' = Told \cup {m}
    BY <1>1, <1>3, <1>5, ToldGrows
  <1>8. NoneRefused'
    BY <1>1, <1>5, <1>7 DEF NoneRefused
  <1>9. OneAsked'
    <2>1. ASSUME NEW w \in Var, Answers(w)'
          PROVE  subReqs'[w] # {}
      <3>1. Answers(w) \/ w = v
        BY <1>2, <1>5, <1>7, <2>1 DEF Answers, IsReplyFor
      <3> QED
        BY <1>1, <1>3, <3>1 DEF OneAsked
    <2>2. ASSUME NEW w \in Var, AskFor(w) \in Going'
          PROVE  \A k \in Told' : ~IsReplyFor(k, w)
      <3>1. w # v /\ AskFor(w) \in Going
        BY <1>2, <2>2
      <3>2. ~IsReplyFor(m, w)
        BY <1>5, <3>1 DEF IsReplyFor
      <3> QED
        BY <1>1, <1>7, <3>1, <3>2 DEF OneAsked
    <2>3. ASSUME NEW w \in Var, NEW x \in Told', NEW y \in Told',
                 IsReplyFor(x, w), IsReplyFor(y, w)
          PROVE  x = y
      <3>1. CASE w = v
        BY <1>3, <1>7, <2>3, <3>1
      <3>2. CASE w # v
        <4>1. x # m /\ y # m
          BY <1>5, <2>3, <3>2 DEF IsReplyFor
        <4> QED
          BY <1>1, <1>7, <2>3, <4>1 DEF OneAsked
      <3> QED
        BY <3>1, <3>2
    <2> QED
      BY <1>2, <2>1, <2>2, <2>3 DEF OneAsked
  <1>10. InTurn'
    <2> SUFFICES ASSUME NEW w \in Var, NEW e \in session', AskFor(w) \in Going', e.var = w
                 PROVE  e \in session /\ Drop(e.master) # Head(toServer)
      BY <1>1, InTurnTaken
    <2>1. w # v
      BY <1>2
    <2>2. e \in session
      BY <1>6, <2>1
    <2> QED
      BY <1>2, <2>2, AskProperties
  <1>11. OneDropped'
    <2>1. \A i : m # Dropped(i)
      BY <1>5, ReplyProperties
    <2>2. ASSUME NEW i \in Master, DropAnswers(i)'
          PROVE  unsubReqs'[i] # {}
      <3>1. DropAnswers(i)
        BY <1>2, <1>7, <2>1, <2>2 DEF DropAnswers
      <3> QED
        BY <1>1, <3>1 DEF OneDropped
    <2>3. ASSUME NEW i \in Master, unsubReqs'[i] # {}
          PROVE  i <= given'
      <3>1. i <= given /\ i \in Nat
        BY <1>1, <2>3, ClientAssumption DEF OneDropped, Req
      <3> QED
        BY <1>6, <3>1
    <2>4. given + 1 \in Master => Dropped(given + 1) \notin Told
      BY <1>1, <1>6 DEF OneDropped, DropAnswers
    <2>5. \A e \in session' : Dropped(e.master) \notin Told'
      BY <1>1, <1>6, <1>7, <2>1, <2>4 DEF OneDropped
    <2> QED
      BY <2>2, <2>3, <2>5 DEF OneDropped
  <1> QED
    BY <1>7, <1>8, <1>9, <1>10, <1>11 DEF OneReply

LEMMA ServerUnsubscribesOne ==
  ASSUME OwnInv, Lasting, ~crossed, toServer # << >>, toServer' = Tail(toServer),
         Head(toServer).kind = "unsubscribe", ServerUnsubscribes(Head(toServer).id),
         UNCHANGED <<dbVars, clientVars>>
  PROVE  NoneRefused' /\ OneReply'
  <1>0. PICK i : i = Head(toServer).id
    OBVIOUS
  <1>1. /\ TypeOK /\ NoneRefused /\ Fresh(Replies) /\ OneAsked /\ InTurn /\ OneDropped
        /\ BothSidesKnow
        /\ UNCHANGED <<inbuf, missed, subReqs, unsubReqs>>
    BY DEF OwnInv, SessionInv, ClientInv, RepliesInv, OneReply, Lasting, clientVars
  <1>2. /\ i \in Master /\ Head(toServer) = Drop(i) /\ Drop(i) \in Going
        /\ Once(toServer, Asks)' /\ Going' \subseteq Going
    <2>1. Head(toServer) \in ToServer /\ Head(toServer) \in Going
      BY <1>1, GoingShrinks
    <2> QED
      BY <1>0, <1>1, <2>1, AsksStay, DropProperties DEF OneAsked
  <1>3. PICK f \in session : f.master = i
    BY <1>1, <1>2 DEF BothSidesKnow
  <1>4. /\ Writes(Dropped(i)) /\ given' = given
        /\ session' = {e \in session : e.master # i}
    BY <1>0, <1>3 DEF ServerUnsubscribes, Dropped
  <1>5. Dropped(i) \in ToClient /\ Dropped(i) \notin Told
    BY <1>1, <1>2, <1>3, ReplyProperties DEF OneDropped
  <1>6. Fresh(Replies)' /\ Told' = Told \cup {Dropped(i)}
    BY <1>1, <1>4, <1>5, ToldGrows
  <1>7. NoneRefused'
    BY <1>1, <1>6 DEF NoneRefused, Dropped
  <1>8. OneAsked'
    <2>1. \A v : ~IsReplyFor(Dropped(i), v)
      BY ReplyProperties
    <2>2. ASSUME NEW v \in Var, Answers(v)'
          PROVE  subReqs'[v] # {}
      <3>1. Answers(v)
        BY <1>2, <1>6, <2>1, <2>2 DEF Answers
      <3> QED
        BY <1>1, <3>1 DEF OneAsked
    <2> QED
      BY <1>1, <1>2, <1>6, <2>1, <2>2 DEF OneAsked
  <1>9. InTurn'
    <2> SUFFICES ASSUME NEW v \in Var, NEW e \in session', AskFor(v) \in Going', e.var = v
                 PROVE  e \in session /\ Drop(e.master) # Head(toServer)
      BY <1>1, InTurnTaken
    <2>1. e \in session /\ e.master # i /\ e.master \in Master
      BY <1>1, <1>4 DEF TypeOK, Entry
    <2> QED
      BY <1>2, <2>1, DropProperties
  <1>10. OneDropped'
    <2>1. ASSUME NEW k \in Master, DropAnswers(k)'
          PROVE  unsubReqs'[k] # {}
      <3>1. DropAnswers(k)
        BY <1>2, <1>6, <2>1, ReplyProperties DEF DropAnswers
      <3> QED
        BY <1>1, <3>1 DEF OneDropped
    <2>2. \A e \in session' : Dropped(e.master) \notin Told'
      BY <1>1, <1>4, <1>6, ReplyProperties DEF OneDropped
    <2> QED
      BY <1>1, <1>4, <2>1, <2>2 DEF OneDropped
  <1> QED
    BY <1>6, <1>7, <1>8, <1>9, <1>10 DEF OneReply

\* No reply is written, and no request of the pool changes.
LEMMA RepliesStay ==
  ASSUME OneAsked, OneDropped, Once(toServer, Asks)', Going' \subseteq Going,
         \A m \in Told' : m \in Told \/ m.kind \in {"begin", "var_update"},
         UNCHANGED <<subReqs, unsubReqs, session, given>>
  PROVE  OneAsked' /\ OneDropped'
  <1>1. \A m, v : IsReplyFor(m, v) /\ m \in Told' => m \in Told
    BY DEF IsReplyFor
  <1>2. \A i : Dropped(i) \in Told' => Dropped(i) \in Told
    BY DEF Dropped
  <1>3. \A v \in Var : Answers(v)' => Answers(v)
    BY <1>1 DEF Answers
  <1>4. \A i \in Master : DropAnswers(i)' => DropAnswers(i)
    BY <1>2 DEF DropAnswers
  <1>5. OneAsked'
    BY <1>1, <1>3 DEF OneAsked
  <1>6. OneDropped'
    BY <1>2, <1>4 DEF OneDropped
  <1> QED
    BY <1>5, <1>6

\* A message that is no reply is taken, or none.
LEMMA NoReplyTaken ==
  ASSUME OneAsked, InTurn, OneDropped, Told' \subseteq Told,
         UNCHANGED <<subReqs, unsubReqs, toServer, session, given>>
  PROVE  OneAsked' /\ InTurn' /\ OneDropped'
  <1>1. Once(toServer, Asks)' /\ Going' \subseteq Going /\ InTurn'
    BY DEF OneAsked, Once, Going, InTurn
  <1> QED
    BY <1>1, RepliesStay

LEMMA ServerHandlesReplies ==
  ASSUME OwnInv, NEW n \in Nat, ServerHandles(n)
  PROVE  RepliesInv'
  <1>1. /\ link = "open" /\ toServer # << >> /\ toServer' = Tail(toServer)
        /\ UNCHANGED <<dbVars, clientVars>>
    <2>1. toServer # << >>
      BY LenProperties, EmptySeq DEF ServerHandles, OwnInv, SessionInv, ClientInv, TypeOK
    <2> QED
      BY <2>1 DEF ServerHandles
  <1>2. UNCHANGED <<conn, crossed, inbuf, missed, subReqs, unsubReqs>>
    BY <1>1 DEF clientVars
  <1>3. CASE ~Listening \/ crossed
    BY <1>2, <1>3 DEF RepliesInv, Listening, Lasting
  <1>4. CASE Listening /\ ~crossed
    <2>1. /\ Lasting /\ TypeOK /\ NoneRefused
          /\ Fresh(Replies) /\ OneAsked /\ InTurn /\ OneDropped
      BY <1>1, <1>4 DEF Lasting, OwnInv, SessionInv, ClientInv, RepliesInv, OneReply
    <2>2. CASE NoneRefused' /\ OneReply'
      BY <2>2 DEF RepliesInv
    <2>3. CASE Head(toServer).kind = "subscribe" /\ ServerSubscribes(Head(toServer).var)
      BY <1>1, <1>4, <2>1, <2>2, <2>3, ServerSubscribesOne
    <2>4. CASE Head(toServer).kind = "unsubscribe" /\ ServerUnsubscribes(Head(toServer).id)
      BY <1>1, <1>4, <2>1, <2>2, <2>4, ServerUnsubscribesOne
    <2>5. CASE Head(toServer).kind = "update" /\ UNCHANGED <<toClient, session, given>>
      <3>1. Told' = Told /\ Fresh(Replies)'
        BY <1>2, <2>1, <2>5, ToldUnchanged
      <3>2. Once(toServer, Asks)' /\ Going' \subseteq Going
        BY <1>1, <2>1, AsksStay DEF OneAsked
      <3>3. OneAsked' /\ OneDropped'
        BY <1>2, <2>1, <2>5, <3>1, <3>2, RepliesStay
      <3>4. InTurn'
        <4>1. \A i : Drop(i) # Head(toServer)
          BY <2>5 DEF Drop
        <4> QED
          BY <1>1, <2>1, <2>5, <4>1, InTurnTaken
      <3> QED
        BY <2>1, <2>2, <3>1, <3>3, <3>4 DEF NoneRefused, OneReply
    <2>6. CASE link' = "closed" /\ UNCHANGED toClient
      <3>1. Told' = Told
        BY <1>2, <2>6, ToldUnchanged
      <3> QED
        BY <2>1, <2>6, <3>1 DEF RepliesInv, NoneRefused, Lasting
    <2> QED
      BY <2>3, <2>4, <2>5, <2>6 DEF ServerHandles
  <1> QED
    BY <1>3, <1>4

LEMMA ServerTellsReplies ==
  ASSUME OwnInv, NEW e \in session, ServerTells(e)
  PROVE  RepliesInv'
  <1>0. PICK m : m = [kind |-> "var_update", id |-> e.master]
    OBVIOUS
  <1>1. TypeOK
    BY DEF OwnInv, SessionInv, ClientInv
  <1>2. m \in ToClient /\ m \notin Replies /\ m.kind = "var_update"
    BY <1>0, <1>1 DEF ToClient, TypeOK, Entry, Replies
  <1>3. /\ Writes(m)
        /\ UNCHANGED <<inbuf, missed, crossed, toServer, session, given, subReqs,
                       unsubReqs, conn, link>>
    BY <1>0 DEF ServerTells, clientVars
  <1>4. Told' = Told \cup {m} /\ (Fresh(Replies) => Fresh(Replies)')
    BY <1>1, <1>2, <1>3, ToldGrows
  <1>5. NoneRefused => NoneRefused'
    BY <1>2, <1>4 DEF NoneRefused
  <1>6. OneAsked /\ OneDropped => OneAsked' /\ OneDropped'
    <2>1. Once(toServer, Asks) => Once(toServer, Asks)'
      BY <1>3 DEF Once
    <2>2. Going' = Going
      BY <1>3 DEF Going
    <2> QED
      BY <1>2, <1>3, <1>4, <2>1, <2>2, RepliesStay DEF OneAsked
  <1>7. InTurn => InTurn'
    BY <1>3 DEF InTurn
  <1> QED
    BY <1>3, <1>4, <1>5, <1>6, <1>7
    DEF OwnInv, RepliesInv, OneReply, Listening, Lasting

LEMMA ServerBreaksReplies ==
  ASSUME OwnInv, ServerBreaks
  PROVE  RepliesInv'
  <1>1. /\ link' # "open"
        /\ UNCHANGED <<inbuf, missed, conn, crossed>>
        /\ toClient' \in {toClient, << >>}
    BY DEF ServerBreaks, clientVars
  <1>2. Told' \subseteq Told
    BY <1>1, ToldLost DEF OwnInv, SessionInv, ClientInv
  <1> QED
    BY <1>1, <1>2 DEF OwnInv, RepliesInv, NoneRefused, Listening, Lasting

-----------------------------------------------------------------------------
(* The steps of the client's thread.                                       *)

\* The first request for a variable is sent.
LEMMA AskedOne ==
  ASSUME OwnInv, Lasting, ~crossed, NEW n, NEW v \in Var,
         subReqs[v] = {}, ~VariableDefined(v),
         subReqs' = [subReqs EXCEPT ![v] = @ \cup {n}],
         Sends(AskFor(v)),
         UNCHANGED <<inbuf, toClient, missed, session, given, unsubReqs>>
  PROVE  OneReply'
  <1>1. /\ TypeOK /\ DbConsistent /\ BothSidesKnow
        /\ Fresh(Replies) /\ OneAsked /\ InTurn /\ OneDropped
    BY DEF OwnInv, SessionInv, ClientInv, RepliesInv, OneReply, Lasting
  <1>2. ~Answers(v)
    BY <1>1 DEF OneAsked
  <1>3. ASSUME NEW e \in session, e.var = v
        PROVE  Drop(e.master) \in Going
    <2>1. e \in Entry
      BY <1>1 DEF TypeOK
    <2>2. e \notin byMaster
      BY <1>1, <1>3 DEF VariableDefined, DbConsistent
    <2>3. Grant(e) \notin Told
      BY <1>2, <1>3 DEF Grant, Answers, IsReplyFor
    <2> QED
      BY <1>1, <2>1, <2>2, <2>3 DEF BothSidesKnow
  <1>4. /\ AskFor(v) \in ToServer /\ AskFor(v) \notin Going
        /\ \A m \in Told : ~IsReplyFor(m, v)
    BY <1>2, AskProperties DEF Answers
  <1>5. toServer' = Append(toServer, AskFor(v)) /\ Going' = Going \cup {AskFor(v)}
    BY <1>1, <1>4, GoingGrows DEF Lasting
  <1>6. Told' = Told /\ Fresh(Replies)'
    BY <1>1, ToldUnchanged
  <1>7. OneAsked'
    <2>1. Once(toServer, Asks)'
      <3>1. toServer \in Seq(ToServer) /\ Going = Range(toServer)
        BY <1>1, FlowType DEF TypeOK
      <3>2. Once(Append(toServer, AskFor(v)), Asks)
        BY <1>1, <1>4, <3>1, OnceAppended DEF OneAsked
      <3> QED
        BY <1>5, <3>2 DEF Once
    <2>2. ASSUME NEW w \in Var, Answers(w)'
          PROVE  subReqs'[w] # {}
      <3>1. CASE w = v
        BY <1>1, <3>1 DEF TypeOK
      <3>2. CASE w # v
        <4>1. Answers(w)
          BY <1>5, <1>6, <2>2, <3>2, AskProperties DEF Answers
        <4> QED
          BY <1>1, <3>2, <4>1 DEF OneAsked, TypeOK
      <3> QED
        BY <3>1, <3>2
    <2>3. ASSUME NEW w \in Var, AskFor(w) \in Going'
          PROVE  \A m \in Told' : ~IsReplyFor(m, w)
      <3>1. CASE w = v
        BY <1>4, <1>6, <3>1
      <3>2. CASE w # v
        BY <1>1, <1>5, <1>6, <2>3, <3>2, AskProperties DEF OneAsked
      <3> QED
        BY <3>1, <3>2
    <2> QED
      BY <1>1, <1>6, <2>1, <2>2, <2>3 DEF OneAsked
  <1>8. InTurn'
    <2>1. \A w \in Var, e \in session :
            AskFor(v) = AskFor(w) /\ e.var = w => Drop(e.master) \in Going
      BY <1>3, AskProperties
    <2> QED
      BY <1>1, <1>4, <1>5, <2>1, InTurnSent
  <1>9. OneDropped'
    <2>1. \A i \in Master : DropAnswers(i)' => DropAnswers(i)
      BY <1>5, <1>6, AskProperties DEF DropAnswers
    <2> QED
      BY <1>1, <1>6, <2>1 DEF OneDropped
  <1> QED
    BY <1>6, <1>7, <1>8, <1>9 DEF OneReply

LEMMA DroppedOne ==
  ASSUME OwnInv, Lasting, ~crossed, NEW n, NEW i, RemoveVirtual(i),
         unsubReqs' = [unsubReqs EXCEPT ![MasterOf(i)] = @ \cup {n}],
         Sends(Drop(MasterOf(i))),
         UNCHANGED <<inbuf, toClient, missed, session, given, subReqs>>
  PROVE  OneReply'
  <1>0. PICK k : k = MasterOf(i)
    OBVIOUS
  <1>1. /\ TypeOK /\ DbConsistent /\ SessionIsOrdered /\ BothSidesKnow
        /\ Fresh(Replies) /\ OneAsked /\ InTurn /\ OneDropped
    BY DEF OwnInv, SessionInv, ClientInv, RepliesInv, OneReply, Lasting
  <1>2. PICK f \in byMaster : f.master = k
    <2>1. \E l \in byVirtual : l.id = i
      BY DEF RemoveVirtual, VirtualDefined
    <2>2. PICK l \in byVirtual : l.id = i /\ k = l.entry.master
      BY <1>0, <2>1 DEF MasterOf
    <2>3. l.entry \in byMaster
      BY <1>1 DEF DbConsistent
    <2> QED
      BY <2>2, <2>3
  <1>3. k \in Master /\ k <= given
    <2>1. f \in session
      BY <1>1 DEF BothSidesKnow
    <2> QED
      BY <1>1, <1>2, <2>1 DEF SessionIsOrdered, TypeOK, Entry
  <1>4. Drop(k) \in ToServer /\ Drop(k).kind = "unsubscribe"
    BY <1>3, DropProperties DEF Drop
  <1>5. toServer' = Append(toServer, Drop(k)) /\ Going' = Going \cup {Drop(k)}
    BY <1>0, <1>1, <1>4, GoingGrows DEF Lasting
  <1>6. Told' = Told /\ Fresh(Replies)'
    BY <1>1, ToldUnchanged
  <1>7. \A x \in Master : unsubReqs'[x] = IF x = k THEN unsubReqs[k] \cup {n} ELSE unsubReqs[x]
    BY <1>0, <1>1 DEF TypeOK
  <1>8. OneAsked'
    <2>1. Once(toServer, Asks)'
      <3>1. Once(Append(toServer, Drop(k)), Asks)
        BY <1>1, <1>4, AskProperties, OnceAppended DEF OneAsked, TypeOK
      <3> QED
        BY <1>5, <3>1 DEF Once
    <2>2. \A v \in Var : AskFor(v) \in Going' <=> AskFor(v) \in Going
      BY <1>5, AskProperties
    <2>3. \A v \in Var : Answers(v)' <=> Answers(v)
      BY <1>6, <2>2 DEF Answers
    <2> QED
      BY <1>1, <1>6, <2>1, <2>2, <2>3 DEF OneAsked
  <1>9. InTurn'
    <2>1. \A v : Drop(k) # AskFor(v)
      BY AskProperties
    <2> QED
      BY <1>1, <1>4, <1>5, <2>1, InTurnSent
  <1>10. OneDropped'
    <2>1. ASSUME NEW x \in Master, DropAnswers(x)'
          PROVE  unsubReqs'[x] # {}
      <3>1. CASE x = k
        BY <1>7, <3>1
      <3>2. CASE x # k
        <4>1. DropAnswers(x)
          BY <1>3, <1>5, <1>6, <2>1, <3>2, DropProperties DEF DropAnswers
        <4> QED
          BY <1>1, <1>7, <3>2, <4>1 DEF OneDropped
      <3> QED
        BY <3>1, <3>2
    <2>2. \A x \in Master : unsubReqs'[x] # {} => x <= given'
      BY <1>1, <1>3, <1>7 DEF OneDropped
    <2> QED
      BY <1>1, <1>6, <2>1, <2>2 DEF OneDropped
  <1> QED
    BY <1>6, <1>8, <1>9, <1>10 DEF OneReply

LEMMA RunPostReplies ==
  ASSUME OwnInv, RunPost
  PROVE  RepliesInv' /\ (crossed => crossed')
  <1> DEFINE n == Head(posts)
  <1>1. /\ UNCHANGED <<conn, inbuf, missed, link, toClient, session, given>>
        /\ Told' = Told /\ (Fresh(Replies) => Fresh(Replies)')
    BY ToldUnchanged DEF RunPost
  <1>2. n \in Posted /\ TypeOK /\ n \in 1..Len(calls)
    <2>1. TypeOK /\ OnePlace
      BY DEF OwnInv, SessionInv, ClientInv
    <2>2. n \in Posted
      BY <2>1, PostsPopped DEF OnePlace, RunPost
    <2> QED
      BY <2>1, <2>2 DEF OnePlace
  <1>3. calls[n] \in Call
    BY <1>2, ElementOfSeq DEF TypeOK
  <1>4. crossed => crossed'
    BY DEF RunPost, OnSubscriptionRequested, OnUnsubscriptionRequested,
           OnVariableUpdateRequested
  <1>5. Listening' /\ ~crossed' => NoneRefused'
    BY <1>1, <1>4 DEF OwnInv, RepliesInv, Listening, NoneRefused
  <1>6. CASE ~Lasting \/ crossed'
    BY <1>1, <1>4, <1>5, <1>6 DEF RepliesInv, Lasting, Listening
  <1>7. CASE Lasting /\ ~crossed'
    <2>1. /\ Fresh(Replies) /\ OneAsked /\ InTurn /\ OneDropped /\ link = "open"
          /\ ~crossed
      BY <1>4, <1>7 DEF OwnInv, RepliesInv, OneReply, Lasting
    <2>2. CASE OneReply'
      BY <1>4, <1>5, <2>2 DEF RepliesInv
    <2>3. CASE UNCHANGED <<subReqs, unsubReqs, toServer>>
      <3>1. OneAsked' /\ InTurn' /\ OneDropped'
        BY <1>1, <2>1, <2>3, NoReplyTaken
      <3> QED
        BY <1>1, <2>1, <2>2, <3>1 DEF OneReply
    <2>4. CASE calls[n].op = "subscribe" /\ OnSubscriptionRequested(n, calls[n].var)
      <3> DEFINE v == calls[n].var
      <3>1. v \in Var
        BY <1>3, <2>4 DEF Call
      <3>2. CASE VariableDefined(v)
        BY <2>3, <2>4, <3>2 DEF OnSubscriptionRequested
      <3>3. CASE ~VariableDefined(v)
        <4>1. /\ subReqs[v] = {}
              /\ subReqs' = [subReqs EXCEPT ![v] = @ \cup {n}]
              /\ Sends(AskFor(v))
              /\ UNCHANGED unsubReqs
          BY <1>7, <2>4, <3>3 DEF OnSubscriptionRequested, AskFor
        <4> QED
          BY <1>1, <1>7, <2>1, <2>2, <3>1, <3>3, <4>1, AskedOne
      <3> QED
        BY <3>2, <3>3
    <2>5. CASE calls[n].op = "unsubscribe" /\ OnUnsubscriptionRequested(n, calls[n].id)
      <3> DEFINE i == calls[n].id
      <3>1. CASE ~(RemoveVirtual(i) /\ IsLast(i))
        BY <2>3, <2>5, <3>1 DEF OnUnsubscriptionRequested
      <3>2. CASE RemoveVirtual(i) /\ IsLast(i)
        <4>1. /\ unsubReqs' = [unsubReqs EXCEPT ![MasterOf(i)] = @ \cup {n}]
              /\ Sends(Drop(MasterOf(i)))
              /\ UNCHANGED subReqs
          BY <2>5, <3>2 DEF OnUnsubscriptionRequested, RemoveVirtual, Drop
        <4> QED
          BY <1>1, <1>7, <2>1, <2>2, <3>2, <4>1, DroppedOne
      <3> QED
        BY <3>1, <3>2
    <2>6. CASE calls[n].op = "update" /\ OnVariableUpdateRequested(n, calls[n].id)
      <3> DEFINE i == calls[n].id
                 m == [kind |-> "update", id |-> MasterOf(i)]
      <3>1. UNCHANGED <<subReqs, unsubReqs>>
        BY <2>6 DEF OnVariableUpdateRequested
      <3>2. CASE VirtualDefined(i) /\ Sends(m)
        <4>1. m \in ToServer
          BY <1>2, <3>2, MasterOfType DEF ToServer
        <4>2. toServer' = Append(toServer, m) /\ Going' = Going \cup {m}
          BY <1>2, <2>1, <3>2, <4>1, GoingGrows
        <4>3. m.kind = "update" /\ m \notin Asks
          BY AskProperties
        <4>4. Once(toServer, Asks)'
          <5>1. Once(Append(toServer, m), Asks)
            BY <1>2, <2>1, <4>1, <4>3, OnceAppended DEF OneAsked, TypeOK
          <5> QED
            BY <4>2, <5>1 DEF Once
        <4> HIDE DEF m
        <4>5. /\ \A v : AskFor(v) # m
              /\ \A v \in Var : AskFor(v) \in Going' <=> AskFor(v) \in Going
              /\ \A k \in Master : Drop(k) \in Going' <=> Drop(k) \in Going
          BY <4>2, <4>3 DEF AskFor, Drop
        <4>6. /\ \A v \in Var : Answers(v)' <=> Answers(v)
              /\ \A k \in Master : DropAnswers(k)' <=> DropAnswers(k)
          BY <1>1, <4>5 DEF Answers, DropAnswers
        <4>7. OneAsked'
          BY <1>1, <2>1, <3>1, <4>4, <4>5, <4>6 DEF OneAsked
        <4>8. InTurn'
          BY <1>1, <1>2, <2>1, <4>1, <4>2, <4>5, InTurnSent
        <4>9. OneDropped'
          BY <1>1, <2>1, <3>1, <4>6 DEF OneDropped
        <4> QED
          BY <1>1, <2>1, <2>2, <4>7, <4>8, <4>9 DEF OneReply
      <3>3. CASE UNCHANGED toServer
        BY <2>3, <3>1, <3>3
      <3> QED
        BY <2>6, <3>2, <3>3 DEF OnVariableUpdateRequested
    <2> QED
      BY <2>4, <2>5, <2>6 DEF RunPost
  <1> QED
    BY <1>4, <1>6, <1>7

\* The reply settles the requests there are, and no other is on its way.
LEMMA ReplyOne ==
  ASSUME TypeOK, OneAsked, InTurn, OneDropped,
         NEW m \in ToClient, NEW v \in Var, IsReplyFor(m, v),
         m \in Told, Told = Told' \cup {m}, m \notin Told',
         subReqs' = [subReqs EXCEPT ![v] = {}],
         UNCHANGED <<unsubReqs, toServer, session, given>>
  PROVE  OneAsked' /\ InTurn' /\ OneDropped'
  <1>1. Going' = Going /\ Told' \subseteq Told /\ AskFor(v) \notin Going
    BY DEF Going, OneAsked
  <1>2. \A w \in Var : Answers(w)' => Answers(w) /\ w # v
    BY <1>1 DEF Answers, OneAsked
  <1>3. OneAsked'
    <2>1. \A w \in Var : Answers(w)' => subReqs'[w] # {}
      BY <1>2 DEF OneAsked, TypeOK
    <2>2. Once(toServer, Asks)'
      BY DEF OneAsked, Once
    <2> QED
      BY <1>1, <2>1, <2>2 DEF OneAsked
  <1>4. OneDropped' /\ InTurn'
    BY <1>1 DEF OneDropped, DropAnswers, InTurn
  <1> QED
    BY <1>3, <1>4

LEMMA DroppedReplyOne ==
  ASSUME TypeOK, OneAsked, InTurn, OneDropped, BothSidesKnow, NEW i \in Master,
         Dropped(i) \in Told, Told = Told' \cup {Dropped(i)},
         Dropped(i) \notin Told',
         unsubReqs' = [unsubReqs EXCEPT ![i] = {}],
         UNCHANGED <<subReqs, toServer, session, given>>
  PROVE  OneAsked' /\ InTurn' /\ OneDropped'
  <1>1. Going' = Going /\ Told' \subseteq Told
    BY DEF Going
  <1>2. Drop(i) \notin Going
    BY DEF BothSidesKnow, OneDropped
  <1>3. \A k \in Master : DropAnswers(k)' => DropAnswers(k) /\ k # i
    BY <1>1, <1>2 DEF DropAnswers
  <1>4. \A k \in Master : unsubReqs'[k] = IF k = i THEN {} ELSE unsubReqs[k]
    BY DEF TypeOK
  <1>5. OneAsked'
    <2>1. Once(toServer, Asks)'
      BY DEF OneAsked, Once
    <2> QED
      BY <1>1, <2>1 DEF OneAsked, Answers
  <1>6. OneDropped' /\ InTurn'
    BY <1>1, <1>3, <1>4 DEF OneDropped, InTurn
  <1> QED
    BY <1>5, <1>6

-----------------------------------------------------------------------------
(* What becomes of the promises.                                           *)

LEMMA ForgottenNamed == ForgottenInv => ForgottenWhenRefused
  <1>1. Forgotten = {n \in DOMAIN calls :
                       /\ outcome[n] = "pending"
                       /\ n \notin InPool
                       /\ \A i \in DOMAIN posts : posts[i] # n}
    BY DEF Forgotten, Posted
  <1> QED
    BY <1>1 DEF ForgottenInv, ForgottenWhenRefused, IsFor

\* None is forgotten by a step, and what has been forgotten stays so.
LEMMA NoneForgotten ==
  ASSUME ForgottenInv, Forgotten' \subseteq Forgotten,
         \A n \in Forgotten : calls'[n] = calls[n],
         crossed => crossed', reading' => reading,
         conn' \in {"handshake", "connected"} => conn \in {"handshake", "connected"}
  PROVE  ForgottenInv'
  BY DEF ForgottenInv, IsFor

\* A promise is settled, or still held.
LEMMA StillHeld ==
  ASSUME ClientInv, UNCHANGED calls,
         \A n \in Req : outcome'[n] = "pending" => outcome[n] = "pending",
         \A n \in Posted \cup InPool : outcome'[n] = "pending" => n \in Posted' \cup InPool'
  PROVE  Forgotten' \subseteq Forgotten
  <1>1. DOMAIN calls \subseteq Req
    BY LenProperties, ClientAssumption DEF ClientInv, TypeOK, Req
  <1> QED
    BY <1>1 DEF Forgotten

LEMMA SettleHeld ==
  ASSUME ClientInv, UNCHANGED <<calls, posts>>,
         NEW S, NEW how, how # "pending", Settle(S, how), InPool \ S \subseteq InPool'
  PROVE  Forgotten' \subseteq Forgotten
  <1>1. Posted' = Posted
    BY DEF Posted
  <1>2. \A n \in Req : outcome'[n] = "pending" => outcome[n] = "pending" /\ n \notin S
    BY DEF Settle
  <1>3. Posted \cup InPool \subseteq Req
    BY LenProperties, ClientAssumption DEF ClientInv, OnePlace, TypeOK, Req
  <1> QED
    BY <1>1, <1>2, <1>3, StillHeld

\* The connection is given up, and the requests popped before get no answer.
LEMMA Refused ==
  ASSUME OwnInv, reading, conn = "connected", NEW S, Disconnects(InPool \ S),
         S = {} \/ \E v \in Var : S = subReqs[v] /\ crossed,
         link # "open" \/ torn \/ crossed,
         UNCHANGED <<calls, posts, crossed, torn, link>>
  PROVE  /\ RepliesInv' /\ ~reading'
         /\ ForgottenInv' /\ ConnectionOutlivesRequests'
  <1>1. ~reading' /\ conn' = "error"
    BY DEF Disconnects
  <1>2. Forgotten = {} /\ ClientInv /\ Filed
    BY DEF OwnInv, SessionInv, ForgottenInv
  <1>3. \A n \in Forgotten' : n \in S
    <2>1. Posted' = Posted
      BY DEF Posted
    <2>2. DOMAIN calls \subseteq Req
      BY <1>2, LenProperties, ClientAssumption DEF ClientInv, TypeOK, Req
    <2>3. ASSUME NEW n \in DOMAIN calls, outcome'[n] = "pending"
          PROVE  outcome[n] = "pending" /\ n \notin InPool \ S
      BY <2>2, <2>3 DEF Disconnects, Settle
    <2> QED
      BY <1>2, <2>1, <2>3 DEF Forgotten
  <1>4. Forgotten' # {} => crossed /\ \E v \in Var : \A n \in Forgotten' : IsFor(n, v)'
    BY <1>2, <1>3 DEF Filed, IsFor
  <1>5. ForgottenInv'
    BY <1>1, <1>4 DEF ForgottenInv
  <1> QED
    BY <1>1, <1>5 DEF RepliesInv, Listening, Lasting, ConnectionOutlivesRequests

LEMMA OnMessageReceivedOwn ==
  ASSUME OwnInv, NEW n \in Nat, NEW h \in BOOLEAN, OnMessageReceived(n, h)
  PROVE  /\ RepliesInv'
         /\ conn' = "connected" \/ ~reading'
         /\ ForgottenInv' /\ ConnectionOutlivesRequests'
  <1>0. PICK m : m = Head(Received(n))
    OBVIOUS
  <1>1. /\ Receives(n, h) /\ Received(n) # << >> /\ inbuf' = Tail(Received(n))
        /\ UNCHANGED <<calls, posts, crossed, torn, missed, link, toServer, session, given>>
        /\ conn = "connected" /\ reading
    BY DEF OnMessageReceived, Running, Receives, OwnInv
  <1>2. /\ TypeOK /\ ClientInv /\ PoolDisjoint /\ Listening /\ GrantsAreNew
    BY <1>1 DEF OwnInv, SessionInv, ClientInv, OnePlace, Listening
  <1>3. /\ m \in ToClient /\ m \in Told /\ Told = Told' \cup {m}
        /\ Fresh(Replies) => Fresh(Replies)' /\ (m \in Replies => m \notin Told')
    BY <1>0, <1>1, <1>2, ToldShrinks
  <1>4. ~crossed =>
          /\ m.kind \notin {"VAR_ALREADY_SUBSCRIBED", "NO_SUCH_SUBSCRIPTION"}
          /\ NoneRefused'
    BY <1>2, <1>3 DEF OwnInv, RepliesInv, NoneRefused
  <1>5. Lasting /\ ~crossed =>
          /\ OneAsked /\ InTurn /\ OneDropped /\ BothSidesKnow
          /\ Fresh(Replies)' /\ (m \in Replies => m \notin Told')
    BY <1>3 DEF OwnInv, SessionInv, RepliesInv, OneReply
  <1>6. ASSUME NEW S, Disconnects(InPool \ S), Lasting => crossed,
               S = {} \/ \E v \in Var : S = subReqs[v] /\ crossed
        PROVE  /\ RepliesInv' /\ ~reading'
               /\ ForgottenInv' /\ ConnectionOutlivesRequests'
    <2>1. link # "open" \/ torn \/ crossed
      BY <1>2, <1>6 DEF Lasting
    <2> QED
      BY <1>1, <1>6, <2>1, Refused
  <1>7. CASE /\ ReadsOn
             /\ Forgotten' \subseteq Forgotten
             /\ Lasting /\ ~crossed => OneAsked' /\ InTurn' /\ OneDropped'
    <2>1. conn' = conn /\ reading' = reading
      BY <1>1, <1>7 DEF ReadsOn
    <2>2. ForgottenInv'
      BY <1>1, <1>7, <2>1, NoneForgotten DEF OwnInv
    <2>3. RepliesInv'
      BY <1>1, <1>2, <1>4, <1>5, <1>7, <2>1 DEF RepliesInv, OneReply, Listening, Lasting
    <2> QED
      BY <1>1, <2>1, <2>2, <2>3 DEF ConnectionOutlivesRequests
  <1>8. CASE /\ m.kind \in {"SUBSCRIBED", "NO_SUCH_VAR", "VAR_ALREADY_SUBSCRIBED"}
             /\ OnSubscriptionReplyReceived(m)
    <2>0. PICK S : S = subReqs[m.var]
      OBVIOUS
    <2>1. m.var \in Var /\ IsReplyFor(m, m.var) /\ m \in Replies
      BY <1>3, <1>8 DEF ToClient, IsReplyFor, Replies
    <2>2. Lasting /\ ~crossed => S # {}
      BY <1>3, <1>5, <2>0, <2>1 DEF OneAsked, Answers
    <2>3. CASE S = {} \/ m.kind = "VAR_ALREADY_SUBSCRIBED"
      <3>1. Disconnects(InPool \ S)
        BY <1>8, <2>0, <2>3 DEF OnSubscriptionReplyReceived
      <3>2. S = {} \/ \E v \in Var : S = subReqs[v] /\ crossed
        BY <1>4, <2>0, <2>1, <2>3
      <3> QED
        BY <1>6, <1>4, <2>2, <2>3, <3>1, <3>2
    <2>4. CASE S # {} /\ m.kind # "VAR_ALREADY_SUBSCRIBED"
      <3>1. m.kind = "SUBSCRIBED" => ~MasterDefined(m.id)
        <4> SUFFICES ASSUME m.kind = "SUBSCRIBED", NEW f \in byMaster, f.master = m.id
                     PROVE  FALSE
          BY DEF MasterDefined
        <4>1. /\ [var |-> m.var, master |-> m.id] \in Entry
              /\ m = Grant([var |-> m.var, master |-> m.id])
          BY <1>3, GrantProperties
        <4> QED
          BY <1>2, <1>3, <4>1 DEF GrantsAreNew
      <3>2. /\ Settle(S, "no_such") \/ Settle(S, "ok")
            /\ subReqs' = [subReqs EXCEPT ![m.var] = {}]
            /\ UNCHANGED unsubReqs /\ ReadsOn
        BY <1>8, <2>0, <2>4, <3>1 DEF OnSubscriptionReplyReceived
      <3>3. InPool' = InPool \ S
        BY <1>2, <2>0, <2>1, <3>2, SubReqsPopped
      <3>4. Forgotten' \subseteq Forgotten
        BY <1>1, <1>2, <3>2, <3>3, SettleHeld
      <3>5. Lasting /\ ~crossed => OneAsked' /\ InTurn' /\ OneDropped'
        BY <1>1, <1>2, <1>3, <1>5, <2>1, <3>2, ReplyOne
      <3> QED
        BY <1>7, <3>2, <3>4, <3>5
    <2> QED
      BY <2>3, <2>4
  <1>9. CASE /\ m.kind \in {"UNSUBSCRIBED", "NO_SUCH_SUBSCRIPTION"}
             /\ OnUnsubscriptionReplyReceived(m)
    <2>0. PICK S : S = unsubReqs[m.id]
      OBVIOUS
    <2>1. m.id \in Master /\ (~crossed => m = Dropped(m.id))
      BY <1>3, <1>4, <1>9, ReplyProperties DEF ToClient
    <2>2. Lasting /\ ~crossed => S # {}
      BY <1>3, <1>5, <2>0, <2>1 DEF OneDropped, DropAnswers
    <2>3. CASE S = {}
      <3>1. Disconnects(InPool \ {})
        <4>1. InPool \ {} = InPool
          OBVIOUS
        <4> QED
          BY <1>9, <2>0, <2>3, <4>1 DEF OnUnsubscriptionReplyReceived
      <3> QED
        BY <1>6, <2>2, <2>3, <3>1
    <2>4. CASE S # {}
      <3>1. /\ Settle(S, "no_such") \/ Settle(S, "ok")
            /\ unsubReqs' = [unsubReqs EXCEPT ![m.id] = {}]
            /\ UNCHANGED subReqs /\ ReadsOn
        BY <1>9, <2>0, <2>4 DEF OnUnsubscriptionReplyReceived
      <3>2. InPool' = InPool \ S
        BY <1>2, <2>0, <2>1, <3>1, UnsubReqsPopped
      <3>3. Forgotten' \subseteq Forgotten
        BY <1>1, <1>2, <3>1, <3>2, SettleHeld
      <3>4. m \in Replies
        BY <1>3, <1>9 DEF Replies
      <3>5. Lasting /\ ~crossed => OneAsked' /\ InTurn' /\ OneDropped'
        BY <1>1, <1>2, <1>3, <1>5, <2>1, <3>1, <3>4, DroppedReplyOne
      <3> QED
        BY <1>7, <3>1, <3>3, <3>5
    <2> QED
      BY <2>3, <2>4
  <1>10. CASE m.kind = "var_update" /\ OnVariableUpdateReceived
    <2>1. ReadsOn /\ UNCHANGED <<outcome, subReqs, unsubReqs>>
      BY <1>10 DEF OnVariableUpdateReceived
    <2>2. Forgotten' \subseteq Forgotten
      BY <1>1, <2>1 DEF Forgotten, Posted, InPool
    <2>3. Lasting /\ ~crossed => OneAsked' /\ InTurn' /\ OneDropped'
      BY <1>1, <1>3, <1>5, <2>1, NoReplyTaken
    <2> QED
      BY <1>7, <2>1, <2>2, <2>3
  <1> QED
    BY <1>0, <1>8, <1>9, <1>10 DEF OnMessageReceived

\* The client hears nothing of a reply.
LEMMA RepliesUnchanged ==
  ASSUME OwnInv, Told' \subseteq Told, Fresh(Replies) => Fresh(Replies)',
         UNCHANGED <<crossed, toServer, session, given, subReqs, unsubReqs>>,
         Listening' => Listening, Lasting' => Lasting
  PROVE  RepliesInv'
  <1>1. OneAsked /\ InTurn /\ OneDropped => OneAsked' /\ InTurn' /\ OneDropped'
    BY NoReplyTaken
  <1>2. NoneRefused => NoneRefused'
    BY DEF NoneRefused
  <1> QED
    BY <1>1, <1>2 DEF OwnInv, RepliesInv, OneReply

LEMMA HandshakeReplies ==
  ASSUME OwnInv, NEW n \in Nat, NEW h \in BOOLEAN, Handshake(n, h)
  PROVE  RepliesInv'
  <1>1. /\ conn = "handshake" /\ Receives(n, h)
        /\ UNCHANGED <<crossed, missed, subReqs, unsubReqs, link, toServer, session, given>>
    BY DEF Handshake
  <1>2. CASE conn' = "failed"
    BY <1>2 DEF RepliesInv, Listening, Lasting
  <1>3. CASE Greeted(n)
    <2>1. /\ Received(n) # << >> /\ inbuf' = Tail(Received(n)) /\ conn' = "connected"
          /\ TypeOK /\ Listening
      BY <1>1, <1>3 DEF Greeted, OwnInv, SessionInv, ClientInv, Listening
    <2>2. Told' \subseteq Told /\ (Fresh(Replies) => Fresh(Replies)')
      BY <1>1, <2>1, ToldShrinks
    <2> QED
      BY <1>1, <2>1, <2>2, RepliesUnchanged DEF Lasting
  <1> QED
    BY <1>2, <1>3 DEF Handshake

LEMMA OnGarbageReceivedOwn ==
  ASSUME OwnInv, NEW n \in Nat, NEW h \in BOOLEAN, OnGarbageReceived(n, h)
  PROVE  /\ RepliesInv'
         /\ conn' = "connected" \/ ~reading'
         /\ ForgottenInv' /\ ConnectionOutlivesRequests'
  <1>1. /\ conn = "connected" /\ reading /\ torn
        /\ UNCHANGED <<calls, posts, crossed, inbuf, link, toServer, session, given>>
    BY DEF OnGarbageReceived, Running, Receives, OwnInv
  <1>2. CASE Disconnects(InPool) /\ UNCHANGED torn
    <2>1. InPool \ {} = InPool
      OBVIOUS
    <2>2. Disconnects(InPool \ {})
      BY <1>2, <2>1
    <2> QED
      BY <1>1, <1>2, <2>2, Refused
  <1>3. CASE /\ Receives(n, h)
             /\ missed' = missed \cup {toClient[i] : i \in 1..n}
             /\ ReadsOn
             /\ UNCHANGED <<outcome, subReqs, unsubReqs>>
    <2>1. conn' = conn /\ reading' = reading
      BY <1>1, <1>3 DEF ReadsOn
    <2>2. Told' = Told /\ (Fresh(Replies) => Fresh(Replies)')
      BY <1>1, <1>3, ToldDropped DEF OwnInv, SessionInv, ClientInv
    <2>3. RepliesInv'
      BY <1>1, <1>3, <2>1, <2>2, RepliesUnchanged DEF Listening, Lasting
    <2>4. Forgotten' = Forgotten
      BY <1>1, <1>3 DEF Forgotten, Posted, InPool
    <2>5. ForgottenInv'
      BY <1>1, <2>1, <2>4, NoneForgotten DEF OwnInv
    <2> QED
      BY <1>1, <2>1, <2>3, <2>5 DEF ConnectionOutlivesRequests
  <1> QED
    BY <1>2, <1>3 DEF OnGarbageReceived

LEMMA SubmitForgets ==
  ASSUME OwnInv, NEW c \in Caller, Submit(c)
  PROVE  ForgottenInv'
  <1>1. PICK k \in CallsOf(c) :
          /\ calls' = Append(calls, k)
          /\ posts' = Append(posts, Len(calls) + 1)
    BY DEF Submit
  <1>2. UNCHANGED <<subReqs, unsubReqs, outcome, crossed, reading, conn>> /\ InPool' = InPool
    BY DEF Submit, InPool
  <1>3. TypeOK /\ DOMAIN calls = 1..Len(calls) /\ Len(calls) \in Nat
    BY LenProperties DEF OwnInv, SessionInv, ClientInv, TypeOK
  <1>4. /\ DOMAIN calls' = 1..(Len(calls) + 1)
        /\ \A x \in DOMAIN calls : x \in DOMAIN calls' /\ calls'[x] = calls[x]
        /\ Posted' = Posted \cup {Len(calls) + 1}
    BY <1>1, <1>3, CallAppended DEF OwnInv, SessionInv
  <1>5. \A n \in DOMAIN calls' : n \in DOMAIN calls \/ n = Len(calls) + 1
    BY <1>3, <1>4
  <1>6. Forgotten' \subseteq Forgotten /\ \A n \in Forgotten : calls'[n] = calls[n]
    BY <1>2, <1>4, <1>5 DEF Forgotten
  <1> QED
    BY <1>2, <1>6, NoneForgotten DEF OwnInv

LEMMA RunPostForgets ==
  ASSUME OwnInv, RunPost
  PROVE  Forgotten' \subseteq Forgotten
  <1>0. PICK n : n = Head(posts)
    OBVIOUS
  <1>1. /\ TypeOK /\ ClientInv /\ PoolDisjoint /\ UNCHANGED calls
        /\ Posted' = Posted \ {n} /\ n \notin InPool /\ n \in 1..Len(calls)
    BY <1>0, PostsPopped DEF OwnInv, SessionInv, ClientInv, OnePlace, RunPost
  <1>2. calls[n] \in Call
    BY <1>1, ElementOfSeq DEF TypeOK
  <1>3. CASE /\ \E how \in {"ok", "no_such"} : Settle({n}, how)
             /\ UNCHANGED <<subReqs, unsubReqs>>
    <2>1. \A x \in Req : outcome'[x] = "pending" => outcome[x] = "pending" /\ x # n
      BY <1>3 DEF Settle
    <2>2. InPool' = InPool
      BY <1>3 DEF InPool
    <2>3. Posted \cup InPool \subseteq Req
      BY <1>1, LenProperties, ClientAssumption DEF ClientInv, OnePlace, TypeOK, Req
    <2> QED
      BY <1>1, <2>1, <2>2, <2>3, StillHeld
  <1>4. CASE InPool' = InPool \cup {n} /\ UNCHANGED outcome
    BY <1>1, <1>4, StillHeld
  <1>5. CASE calls[n].op = "subscribe" /\ OnSubscriptionRequested(n, calls[n].var)
    <2>1. calls[n].var \in Var
      BY <1>2, <1>5 DEF Call
    <2>2. CASE /\ subReqs' = [subReqs EXCEPT ![calls[n].var] = @ \cup {n}]
               /\ UNCHANGED <<outcome, unsubReqs>>
      BY <1>1, <1>4, <2>1, <2>2, SubReqInserted
    <2> QED
      BY <1>3, <1>5, <2>2 DEF OnSubscriptionRequested
  <1>6. CASE calls[n].op = "unsubscribe" /\ OnUnsubscriptionRequested(n, calls[n].id)
    <2>1. CASE /\ VirtualDefined(calls[n].id)
               /\ unsubReqs' = [unsubReqs EXCEPT ![MasterOf(calls[n].id)] = @ \cup {n}]
               /\ UNCHANGED <<outcome, subReqs>>
      BY <1>1, <1>4, <2>1, MasterOfType, UnsubReqInserted
    <2> QED
      BY <1>3, <1>6, <2>1 DEF OnUnsubscriptionRequested, RemoveVirtual
  <1>7. CASE calls[n].op = "update" /\ OnVariableUpdateRequested(n, calls[n].id)
    BY <1>3, <1>7 DEF OnVariableUpdateRequested
  <1> QED
    BY <1>0, <1>5, <1>6, <1>7 DEF RunPost

LEMMA ForgottenUnchanged ==
  ASSUME OwnInv, UNCHANGED <<calls, outcome, posts, subReqs, unsubReqs, crossed>>,
         reading' => reading,
         conn' \in {"handshake", "connected"} => conn \in {"handshake", "connected"}
  PROVE  ForgottenInv'
  <1>1. Forgotten' = Forgotten
    BY DEF Forgotten, Posted, InPool
  <1> QED
    BY <1>1, NoneForgotten DEF OwnInv

-----------------------------------------------------------------------------
(* The theorems.                                                           *)

LEMMA InitOwn == Init => OwnInv
  <1> SUFFICES ASSUME Init PROVE OwnInv
    OBVIOUS
  <1>1. Flow = <<[kind |-> "begin"]>>
    <2>1. <<[kind |-> "begin"]>> \in Seq(ToClient)
      BY InitClientInv DEF Init, ClientInv, TypeOK
    <2> QED
      BY <2>1, ConcatEmptySeq DEF Init, Flow
  <1>2. Told = {[kind |-> "begin"]} /\ Going = {} /\ missed = {}
    <2>1. DOMAIN <<[kind |-> "begin"]>> = {1}
      OBVIOUS
    <2> QED
      BY <1>1, <2>1 DEF Told, Coming, Going, Flow, Init
  <1>3. \A v : ~Answers(v)
    BY <1>2 DEF Answers, IsReplyFor
  <1>4. \A i : ~DropAnswers(i)
    BY <1>2 DEF DropAnswers, Dropped
  <1>5. OneAsked /\ InTurn
    BY <1>2, <1>3 DEF OneAsked, Once, InTurn, Init, IsReplyFor
  <1>6. OneDropped
    BY <1>4 DEF OneDropped, Init
  <1>7. Fresh(Replies) /\ NoneRefused
    BY <1>1, <1>2 DEF Fresh, Once, NoneRefused
  <1>8. Forgotten = {}
    BY DEF Forgotten, Init
  <1> QED
    BY <1>5, <1>6, <1>7, <1>8, InitSession, InitFiled
    DEF OwnInv, RepliesInv, OneReply, Init, ConnectionOutlivesRequests, ForgottenInv

LEMMA NextOwn ==
  ASSUME OwnInv, [Next]_vars
  PROVE  OwnInv'
  <1>1. SessionInv' /\ Filed' /\ ClientInv /\ 0..MaxBurst \subseteq Nat
    BY NextSession, NextFiled, ClientAssumption DEF OwnInv, SessionInv
  <1> SUFFICES /\ RepliesInv'
               /\ thread' \in {"starting", "running"} /\ reading' => conn' = "connected"
               /\ ForgottenInv' /\ ConnectionOutlivesRequests'
    BY <1>1 DEF OwnInv
  <1>2. CASE ServerReads \/ (\E e \in session : ServerTells(e)) \/ ServerBreaks
    <2>1. RepliesInv'
      BY <1>1, <1>2, ServerHandlesReplies, ServerTellsReplies, ServerBreaksReplies
      DEF ServerReads
    <2>2. UNCHANGED <<torn, crossed, thread, reading, conn, calls, outcome, posts,
                      subReqs, unsubReqs>>
      BY <1>2 DEF ServerReads, ServerHandles, ServerTells, ServerBreaks, clientVars
    <2>3. link # "open" => link' # "open"
      BY <1>2 DEF ServerReads, ServerHandles, ServerTells, ServerBreaks
    <2>4. ForgottenInv'
      BY <2>2, ForgottenUnchanged
    <2> QED
      BY <2>1, <2>2, <2>3, <2>4 DEF OwnInv, ConnectionOutlivesRequests
  <1>3. CASE \E c \in Caller : Submit(c)
    <2>1. PICK c \in Caller : Submit(c)
      BY <1>3
    <2>2. UNCHANGED <<inbuf, toClient, missed, crossed, toServer, session, given,
                      subReqs, unsubReqs, torn, thread, reading, conn, link>>
      BY <2>1 DEF Submit, serverVars
    <2>3. Told' = Told /\ (Fresh(Replies) => Fresh(Replies)')
      BY <2>2, ToldUnchanged
    <2>4. RepliesInv'
      BY <2>2, <2>3, RepliesUnchanged DEF Listening, Lasting
    <2> QED
      BY <2>1, <2>2, <2>4, SubmitForgets DEF OwnInv, ConnectionOutlivesRequests
  <1>4. CASE RunPost
    <2>1. UNCHANGED <<calls, conn, thread, reading, torn, link>>
      BY <1>4 DEF RunPost
    <2>2. RepliesInv' /\ (crossed => crossed')
      BY <1>4, RunPostReplies
    <2>3. ForgottenInv'
      BY <1>4, <2>1, <2>2, RunPostForgets, NoneForgotten DEF OwnInv
    <2> QED
      BY <2>1, <2>2, <2>3 DEF OwnInv, ConnectionOutlivesRequests
  <1>5. CASE ReadMessage
    <2>1. PICK n \in Nat, h \in BOOLEAN : OnMessageReceived(n, h)
      BY <1>1, <1>5 DEF ReadMessage
    <2> QED
      BY <2>1, OnMessageReceivedOwn
  <1>6. CASE OnPartialMessageReceived
    <2>1. /\ UNCHANGED <<inbuf, missed, crossed, toServer, session, given, calls,
                         outcome, posts, subReqs, unsubReqs, conn, link, thread, reading>>
          /\ Receives(0, TRUE) /\ torn'
      BY <1>6 DEF OnPartialMessageReceived
    <2>2. toClient' = toClient
      BY <2>1, SubSeqFull DEF Receives, OwnInv, SessionInv, ClientInv, TypeOK
    <2>3. Told' = Told /\ (Fresh(Replies) => Fresh(Replies)')
      BY <2>1, <2>2, ToldUnchanged
    <2>4. RepliesInv'
      BY <2>1, <2>3, RepliesUnchanged DEF Listening, Lasting
    <2>5. ForgottenInv'
      BY <2>1, ForgottenUnchanged
    <2> QED
      BY <2>1, <2>4, <2>5 DEF OwnInv, ConnectionOutlivesRequests
  <1>7. CASE ReadGarbage
    <2>1. PICK n \in Nat, h \in BOOLEAN : OnGarbageReceived(n, h)
      BY <1>1, <1>7 DEF ReadGarbage
    <2> QED
      BY <2>1, OnGarbageReceivedOwn
  <1>8. CASE OnReadError
    <2>1. /\ conn = "connected" /\ reading /\ link # "open"
          /\ UNCHANGED <<calls, posts, crossed, torn, link>>
      BY <1>8 DEF OnReadError, Running, OwnInv, serverVars
    <2>2. CASE conn' = "disconnected" /\ ~reading' /\ UNCHANGED <<outcome, subReqs, unsubReqs>>
      <3>1. ForgottenInv'
        BY <2>1, <2>2, ForgottenUnchanged
      <3> QED
        BY <2>2, <3>1 DEF RepliesInv, Listening, Lasting, ConnectionOutlivesRequests
    <2>3. CASE Disconnects(InPool)
      <3>1. InPool \ {} = InPool
        OBVIOUS
      <3>2. Disconnects(InPool \ {})
        BY <2>3, <3>1
      <3> QED
        BY <2>1, <3>2, Refused
    <2> QED
      BY <1>8, <2>1, <2>2, <2>3 DEF OnReadError
  <1>9. CASE ReadGreeting
    <2>1. PICK n \in Nat, h \in BOOLEAN : Handshake(n, h)
      BY <1>1, <1>9 DEF ReadGreeting
    <2>2. /\ UNCHANGED <<calls, outcome, posts, subReqs, unsubReqs, crossed, torn, link>>
          /\ conn = "handshake" /\ reading
      BY <2>1 DEF Handshake, Receives
    <2>3. \/ conn' = "connected"
          \/ conn' = "failed" /\ ~reading'
      BY <2>1 DEF Handshake, Greeted
    <2>4. ForgottenInv'
      BY <2>2, <2>3, ForgottenUnchanged
    <2> QED
      BY <2>1, <2>3, <2>4, HandshakeReplies DEF ConnectionOutlivesRequests
  <1>10. CASE \/ \E c \in Caller : GetResult(c)
              \/ ThreadStarts \/ ThreadExits \/ Stop \/ ResidualRead \/ UNCHANGED vars
    <2>1. UNCHANGED <<inbuf, toClient, missed, crossed, toServer, session, given, calls,
                      outcome, posts, subReqs, unsubReqs, conn, link, torn>>
      BY <1>10 DEF GetResult, ThreadStarts, ThreadExits, Stop, ResidualRead, vars,
                   clientVars, serverVars
    <2>2. /\ reading' => reading
          /\ thread' \in {"starting", "running"} => thread \in {"starting", "running"}
      BY <1>10 DEF GetResult, ThreadStarts, ThreadExits, Stop, ResidualRead, vars,
                   clientVars
    <2>3. Told' = Told /\ (Fresh(Replies) => Fresh(Replies)')
      BY <2>1, ToldUnchanged
    <2>4. RepliesInv'
      BY <2>1, <2>3, RepliesUnchanged DEF Listening, Lasting
    <2>5. ForgottenInv'
      BY <2>1, <2>2, ForgottenUnchanged
    <2> QED
      BY <2>1, <2>2, <2>4, <2>5 DEF OwnInv, ConnectionOutlivesRequests
  <1>11. CASE HandshakeFails \/ Join \/ Closed
    <2>1. /\ ~Listening' /\ conn' # "error"
          /\ UNCHANGED <<calls, outcome, posts, subReqs, unsubReqs, crossed>>
          /\ reading' => reading
          /\ thread' \in {"starting", "running"} => ~reading'
      BY <1>11 DEF HandshakeFails, Join, Closed, Listening
    <2>2. RepliesInv'
      BY <2>1 DEF RepliesInv, Lasting
    <2>3. ForgottenInv'
      BY <2>1, ForgottenUnchanged DEF Listening
    <2> QED
      BY <2>1, <2>2, <2>3 DEF ConnectionOutlivesRequests
  <1>12. CASE \E c \in Caller : Submit(c) \/ GetResult(c)
    <2>1. (\E c \in Caller : Submit(c)) \/ (\E c \in Caller : GetResult(c))
      BY <1>12
    <2> QED
      BY <1>3, <1>10, <2>1
  <1> QED
    BY <1>2, <1>4, <1>5, <1>6, <1>7, <1>8, <1>9, <1>10, <1>11, <1>12 DEF Next

\* The client gives up a connection that the server keeps only for what is left
\* of a message it has received in part, or for a subscription sent while
\* another to the same variable had no answer: whatever calls time out,
\* whatever answers are dropped, and however messages are received together.
THEOREM ConnectionOutlivesRequestsAlways == Spec => []ConnectionOutlivesRequests
  <1>1. OwnInv => ConnectionOutlivesRequests
    BY DEF OwnInv
  <1> QED
    BY <1>1, InitOwn, NextOwn, PTL DEF Spec

\* A promise that is not settled is held by a post or by the pool. The requests
\* that are popped and get no answer are subscriptions to one variable that were
\* sent while another had no answer, and they end the connection.
THEOREM ForgottenWhenRefusedAlways == Spec => []ForgottenWhenRefused
  <1>1. OwnInv => ForgottenWhenRefused
    BY ForgottenNamed DEF OwnInv
  <1> QED
    BY <1>1, InitOwn, NextOwn, PTL DEF Spec
=============================================================================
