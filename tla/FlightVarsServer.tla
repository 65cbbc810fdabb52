-------------------------- MODULE FlightVarsServer --------------------------
(***************************************************************************)
(* The FlightVars TCP server on top of its delegate. Every handler of the  *)
(* server, the ticks included, runs on the thread of one io_service, so    *)
(* each is one action.                                                     *)
(*                                                                         *)
(* A session is a session object; it lives while a read, a write of a      *)
(* reply or a posted update refers to it. What the server writes arrives   *)
(* in the order of the writes, so the model keeps what the client knows    *)
(* once it has read it all instead of the bytes on their way.              *)
(***************************************************************************)
EXTENDS FsuipcFlightVars, Sequences

CONSTANTS
  MaxUp,       \* bound: messages of a client not yet received
  MaxBurst,    \* messages one read completion may receive
  MaxPosted,   \* bound: updates of a variable posted for a session, not sent
  MaxRequests  \* bound: requests the clients send in a behaviour

Session == Subscriber

\* No more requests than identifiers: the bound never disables a handler.
ASSUME ServerAssumption ==
  /\ {MaxUp, MaxBurst, MaxPosted, MaxRequests} \subseteq Nat
  /\ MaxRequests <= MaxSubs

\* begin_session, end_session, requests; a message no client should send is
\* handled like one out of its place: it ends the session.
ClientMessage ==
  [kind: {"begin", "end"}] \cup [kind: {"subscribe"}, var: Var]
  \cup [kind: {"unsubscribe"}, id: Id]
  \cup [kind: {"update"}, id: Id, val: Value]

Mapping == [var: Var, id: Id]

VARIABLES
  stage,   \* what holds the session: nothing yet, one of its reads, the write
           \* of a reply, or at most the updates posted for it
  link,    \* the connection, as the client leaves it
  up,      \* whole messages of the client on their way
  inbuf,   \* session::input_buffer, its whole messages
  mapper,  \* session::subscriptions
  posted,  \* calls of send_var_update posted to the io_service
  granted, \* what the client knows: SUBSCRIBED, not yet UNSUBSCRIBED
  seen,    \* what the client knows: the last update of each subscription
  sent     \* requests sent by the clients

serverVars == <<stage, link, up, inbuf, mapper, posted, granted, seen,
                sent>>
vars == <<delegateVars, serverVars>>

TypeOK ==
  /\ TypeOKDelegate
  /\ stage \in [Session -> {"none", "greeting", "reading", "writing",
                            "dropped"}]
  /\ link \in [Session -> {"open", "closed", "reset"}]
  /\ up \in [Session -> Seq(ClientMessage)]
  /\ inbuf \in [Session -> Seq(ClientMessage)]
  /\ mapper \in [Session -> SUBSET Mapping]
  /\ posted \in [Session -> [Var -> Seq(Value)]]
  /\ granted \in [Session -> SUBSET Id]
  /\ seen \in [Session -> [Id -> Value \cup {NoValue}]]
  /\ sent \in 0..MaxRequests

Init ==
  /\ InitDelegate
  /\ stage = [s \in Session |-> "none"]
  /\ link = [s \in Session |-> "closed"]
  /\ up = [s \in Session |-> <<>>]
  /\ inbuf = [s \in Session |-> <<>>]
  /\ mapper = [s \in Session |-> {}]
  /\ posted = [s \in Session |-> [v \in Var |-> <<>>]]
  /\ granted = [s \in Session |-> {}]
  /\ seen = [s \in Session |-> [i \in Id |-> NoValue]]
  /\ sent = 0

-----------------------------------------------------------------------------
(* The clients and the network.                                            *)

Requests(s) ==
  [kind: {"subscribe"}, var: Var] \cup [kind: {"unsubscribe"}, id: granted[s]]
  \cup [kind: {"update"}, id: granted[s], val: Value]

\* What is sent to a session that no longer reads is left out.
ClientSends(s) ==
  /\ stage[s] \notin {"none", "dropped"}
  /\ link[s] = "open"
  /\ Len(up[s]) < MaxUp
  /\ \/ /\ sent < MaxRequests
        /\ sent' = sent + 1
        /\ \E m \in Requests(s) : up' = [up EXCEPT ![s] = Append(@, m)]
     \/ /\ \E k \in {"begin", "end"} :
             up' = [up EXCEPT ![s] = Append(@, [kind |-> k])]
        /\ UNCHANGED sent
  /\ UNCHANGED <<delegateVars, stage, link, inbuf, mapper, posted,
                 granted, seen>>

\* An orderly close arrives after the messages; a reset may overtake them.
ClientLeaves(s) ==
  /\ stage[s] # "none"
  /\ link[s] = "open"
  /\ \/ /\ link' = [link EXCEPT ![s] = "closed"]
        /\ UNCHANGED up
     \/ /\ link' = [link EXCEPT ![s] = "reset"]
        /\ up' = [up EXCEPT ![s] = <<>>]
  /\ UNCHANGED <<delegateVars, stage, inbuf, mapper, posted, granted,
                 seen, sent>>

-----------------------------------------------------------------------------
(* The thread of the io_service.                                           *)

\* The last reference to the session is gone.
Dying(s) == stage[s] = "dropped" /\ \A v \in Var : posted[s][v] = <<>>

\* ~session() runs before the next handler.
IoThreadFree == \A s \in Session : ~Dying(s)

\* accept_connection: a new session object, that no handler left in the
\* delegate refers to.
Accept(s) ==
  /\ IoThreadFree
  /\ stage[s] = "none"
  /\ \A x \in subs : x.to # s
  /\ stage' = [stage EXCEPT ![s] = "greeting"]
  /\ link' = [link EXCEPT ![s] = "open"]
  /\ UNCHANGED <<delegateVars, up, inbuf, mapper, posted, granted, seen,
                 sent>>

\* A read completes with some bytes: what was missing of n messages, and
\* maybe a part of the next one, which is all of it when n is 0.
Receives(s, n) ==
  /\ IoThreadFree
  /\ n <= Len(up[s])
  /\ up[s] # <<>>
  /\ up' = [up EXCEPT ![s] = SubSeq(@, n + 1, Len(@))]

Received(s, n) == inbuf[s] \o SubSeq(up[s], 1, n)

\* reset() the buffer and read again: it holds no whole message.
ReadAgain(s, n) == Received(s, n) = <<>> /\ UNCHANGED <<stage, inbuf>>

\* unmarshall(): the first message, however many have been received.
Unmarshall(s, n) ==
  /\ Received(s, n) # <<>>
  /\ inbuf' = [inbuf EXCEPT ![s] = Tail(Received(s, n))]

Goes(s, to) == stage' = [stage EXCEPT ![s] = to]

OnReadBeginSession(s, n) ==
  /\ stage[s] = "greeting"
  /\ Receives(s, n)
  /\ \/ ReadAgain(s, n)
     \/ /\ Unmarshall(s, n)
        /\ Goes(s, IF Head(Received(s, n)).kind = "begin" THEN "writing"
                   ELSE "dropped")
  /\ UNCHANGED <<delegateVars, link, mapper, posted, granted, seen, sent>>

\* The greeting is read again at an end of file, which its handler takes for
\* a partial message; other errors end the session.
OnReadBeginSessionError(s) ==
  /\ IoThreadFree
  /\ stage[s] = "greeting"
  /\ link[s] # "open"
  /\ up[s] = <<>>
  /\ \/ link[s] = "closed" /\ UNCHANGED stage
     \/ link[s] = "reset" /\ Goes(s, "dropped")
  /\ UNCHANGED <<delegateVars, link, up, inbuf, mapper, posted, granted,
                 seen, sent>>

\* The subscription_mapper of a session.
SubscriptionExists(s, v) == \E p \in mapper[s] : p.var = v
SubscriptionsOf(s) == {p.id : p \in mapper[s]}
RegisterSubscription(s, v, id) ==
  mapper' = [mapper EXCEPT ![s] = @ \cup {[var |-> v, id |-> id]}]
UnregisterSubscription(s, id) ==
  mapper' = [mapper EXCEPT ![s] = {p \in @ : p.id # id}]
ClearSubscriptions(s) == mapper' = [mapper EXCEPT ![s] = {}]

\* handle_subscription_request, whose reply is then written. A failure of
\* FSUIPC ends the session.
HandleSubscriptionRequest(s, v) ==
  \/ /\ SubscriptionExists(s, v)
     /\ Goes(s, "writing")
     /\ UNCHANGED <<delegateVars, mapper, granted>>
  \/ /\ ~SubscriptionExists(s, v)
     /\ ~VarExists(v)
     /\ Goes(s, "writing")
     /\ UNCHANGED <<delegateVars, mapper, granted>>
  \/ /\ ~SubscriptionExists(s, v)
     /\ Subscribe(v, s)
     /\ RegisterSubscription(s, v, nextId)
     /\ granted' = [granted EXCEPT ![s] = @ \cup {nextId}]
     /\ Goes(s, "writing")
  \/ /\ ~SubscriptionExists(s, v)
     /\ SubscribeThrows(v, s)
     /\ Goes(s, "dropped")
     /\ UNCHANGED <<mapper, granted>>

\* Mutant: the mapper keeps the subscription.
HandleUnsubscriptionStillMapped(s, id) ==
  /\ Goes(s, "writing")
  /\ \/ /\ id \in coreIds
        /\ Unsubscribe({id})
        /\ granted' = [granted EXCEPT ![s] = @ \ {id}]
        /\ UNCHANGED mapper
     \/ /\ id \notin coreIds
        /\ UNCHANGED <<delegateVars, mapper, granted>>

\* handle_unsubscription_request; the delegate knows nothing of an identifier
\* unsubscribed before.
HandleUnsubscriptionRequest(s, id) ==
  /\ Goes(s, "writing")
  /\ \/ /\ id \in coreIds
        /\ Unsubscribe({id})
        /\ UnregisterSubscription(s, id)
        /\ granted' = [granted EXCEPT ![s] = @ \ {id}]
     \/ /\ id \notin coreIds
        /\ UNCHANGED <<delegateVars, mapper, granted>>

\* handle_var_update_request; nothing is written and the next read starts.
HandleVarUpdateRequest(s, id, val) ==
  /\ \/ /\ Update(id, val)
        /\ UNCHANGED stage
     \/ /\ FsuipcMayFail
        /\ id \in coreIds
        /\ Goes(s, "dropped")
        /\ UNCHANGED delegateVars
  /\ UNCHANGED <<mapper, granted>>

Handle(s, m) ==
  \/ /\ m.kind = "subscribe"
     /\ HandleSubscriptionRequest(s, m.var)
  \/ /\ m.kind = "unsubscribe"
     /\ HandleUnsubscriptionRequest(s, m.id)
  \/ /\ m.kind = "update"
     /\ HandleVarUpdateRequest(s, m.id, m.val)
  \/ /\ m.kind \in {"begin", "end"}
     /\ Goes(s, "dropped")
     /\ UNCHANGED <<delegateVars, mapper, granted>>

OnReadRequest(s, n) ==
  /\ stage[s] = "reading"
  /\ Receives(s, n)
  /\ \/ /\ ReadAgain(s, n)
        /\ UNCHANGED <<delegateVars, mapper, granted>>
     \/ /\ Unmarshall(s, n)
        /\ Handle(s, Head(Received(s, n)))
  /\ seen' = [seen EXCEPT ![s] = [i \in Id |-> IF i \in granted'[s] THEN @[i]
                                               ELSE NoValue]]
  /\ UNCHANGED <<link, posted, sent>>

\* Mutant: an end of file is taken for a partial message, as in the greeting.
OnReadRequestErrorReadsAgain(s) ==
  /\ IoThreadFree
  /\ stage[s] = "reading"
  /\ link[s] = "reset"
  /\ up[s] = <<>>
  /\ Goes(s, "dropped")
  /\ UNCHANGED <<delegateVars, link, up, inbuf, mapper, posted, granted,
                 seen, sent>>

\* A closed or reset connection: nothing reads from the session again.
OnReadRequestError(s) ==
  /\ IoThreadFree
  /\ stage[s] = "reading"
  /\ link[s] # "open"
  /\ up[s] = <<>>
  /\ Goes(s, "dropped")
  /\ UNCHANGED <<delegateVars, link, up, inbuf, mapper, posted, granted,
                 seen, sent>>

\* on_write_message of a reply: the next read starts, unless the write failed.
OnWriteMessage(s) ==
  /\ IoThreadFree
  /\ stage[s] = "writing"
  /\ \/ Goes(s, "reading")
     \/ link[s] # "open" /\ Goes(s, "dropped")
  /\ UNCHANGED <<delegateVars, link, up, inbuf, mapper, posted, granted,
                 seen, sent>>

\* Mutant: a session that is being replied to is told nothing.
ToldWhenReading(s, v) ==
  {x \in Notified : x.to = s /\ x.var = v /\ stage[s] = "reading"}

\* The subscriptions whose handler finds its session alive at a tick, for a
\* variable. There are several only when a failed subscribe() left one.
Told(s, v) == {x \in Notified : x.to = s /\ x.var = v /\ stage[s] # "none"}

\* A tick: check_for_updates() and the posts of handle_var_update.
Tick ==
  /\ IoThreadFree
  /\ \A s \in Session, v \in Var :
       Told(s, v) # {} => Len(posted[s][v]) < MaxPosted
  /\ CheckForUpdates
  /\ posted' = [s \in Session |-> [v \in Var |->
                  IF Told(s, v) = {} THEN posted[s][v]
                  ELSE Append(posted[s][v], memory[OffsetOf[v]])]]
  /\ UNCHANGED <<stage, link, up, inbuf, mapper, granted, seen, sent>>

\* The io_service calls in the order of the posts; only the order of the posts
\* about one variable matters.
SendVarUpdate(s, v) ==
  /\ IoThreadFree
  /\ posted[s][v] # <<>>
  /\ posted' = [posted EXCEPT ![s][v] = Tail(@)]
  /\ \/ \E p \in mapper[s] :
          /\ p.var = v
          /\ seen' = [seen EXCEPT ![s][p.id] = Head(posted[s][v])]
     \/ /\ ~SubscriptionExists(s, v)
        /\ UNCHANGED seen
  /\ UNCHANGED <<delegateVars, stage, link, up, inbuf, mapper, granted,
                 sent>>

\* Mutant: no unsubscribe_all().
DestroyStillSubscribed(s) ==
  /\ Dying(s)
  /\ stage' = [stage EXCEPT ![s] = "none"]
  /\ link' = [link EXCEPT ![s] = "closed"]
  /\ up' = [up EXCEPT ![s] = <<>>]
  /\ inbuf' = [inbuf EXCEPT ![s] = <<>>]
  /\ ClearSubscriptions(s)
  /\ granted' = [granted EXCEPT ![s] = {}]
  /\ seen' = [seen EXCEPT ![s] = [i \in Id |-> NoValue]]
  /\ UNCHANGED <<delegateVars, posted, sent>>

\* ~session(): unsubscribe_all() and the connection with its buffers.
Destroy(s) ==
  /\ Dying(s)
  /\ Unsubscribe(SubscriptionsOf(s))
  /\ stage' = [stage EXCEPT ![s] = "none"]
  /\ link' = [link EXCEPT ![s] = "closed"]
  /\ up' = [up EXCEPT ![s] = <<>>]
  /\ inbuf' = [inbuf EXCEPT ![s] = <<>>]
  /\ ClearSubscriptions(s)
  /\ granted' = [granted EXCEPT ![s] = {}]
  /\ seen' = [seen EXCEPT ![s] = [i \in Id |-> NoValue]]
  /\ UNCHANGED <<posted, sent>>

SimulatorStep ==
  /\ \E o \in Offset, val \in Value : SimulatorChanges(o, val)
  /\ UNCHANGED serverVars

-----------------------------------------------------------------------------
ReadBeginSession(s) ==
  \E n \in 0..MaxBurst : OnReadBeginSession(s, n)
ReadRequest(s) ==
  \E n \in 0..MaxBurst : OnReadRequest(s, n)

Next ==
  \/ \E s \in Session :
       \/ Accept(s)
       \/ ClientSends(s)
       \/ ClientLeaves(s)
       \/ ReadBeginSession(s)
       \/ OnReadBeginSessionError(s)
       \/ ReadRequest(s)
       \/ OnReadRequestError(s)
       \/ OnWriteMessage(s)
       \/ \E v \in Var : SendVarUpdate(s, v)
       \/ Destroy(s)
  \/ Tick
  \/ SimulatorStep

Spec == Init /\ [][Next]_vars

\* The thread of the io_service runs, and TCP delivers what is sent. Nothing
\* is asked of the clients, of who connects, or of the simulator.
Fairness ==
  /\ WF_vars(Tick)
  /\ \A s \in Session :
       /\ WF_vars(\E n \in 1..MaxBurst :
                    OnReadBeginSession(s, n) \/ OnReadRequest(s, n))
       /\ WF_vars(OnReadBeginSessionError(s))
       /\ WF_vars(OnReadRequestError(s))
       /\ WF_vars(OnWriteMessage(s))
       /\ \A v \in Var : WF_vars(SendVarUpdate(s, v))
       /\ WF_vars(Destroy(s))

FairSpec == Spec /\ Fairness

-----------------------------------------------------------------------------
(* Properties.                                                             *)

\* The mapper of a session, the core and what the replies told the client are
\* kept by the server, the delegate and the messages; they agree, and a
\* session has one subscription for a variable.
MapperMatchesDelegate ==
  \A s \in Session :
    /\ {[var |-> x.var, id |-> x.id] : x \in {y \in subs : y.to = s /\ y.id \in coreIds}}
         = mapper[s]
    /\ granted[s] = {p.id : p \in mapper[s]}
    /\ \A p, q \in mapper[s] : p.var = q.var => p = q

\* A session that ends takes along every subscription whose identifier the
\* core keeps: none is left to have updates posted for a later session.
SessionTakesAll == \A x \in subs : x.id \in coreIds => stage[x.to] # "none"

\* No subscription at all outlives the session its updates go to.
NoOrphan == \A x \in subs : stage[x.to] # "none"

\* Between check_for_updates() and the client a value passes through the
\* io_service, where the subscription it is for may have been replaced by
\* another: the last value posted or sent is the one the delegate reported.
NothingLostOnTheWay ==
  \A s \in Session : \A p \in mapper[s] :
    told[p.id] # NoValue =>
      told[p.id] = IF posted[s][p.var] = <<>> THEN seen[s][p.id]
                   ELSE posted[s][p.var][Len(posted[s][p.var])]

\* An update is written under an identifier the client has been granted and
\* that has not been taken back by the reply to an unsubscription.
UpdatesOnlyWhenGranted ==
  [][\A s \in Session, i \in Id :
       seen'[s][i] \notin {seen[s][i], NoValue} => i \in granted[s]]_vars

\* The client of every session is told the value the simulator settles on.
EventuallySeen ==
  <>[][UNCHANGED memory]_memory
    => <>[](\A s \in Session : \A p \in mapper[s] :
              seen[s][p.id] = memory[OffsetOf[p.var]])

\* Once a session has begun, the end of its connection ends it, and with it
\* its subscriptions: not before its posted updates are sent, hence the
\* condition on the simulator.
ClosedSessionEnds ==
  <>[][UNCHANGED memory]_memory
    => \A s \in Session :
         (link[s] # "open" /\ stage[s] \in {"reading", "writing"})
           ~> stage[s] = "none"

\* The server responds to every request with a reply message, as the messages
\* are specified: a session does not wait for more bytes while it holds
\* requests of its client. It does when several come in one read.
RequestsAreHandled ==
  \A s \in Session :
    []<>(stage[s] = "reading" => inbuf[s] = <<>> /\ up[s] = <<>>)
=============================================================================
