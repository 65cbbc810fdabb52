-------------------------- MODULE FlightVarsClient --------------------------
(***************************************************************************)
(* The FlightVars client: threads of the application call the blocking     *)
(* operations of flight_vars_client, which posts requests to the thread of *)
(* connection_manager. That thread sends messages, and settles the         *)
(* requests from what the server answers.                                  *)
(*                                                                         *)
(* The server is a session of module FlightVarsServer as its client sees   *)
(* it: requests are handled in their order, each reply is written before   *)
(* the next request is read, and updates are written for the               *)
(* subscriptions the session has at that time. Values are left out.        *)
(***************************************************************************)
EXTENDS SubscriptionDb, Sequences

CONSTANTS
  Caller,      \* threads of the application
  VarsOf,      \* the variables each of them subscribes to
  KnownVar,    \* the variables the server's delegate has
  MaxCalls,    \* bound: calls of the application in a behaviour
  MaxUpdates,  \* bound: updates on their way to the client
  MaxBurst,    \* messages one read completion may receive, on either side
  MaySplit,    \* whether a read completion may end inside a message
  MayTimeout,  \* whether a call may wait longer than its timeout
  MayBreak     \* whether the server may close or reset the connection

Req == 1..MaxCalls

\* A virtual subscription is named after the request it is the result of;
\* masters are counted by the server, one for each subscription.
ASSUME ClientAssumption ==
  /\ Virtual = Req
  /\ Master = Req
  /\ VarsOf \in [Caller -> SUBSET Var]
  /\ KnownVar \subseteq Var
  /\ {MaxCalls, MaxUpdates, MaxBurst} \subseteq Nat
  /\ {MaySplit, MayTimeout, MayBreak} \subseteq BOOLEAN

\* A call of the application: subscribe(var), unsubscribe(id) or update(id).
Call == [op: {"subscribe"}, var: Var] \cup [op: {"unsubscribe", "update"}, id: Virtual]

ToServer == [kind: {"subscribe"}, var: Var]
            \cup [kind: {"unsubscribe", "update"}, id: Master]
            \cup [kind: {"end"}]
ToClient == [kind: {"begin"}]
            \cup [kind: {"SUBSCRIBED"}, var: Var, id: Master]
            \cup [kind: {"NO_SUCH_VAR", "VAR_ALREADY_SUBSCRIBED"}, var: Var]
            \cup [kind: {"UNSUBSCRIBED", "NO_SUCH_SUBSCRIPTION"}, id: Master]
            \cup [kind: {"var_update"}, id: Master]

VARIABLES
  calls,      \* the requests made, in order
  outcome,    \* their promises: pending, ok, no_such, comm_error
  waiting,    \* the request each thread of the application waits for, or 0
  posts,      \* requests posted to the io_service of the client
  subReqs,    \* request_pool::_subs_reqs
  unsubReqs,  \* request_pool::_unsubs_reqs
  crossed,    \* whether a subscription has been sent while another to the same
              \* variable had no answer (history)
  conn,       \* the life of the connection_manager, with its connection_state
  thread,     \* the thread that runs the io_service
  stop,       \* io_service::stop() of the destructor: none, set, or lost
  reading,    \* whether a read is outstanding
  inbuf,      \* _input_buffer: whole messages
  torn,       \* _input_buffer: the beginning of a message has been dropped
  missed,     \* the messages dropped with the connection left up (history)
  link,       \* the connection, as the server leaves it
  toServer,   \* messages on their way to the server, and in its buffer
  arrived,    \* how many of them are in its buffer
  toClient,   \* messages on their way to the client
  session,    \* the subscriptions of the server's session
  given       \* how many masters the server has given

clientVars == <<calls, outcome, waiting, posts, subReqs, unsubReqs, crossed,
                conn, thread, stop, reading, inbuf, torn, missed>>
serverVars == <<link, toServer, arrived, toClient, session, given>>
vars == <<dbVars, clientVars, serverVars>>

TypeOK ==
  /\ TypeOKDb
  /\ calls \in Seq(Call) /\ Len(calls) <= MaxCalls
  /\ outcome \in [Req -> {"pending", "ok", "no_such", "comm_error"}]
  /\ waiting \in [Caller -> Req \cup {0}]
  /\ posts \in Seq(Req)
  /\ subReqs \in [Var -> SUBSET Req]
  /\ unsubReqs \in [Master -> SUBSET Req]
  /\ crossed \in BOOLEAN
  /\ conn \in {"handshake", "connected", "disconnected", "error", "closing",
               "failing", "closed", "threw", "failed"}
  /\ thread \in {"none", "starting", "running", "exited"}
  /\ stop \in {"none", "set", "lost"}
  /\ reading \in BOOLEAN
  /\ inbuf \in Seq(ToClient)
  /\ torn \in BOOLEAN
  /\ missed \subseteq ToClient
  /\ link \in {"open", "closed", "reset"}
  /\ toServer \in Seq(ToServer)
  /\ arrived \in Nat
  /\ toClient \in Seq(ToClient)
  /\ session \subseteq Entry
  /\ given \in 0..MaxCalls

\* The begin_session message of the client has been sent.
Init ==
  /\ InitDb
  /\ calls = <<>>
  /\ outcome = [n \in Req |-> "pending"]
  /\ waiting = [c \in Caller |-> 0]
  /\ posts = <<>>
  /\ subReqs = [v \in Var |-> {}]
  /\ unsubReqs = [m \in Master |-> {}]
  /\ crossed = FALSE
  /\ conn = "handshake"
  /\ thread = "none"
  /\ stop = "none"
  /\ reading = TRUE
  /\ inbuf = <<>>
  /\ torn = FALSE
  /\ missed = {}
  /\ link = "open"
  /\ toServer = <<>>
  /\ arrived = 0
  /\ toClient = <<[kind |-> "begin"]>>
  /\ session = {}
  /\ given = 0

-----------------------------------------------------------------------------
(* The server. The bound on masters is never met: a subscription request is *)
(* sent for one call at most.                                              *)

Writes(m) == toClient' = Append(toClient, m)

ServerSubscribes(v) ==
  \/ /\ \E e \in session : e.var = v
     /\ Writes([kind |-> "VAR_ALREADY_SUBSCRIBED", var |-> v])
     /\ UNCHANGED <<session, given>>
  \/ /\ \A e \in session : e.var # v
     /\ v \notin KnownVar
     /\ Writes([kind |-> "NO_SUCH_VAR", var |-> v])
     /\ UNCHANGED <<session, given>>
  \/ /\ \A e \in session : e.var # v
     /\ v \in KnownVar
     /\ given < MaxCalls
     /\ given' = given + 1
     /\ session' = session \cup {[var |-> v, master |-> given + 1]}
     /\ Writes([kind |-> "SUBSCRIBED", var |-> v, id |-> given + 1])

ServerUnsubscribes(m) ==
  /\ session' = {e \in session : e.master # m}
  /\ Writes([kind |-> IF \E e \in session : e.master = m THEN "UNSUBSCRIBED"
                      ELSE "NO_SUCH_SUBSCRIPTION", id |-> m])
  /\ UNCHANGED given

\* on_read_request of the server: a read completes with n messages, or with
\* part of one, and the first message in the buffer is handled; the others stay
\* there until a read completes again. The session ends with end_session.
ServerHandles(n) ==
  /\ link = "open"
  /\ arrived + n \in 1..Len(toServer)
  /\ n = 0 => MaySplit /\ arrived < Len(toServer)
  /\ toServer' = Tail(toServer)
  /\ arrived' = arrived + n - 1
  /\ LET m == Head(toServer)
     IN  \/ m.kind = "subscribe" /\ ServerSubscribes(m.var) /\ UNCHANGED link
         \/ m.kind = "unsubscribe" /\ ServerUnsubscribes(m.id) /\ UNCHANGED link
         \/ m.kind = "update" /\ UNCHANGED <<link, toClient, session, given>>
         \/ /\ m.kind = "end"
            /\ link' = "closed"
            /\ session' = {}
            /\ UNCHANGED <<toClient, given>>
  /\ UNCHANGED <<dbVars, clientVars>>

UpdatesFlying == Len(SelectSeq(toClient, LAMBDA m : m.kind = "var_update"))

ServerTells(e) ==
  /\ link = "open"
  /\ e \in session
  /\ UpdatesFlying < MaxUpdates
  /\ Writes([kind |-> "var_update", id |-> e.master])
  /\ UNCHANGED <<dbVars, clientVars, link, toServer, arrived, session, given>>

\* The server stops, or the network fails.
ServerBreaks ==
  /\ MayBreak
  /\ link = "open"
  /\ session' = {}
  /\ \/ link' = "closed" /\ UNCHANGED toClient
     \/ link' = "reset" /\ toClient' = <<>>
  /\ UNCHANGED <<dbVars, clientVars, toServer, arrived, given>>

-----------------------------------------------------------------------------
(* The threads of the application: flight_vars_client.                     *)

Sends(m) == toServer' = IF link = "open" THEN Append(toServer, m) ELSE toServer

Settle(S, how) == outcome' = [n \in Req |-> IF n \in S THEN how ELSE outcome[n]]

\* What was given to the application by subscribe().
Held == {n \in DOMAIN calls : calls[n].op = "subscribe" /\ outcome[n] = "ok"
                              /\ \A c \in Caller : waiting[c] # n}

CallsOf(c) ==
  [op: {"subscribe"}, var: VarsOf[c]]
  \cup [op: {"unsubscribe", "update"}, id: {n \in Held : calls[n].var \in VarsOf[c]}]

\* Mutant: the request posted is the one before.
SubmitPostsThePrevious(c) ==
  /\ conn \in {"connected", "disconnected", "error"}
  /\ stop = "none"
  /\ waiting[c] = 0
  /\ Len(calls) < MaxCalls
  /\ \E k \in CallsOf(c) :
       /\ calls' = Append(calls, k)
       /\ waiting' = [waiting EXCEPT ![c] = Len(calls) + 1]
       /\ posts' = Append(posts, Len(calls))
  /\ UNCHANGED <<dbVars, serverVars, outcome, subReqs, unsubReqs, crossed, conn,
                 thread, stop, reading, inbuf, torn, missed>>

\* Until the destructor begins, also after a disconnection.
Submit(c) ==
  /\ conn \in {"connected", "disconnected", "error"}
  /\ stop = "none"
  /\ waiting[c] = 0
  /\ Len(calls) < MaxCalls
  /\ \E k \in CallsOf(c) :
       /\ calls' = Append(calls, k)
       /\ waiting' = [waiting EXCEPT ![c] = Len(calls) + 1]
       /\ posts' = Append(posts, Len(calls) + 1)
  /\ UNCHANGED <<dbVars, serverVars, outcome, subReqs, unsubReqs, crossed, conn,
                 thread, stop, reading, inbuf, torn, missed>>

\* get_result: the promise is settled, or it is not within the timeout; then
\* the request stays where it is.
GetResult(c) ==
  /\ waiting[c] # 0
  /\ outcome[waiting[c]] # "pending" \/ MayTimeout
  /\ waiting' = [waiting EXCEPT ![c] = 0]
  /\ UNCHANGED <<dbVars, serverVars, calls, outcome, posts, subReqs, unsubReqs,
                 crossed, conn, thread, stop, reading, inbuf, torn, missed>>

-----------------------------------------------------------------------------
(* The thread of the io_service: posted requests.                          *)

\* It runs handlers until it sees that the io_service is stopped.
Running == thread = "running" /\ stop # "set"

\* Mutant: the server is asked whether or not there is an entry already.
OnSubscriptionRequestedAlwaysSent(n, v) ==
  /\ subReqs' = [subReqs EXCEPT ![v] = @ \cup {n}]
  /\ crossed' = (crossed \/ subReqs[v] # {})
  /\ Sends([kind |-> "subscribe", var |-> v])
  /\ UNCHANGED <<dbVars, outcome, unsubReqs>>

OnSubscriptionRequested(n, v) ==
  \/ /\ VariableDefined(v)
     /\ AddVirtual(v, {n})
     /\ Settle({n}, "ok")
     /\ UNCHANGED <<subReqs, unsubReqs, crossed, toServer>>
  \/ /\ ~VariableDefined(v)
     /\ subReqs' = [subReqs EXCEPT ![v] = @ \cup {n}]
     /\ crossed' = (crossed \/ subReqs[v] # {})
     /\ Sends([kind |-> "subscribe", var |-> v])
     /\ UNCHANGED <<dbVars, outcome, unsubReqs>>

\* Mutant: the server is not told of the last unsubscription.
OnUnsubscriptionRequestedUnsent(n, i) ==
  \/ /\ ~VirtualDefined(i)
     /\ Settle({n}, "no_such")
     /\ UNCHANGED <<dbVars, subReqs, unsubReqs, crossed, toServer>>
  \/ /\ RemoveVirtual(i)
     /\ IF IsLast(i)
        THEN unsubReqs' = [unsubReqs EXCEPT ![MasterOf(i)] = @ \cup {n}] /\ UNCHANGED outcome
        ELSE Settle({n}, "ok") /\ UNCHANGED unsubReqs
     /\ UNCHANGED <<subReqs, crossed, toServer>>

OnUnsubscriptionRequested(n, i) ==
  \/ /\ ~VirtualDefined(i)
     /\ Settle({n}, "no_such")
     /\ UNCHANGED <<dbVars, subReqs, unsubReqs, crossed, toServer>>
  \/ /\ RemoveVirtual(i)
     /\ IF IsLast(i)
        THEN /\ unsubReqs' = [unsubReqs EXCEPT ![MasterOf(i)] = @ \cup {n}]
             /\ Sends([kind |-> "unsubscribe", id |-> MasterOf(i)])
             /\ UNCHANGED outcome
        ELSE /\ Settle({n}, "ok")
             /\ UNCHANGED <<unsubReqs, toServer>>
     /\ UNCHANGED <<subReqs, crossed>>

OnVariableUpdateRequested(n, i) ==
  /\ \/ /\ VirtualDefined(i)
        /\ Sends([kind |-> "update", id |-> MasterOf(i)])
        /\ Settle({n}, "ok")
     \/ /\ ~VirtualDefined(i)
        /\ Settle({n}, "no_such")
        /\ UNCHANGED toServer
  /\ UNCHANGED <<dbVars, subReqs, unsubReqs, crossed>>

\* In close() the posts left are run by the destructor.
RunPost ==
  /\ Running \/ conn \in {"closing", "failing"}
  /\ posts # <<>>
  /\ posts' = Tail(posts)
  /\ LET n == Head(posts)
     IN  \/ calls[n].op = "subscribe" /\ OnSubscriptionRequested(n, calls[n].var)
         \/ calls[n].op = "unsubscribe" /\ OnUnsubscriptionRequested(n, calls[n].id)
         \/ calls[n].op = "update" /\ OnVariableUpdateRequested(n, calls[n].id)
  /\ UNCHANGED <<calls, waiting, conn, thread, stop, reading, inbuf, torn,
                 missed, link, arrived, toClient, session, given>>

-----------------------------------------------------------------------------
(* The thread of the io_service: messages of the server.                   *)

\* A read completes with n messages, and with part of the next one when h.
Receives(n, h) ==
  /\ reading
  /\ n <= Len(toClient)
  /\ h => MaySplit /\ n < Len(toClient)
  /\ n = 0 => h
  /\ toClient' = SubSeq(toClient, n + 1, Len(toClient))

Received(n) == inbuf \o SubSeq(toClient, 1, n)

\* Mutant: the requests leave the pool and get no error.
DisconnectsUnsettled(pending) ==
  /\ UNCHANGED outcome
  /\ subReqs' = [v \in Var |-> {}]
  /\ unsubReqs' = [m \in Master |-> {}]
  /\ conn' = IF conn = "connected" THEN "error" ELSE conn
  /\ reading' = FALSE

\* on_error with disconnection: the requests of the pool fail, not those that
\* are still posted.
Disconnects(pending) ==
  /\ Settle(pending, "comm_error")
  /\ subReqs' = [v \in Var |-> {}]
  /\ unsubReqs' = [m \in Master |-> {}]
  /\ conn' = IF conn = "connected" THEN "error" ELSE conn
  /\ reading' = FALSE

InPool ==
  (UNION {subReqs[v] : v \in Var}) \cup (UNION {unsubReqs[m] : m \in Master})

ReadsOn == reading' = TRUE /\ UNCHANGED conn

\* Mutant: the requests are answered and stay in the pool.
OnSubscriptionReplyKeepsRequests(m) ==
  LET S == subReqs[m.var]
  IN  \/ /\ S = {}
         /\ Disconnects(InPool)
         /\ UNCHANGED dbVars
      \/ /\ m.kind = "NO_SUCH_VAR"
         /\ S # {}
         /\ Settle(S, "no_such")
         /\ ReadsOn
         /\ UNCHANGED <<dbVars, subReqs, unsubReqs>>
      \/ /\ m.kind = "SUBSCRIBED"
         /\ S # {}
         /\ IF VariableDefined(m.var) THEN AddVirtual(m.var, S)
            ELSE CreateEntry(m.var, m.id, S)
         /\ Settle(S, "ok")
         /\ ReadsOn
         /\ UNCHANGED <<subReqs, unsubReqs>>

\* Pops every request for the variable; those popped before an exception get
\* no answer.
OnSubscriptionReplyReceived(m) ==
  LET S == subReqs[m.var]
  IN  \/ /\ S = {} \/ m.kind = "VAR_ALREADY_SUBSCRIBED"
         /\ Disconnects(InPool \ S)
         /\ UNCHANGED dbVars
      \/ /\ m.kind = "NO_SUCH_VAR"
         /\ S # {}
         /\ Settle(S, "no_such")
         /\ subReqs' = [subReqs EXCEPT ![m.var] = {}]
         /\ ReadsOn
         /\ UNCHANGED <<dbVars, unsubReqs>>
      \/ /\ m.kind = "SUBSCRIBED"
         /\ S # {}
         /\ \/ VariableDefined(m.var) /\ AddVirtual(m.var, S)
            \/ CreateEntry(m.var, m.id, S)
         /\ Settle(S, "ok")
         /\ subReqs' = [subReqs EXCEPT ![m.var] = {}]
         /\ ReadsOn
         /\ UNCHANGED unsubReqs
      \/ /\ m.kind = "SUBSCRIBED"
         /\ S # {}
         /\ ~VariableDefined(m.var)
         /\ MasterDefined(m.id)
         /\ Disconnects(InPool \ S)
         /\ UNCHANGED dbVars

OnUnsubscriptionReplyReceived(m) ==
  LET S == unsubReqs[m.id]
  IN  /\ UNCHANGED dbVars
      /\ \/ /\ S = {}
            /\ Disconnects(InPool)
         \/ /\ S # {}
            /\ Settle(S, IF m.kind = "UNSUBSCRIBED" THEN "ok" ELSE "no_such")
            /\ unsubReqs' = [unsubReqs EXCEPT ![m.id] = {}]
            /\ ReadsOn
            /\ UNCHANGED subReqs

\* invoke_handlers, or the error handler for an unknown master.
OnVariableUpdateReceived ==
  ReadsOn /\ UNCHANGED <<dbVars, outcome, subReqs, unsubReqs>>

\* One message is deserialized, however many have been received.
OnMessageReceived(n, h) ==
  /\ Running
  /\ ~torn
  /\ Receives(n, h)
  /\ Received(n) # <<>>
  /\ inbuf' = Tail(Received(n))
  /\ LET m == Head(Received(n))
     IN  \/ /\ m.kind \in {"SUBSCRIBED", "NO_SUCH_VAR", "VAR_ALREADY_SUBSCRIBED"}
            /\ OnSubscriptionReplyReceived(m)
         \/ /\ m.kind \in {"UNSUBSCRIBED", "NO_SUCH_SUBSCRIPTION"}
            /\ OnUnsubscriptionReplyReceived(m)
         \/ /\ m.kind = "var_update"
            /\ OnVariableUpdateReceived
  /\ UNCHANGED <<calls, waiting, posts, crossed, thread, stop, torn, missed,
                 link, toServer, arrived, session, given>>

\* Part of a message: what has been deserialized of it is gone, since there is
\* no mark to reset() to.
OnPartialMessageReceived ==
  /\ Running
  /\ ~torn
  /\ Receives(0, TRUE)
  /\ inbuf = <<>>
  /\ torn' = TRUE
  /\ UNCHANGED <<dbVars, calls, outcome, waiting, posts, subReqs, unsubReqs,
                 crossed, conn, thread, stop, reading, inbuf, missed, link,
                 toServer, arrived, session, given>>

\* The rest of a message, with n messages in all that end, is taken for another
\* one. It does not begin with the type of one, and the connection is given up.
\* Or it is too short, such as the one byte that the end mark may leave: it is
\* dropped, and the client reads on. That it reads as a whole message is left
\* out.
OnGarbageReceived(n, h) ==
  /\ Running
  /\ torn
  /\ n > 0
  /\ \/ /\ reading
        /\ n <= Len(toClient)
        /\ Disconnects(InPool)
        /\ UNCHANGED <<torn, missed, toClient>>
     \/ /\ Receives(n, h)
        /\ torn' = h
        /\ missed' = missed \cup {toClient[i] : i \in 1..n}
        /\ ReadsOn
        /\ UNCHANGED <<outcome, subReqs, unsubReqs>>
  /\ UNCHANGED <<dbVars, calls, waiting, posts, crossed, thread, stop, inbuf,
                 link, toServer, arrived, session, given>>

\* The requests of the pool fail when the connection is reset, not when it is
\* closed.
OnReadError ==
  /\ Running
  /\ reading
  /\ link # "open"
  /\ toClient = <<>>
  /\ \/ /\ link = "closed"
        /\ conn' = IF conn = "connected" THEN "disconnected" ELSE conn
        /\ reading' = FALSE
        /\ UNCHANGED <<outcome, subReqs, unsubReqs>>
     \/ /\ link = "reset"
        /\ Disconnects(InPool)
  /\ UNCHANGED <<dbVars, calls, waiting, posts, crossed, thread, stop, inbuf,
                 torn, missed, serverVars>>

\* The thread begins with reset(), which undoes a stop() that came before.
ThreadStarts ==
  /\ thread = "starting"
  /\ thread' = "running"
  /\ stop' = IF stop = "set" THEN "lost" ELSE stop
  /\ UNCHANGED <<dbVars, serverVars, calls, outcome, waiting, posts, subReqs,
                 unsubReqs, crossed, conn, reading, inbuf, torn, missed>>

\* run() returns when it is stopped, or there is neither a read nor a post left.
ThreadExits ==
  /\ thread = "running"
  /\ stop = "set" \/ (posts = <<>> /\ ~reading)
  /\ thread' = "exited"
  /\ UNCHANGED <<dbVars, serverVars, calls, outcome, waiting, posts, subReqs,
                 unsubReqs, crossed, conn, stop, reading, inbuf, torn, missed>>

-----------------------------------------------------------------------------
(* The constructor and the destructor of connection_manager.               *)

\* begin_session: the constructor goes on and starts the thread.
Greeted(n) ==
  /\ Received(n) # <<>>
  /\ Head(Received(n)).kind = "begin"
  /\ inbuf' = Tail(Received(n))
  /\ conn' = "connected"
  /\ thread' = "starting"

\* handshake(): part of a message is taken for a closed connection.
Handshake(n, h) ==
  /\ conn = "handshake"
  /\ Receives(n, h)
  /\ \/ Greeted(n) /\ UNCHANGED reading
     \/ /\ Received(n) = <<>>
        /\ conn' = "failed"
        /\ reading' = FALSE
        /\ UNCHANGED <<inbuf, thread>>
  /\ UNCHANGED <<dbVars, calls, outcome, waiting, posts, subReqs, unsubReqs,
                 crossed, stop, torn, missed, link, toServer, arrived, session,
                 given>>

HandshakeFails ==
  /\ conn = "handshake"
  /\ link # "open"
  /\ toClient = <<>>
  /\ conn' = "failed"
  /\ reading' = FALSE
  /\ UNCHANGED <<dbVars, serverVars, calls, outcome, waiting, posts, subReqs,
                 unsubReqs, crossed, thread, stop, inbuf, torn, missed>>

\* The application destroys the client when it is in no call.
Stop ==
  /\ stop = "none"
  /\ conn \in {"connected", "disconnected", "error"}
  /\ \A c \in Caller : waiting[c] = 0
  /\ stop' = "set"
  /\ UNCHANGED <<dbVars, serverVars, calls, outcome, waiting, posts, subReqs,
                 unsubReqs, crossed, conn, thread, reading, inbuf, torn, missed>>

\* The thread is joined, and end_session is sent on a connection that is up for
\* all the client knows: a write may fail when the server has left.
Join ==
  /\ stop # "none"
  /\ thread = "exited"
  /\ \/ /\ conn = "connected"
        /\ conn' \in IF link = "open" THEN {"closing"} ELSE {"closing", "failing"}
        /\ Sends([kind |-> "end"])
     \/ /\ conn \in {"disconnected", "error"}
        /\ conn' = "closed"
        /\ UNCHANGED toServer
  /\ UNCHANGED <<dbVars, calls, outcome, waiting, posts, subReqs, unsubReqs,
                 crossed, thread, stop, reading, inbuf, torn, missed, link,
                 arrived, toClient, session, given>>

\* Mutant: the residual handler reads again.
ResidualReadAgain ==
  /\ conn \in {"closing", "failing"}
  /\ reading
  /\ toClient # <<>> \/ link # "open"
  /\ UNCHANGED vars

\* close() runs the io_service: a residual on_message_received does nothing.
ResidualRead ==
  /\ conn \in {"closing", "failing"}
  /\ reading
  /\ toClient # <<>> \/ link # "open"
  /\ reading' = FALSE
  /\ UNCHANGED <<dbVars, serverVars, calls, outcome, waiting, posts, subReqs,
                 unsubReqs, crossed, conn, thread, stop, inbuf, torn, missed>>

\* When nothing is left to run, close() returns, or throws out of the
\* destructor the error of its write.
Closed ==
  /\ ~reading
  /\ posts = <<>>
  /\ \/ conn = "closing" /\ conn' = "closed"
     \/ conn = "closing" /\ link = "reset" /\ conn' = "threw"
     \/ conn = "failing" /\ conn' = "threw"
  /\ UNCHANGED <<dbVars, serverVars, calls, outcome, waiting, posts, subReqs,
                 unsubReqs, crossed, thread, stop, reading, inbuf, torn, missed>>

-----------------------------------------------------------------------------
ServerReads == \E n \in 0..MaxBurst : ServerHandles(n)
ReadMessage == \E n \in 0..MaxBurst, h \in BOOLEAN : OnMessageReceived(n, h)
ReadGarbage == \E n \in 0..MaxBurst, h \in BOOLEAN : OnGarbageReceived(n, h)
ReadGreeting == \E n \in 0..MaxBurst, h \in BOOLEAN : Handshake(n, h)

Next ==
  \/ ServerReads
  \/ \E e \in session : ServerTells(e)
  \/ ServerBreaks
  \/ \E c \in Caller : Submit(c) \/ GetResult(c)
  \/ RunPost
  \/ ReadMessage
  \/ OnPartialMessageReceived
  \/ ReadGarbage
  \/ OnReadError
  \/ ThreadStarts
  \/ ThreadExits
  \/ ReadGreeting
  \/ HandshakeFails
  \/ Stop
  \/ Join
  \/ ResidualRead
  \/ Closed

Spec == Init /\ [][Next]_vars

\* The threads of the client and of the server run, TCP delivers, and a thread
\* of the application whose promise is settled wakes up. A server that has read
\* all that was sent waits for more. Nothing is asked of the application, of
\* the updates, or of failures.
Fairness ==
  /\ WF_vars(ServerReads)
  /\ WF_vars(RunPost)
  /\ WF_vars(ReadMessage)
  /\ WF_vars(ReadGarbage)
  /\ WF_vars(OnReadError)
  /\ WF_vars(ThreadStarts)
  /\ WF_vars(ThreadExits)
  /\ WF_vars(ReadGreeting)
  /\ WF_vars(Join)
  /\ WF_vars(ResidualRead)
  /\ WF_vars(Closed)
  /\ \A c \in Caller :
       WF_vars(waiting[c] # 0 /\ outcome[waiting[c]] # "pending" /\ GetResult(c))

FairSpec == Spec /\ Fairness

-----------------------------------------------------------------------------
(* Properties.                                                             *)

Coming == LET s == inbuf \o toClient IN {s[i] : i \in DOMAIN s}
Going == {toServer[i] : i \in DOMAIN toServer}

\* What the server has written and the client has not handled: the messages on
\* their way, and those the client has dropped.
Told == Coming \cup missed

IsReplyFor(m, v) ==
  m.kind \in {"SUBSCRIBED", "NO_SUCH_VAR", "VAR_ALREADY_SUBSCRIBED"} /\ m.var = v
Dropped(i) == [kind |-> "UNSUBSCRIBED", id |-> i]

\* A request of the pool is settled by a message of the server, which answers
\* one of the client. As long as the session lasts, either is on its way, but
\* for an answer that the client has dropped.
AnswerComing ==
  conn = "connected" /\ link = "open" =>
    /\ \A v \in Var : subReqs[v] # {} =>
         [kind |-> "subscribe", var |-> v] \in Going \/ \E m \in Told : IsReplyFor(m, v)
    /\ \A i \in Master : unsubReqs[i] # {} =>
         [kind |-> "unsubscribe", id |-> i] \in Going \/ Dropped(i) \in Told

\* A promise that is not settled is held by a post or by the pool. It is lost
\* when a request is popped before an exception is thrown, and its call returns
\* by timeout only: that befalls subscriptions to one variable that were sent
\* while another had no answer, once, with the end of the connection.
ForgottenWhenRefused ==
  LET forgotten == {n \in DOMAIN calls :
                      /\ outcome[n] = "pending"
                      /\ n \notin InPool
                      /\ \A i \in DOMAIN posts : posts[i] # n}
  IN  forgotten # {} =>
        /\ crossed
        /\ ~reading /\ conn \notin {"handshake", "connected"}
        /\ \E v \in Var : \A n \in forgotten :
             calls[n].op = "subscribe" /\ calls[n].var = v

\* The client and the server agree on the subscriptions of the session, but
\* for those a message is telling the other side of, or has told a client that
\* dropped it.
SessionAgrees ==
  conn = "connected" /\ link = "open" =>
    /\ byMaster \subseteq session
    /\ \A e \in session \ byMaster :
         \/ [kind |-> "SUBSCRIBED", var |-> e.var, id |-> e.master] \in Told
         \/ [kind |-> "unsubscribe", id |-> e.master] \in Going

\* The handler of a subscription is not called once its unsubscribe() has
\* returned, whatever updates are on their way.
NoHandlerAfterUnsubscribe ==
  \A n \in DOMAIN calls :
    calls[n].op = "unsubscribe" /\ outcome[n] = "ok" =>
      \A m \in Master : calls[n].id \notin HandlersOf(m)

\* A promise is settled once: a second time throws in the thread of the
\* client, where it is not caught.
SettledOnce ==
  [][\A n \in Req : outcome'[n] # outcome[n] => outcome[n] = "pending"]_vars

\* The client gives up a connection that the server keeps for two reasons only:
\* the rest of a message it has dropped the beginning of, and a subscription
\* sent while another to the same variable had no answer. Timeouts, coalesced
\* messages and dropped answers alone never end it.
ConnectionOutlivesRequests == conn = "error" => link # "open" \/ torn \/ crossed

\* What subscription_db promises, that several virtual subscriptions may have
\* one master: no subscription of the application ends a connection that the
\* server keeps.
SharedVariablesWork == conn = "error" => link # "open"

\* The server has read all that was sent, and has not handled it.
ServerStalled == toServer # <<>> /\ arrived = Len(toServer)

\* Likewise for the client.
ClientStalled == inbuf # <<>> /\ toClient = <<>>

AnswerDropped(n) ==
  \/ \E v \in Var : n \in subReqs[v] /\ \E m \in missed : IsReplyFor(m, v)
  \/ \E i \in Master : n \in unsubReqs[i] /\ Dropped(i) \in missed

\* Every call of the application returns without the help of the timeout,
\* unless the connection ends, its answer is dropped, or one of both sides
\* waits for ever for more bytes with a message before it.
CallsReturn ==
  \A c \in Caller :
    waiting[c] # 0 ~>
      \/ waiting[c] = 0
      \/ [](\/ conn # "connected" \/ AnswerDropped(waiting[c])
           \/ ServerStalled \/ ClientStalled)

\* The destructor ends, be it with an exception, unless the thread has undone
\* its stop() and the server keeps the connection, or the server waits for more
\* bytes with the end of the session unread.
DestroyEnds ==
  stop # "none" ~>
    \/ conn \in {"closed", "threw"}
    \/ [](link = "open" /\ (stop = "lost" \/ ServerStalled))
=============================================================================
