----------------------- MODULE UpdateObserver_proofs ------------------------
(***************************************************************************)
(* Proofs about UpdateObserver, for any set of offsets, any values and any *)
(* room in the buffer of FSUIPC: of what a query reads when the ticks run  *)
(* on the network thread, and of the cache whichever way the two threads   *)
(* interleave.                                                             *)
(***************************************************************************)
EXTENDS UpdateObserver, TLAPS

\* The stages of an operation: of its requests are in the buffer, and a query
\* has all of its own there.
Asking == {"reading", "processing", "sending", "answered", "refused"}
Asked == {"processing", "sending", "answered", "refused", "copying", "evaluating"}

Operation ==
  [name : {"idle", "reading"} \cup Asked, set : SUBSET Offset]

\* f is a function on S; what its values are is of no matter here.
On(f, S) == f = [x \in S |-> f[x]]

TypeInv ==
  /\ offsets \subseteq Offset
  /\ next \in 1..Room /\ On(view, 1..Room)
  /\ op \in [Caller -> Operation]
  /\ at \in [Caller -> 1..Room]
  /\ On(list, Caller) /\ On(values, Offset) /\ On(told, Offset)
  /\ \A t \in Caller : DOMAIN list[t] \subseteq Offset
  /\ \A t \in Caller : op[t] = Idle => DOMAIN list[t] = {}
  /\ \A t \in Caller : op[t].name = "idle" => op[t] = Idle

-----------------------------------------------------------------------------
\* The buffer, when ticks are posted: it is of the one operation in progress.

IsRead(r, o, t) == r = [kind |-> "read", offset |-> o, of |-> t, data |-> r.data]

\* Slot i is a request; a read is into the list of t.
Own(i, t) ==
  /\ view[i].kind # "none"
  /\ view[i].kind = "read" => \E o \in DOMAIN list[t] : IsRead(view[i], o, t)

\* A value FSUIPC_Process has copied is the answer in a slot for it.
HasAnswer(o, t) ==
  /\ list[t][o].put
  /\ \E i \in 1..Room :
       view[i] = [kind |-> "read", offset |-> o, of |-> t,
                  data |-> list[t][o].value]

\* The requests of t fill the buffer, its reads are all there.
Queued(t) ==
  /\ \A i \in 1..(next - 1) : Own(i, t)
  /\ \A o \in DOMAIN list[t] : \E i \in 1..(next - 1) : IsRead(view[i], o, t)

\* FSUIPC_Process looks at a slot before the terminator, or at it; each value
\* has been copied or its slot is to come.
Copied(t) ==
  /\ at[t] = next
  /\ \A i \in 1..(next - 1) : Own(i, t)
  /\ \E e \in next..Room :
       /\ view[e] = Zeros
       /\ \A i \in next..(e - 1) : Own(i, t)
       /\ \A o \in DOMAIN list[t] :
            HasAnswer(o, t) \/ \E i \in next..(e - 1) : IsRead(view[i], o, t)

\* What the buffer holds, by the stage of the operation.
Stage(t) ==
  /\ op[t].name \in Asking => Queued(t)
  /\ op[t].name = "reading" => \A i \in 1..(next - 1) : view[i].kind = "read"
  /\ op[t].name \in {"sending", "answered", "refused"} => view[next] = Zeros
  /\ op[t].name = "copying" => Copied(t)
  /\ op[t].name = "evaluating" =>
       next = 1 /\ \A o \in DOMAIN list[t] : HasAnswer(o, t)

BufferInv ==
  /\ \A t, u \in Caller : op[t] # Idle /\ op[u] # Idle => t = u
  /\ (\A t \in Caller : op[t] = Idle) => next = 1
  /\ \A t \in Caller : Stage(t)

-----------------------------------------------------------------------------
\* start_observing reads its own offset, which a welcome waits for unless a
\* check ran meanwhile.
OwnOffset == DOMAIN list[net] \subseteq op[net].set
OwnIsWelcome ==
  op[net].set \subseteq IF op[tick] = Idle THEN welcomes \cup raced ELSE raced

\* A check whose query is complete has each offset still to be compared, or
\* has told of its value.
CheckIsComplete ==
  op[tick].name \in Asked =>
    \A o \in offsets \ raced :
      o \in DOMAIN list[tick] \/ values[o] = NoValue \/ told[o] = values[o]

\* The first part is inductive and gives RequestsAreLive and ValuesAreAnswers;
\* CacheIsTold needs the others for the end of a check, which clears the
\* welcomes, and for the cache start_observing fills. Nothing in them depends
\* on what the buffer holds.
RequestsInv == TypeInv /\ (posted => BufferInv)
CacheInv == OwnOffset /\ OwnIsWelcome /\ CheckIsComplete /\ CacheIsTold
ObserverInv == RequestsInv /\ CacheInv

LEMMA InitInv == Init => ObserverInv
  <1> SUFFICES ASSUME Init PROVE ObserverInv
    OBVIOUS
  <1>1. /\ offsets = {} /\ next = 1 /\ 1 \in 1..Room
        /\ view = [i \in 1..Room |-> Zeros]
        /\ op = [t \in Caller |-> Idle]
        /\ at = [t \in Caller |-> 1]
        /\ list = [t \in Caller |-> << >>]
        /\ values = [o \in Offset |-> NoValue]
        /\ told = [o \in Offset |-> NoValue]
    BY FsuipcUserAssumption DEF Init, FsuipcInit
  <1>2. TypeInv
    BY <1>1 DEF TypeInv, On, Idle, Operation
  <1>3. BufferInv
    BY <1>1 DEF BufferInv, Stage, Idle, Asking
  <1>4. CacheInv
    BY <1>1 DEF CacheInv, OwnOffset, OwnIsWelcome, CheckIsComplete, CacheIsTold,
                Idle, Caller, Asked
  <1> QED BY <1>2, <1>3, <1>4 DEF ObserverInv, RequestsInv

-----------------------------------------------------------------------------
\* The requests.

\* A function on S with one value replaced.
LEMMA Replaced ==
  ASSUME NEW S, NEW f, On(f, S), NEW k \in S, NEW v, NEW g, g = [f EXCEPT ![k] = v]
  PROVE  On(g, S) /\ g[k] = v /\ \A i \in S \ {k} : g[i] = f[i]
  BY DEF On

LEMMA ReadFields ==
  ASSUME NEW r, NEW o, NEW t, IsRead(r, o, t)
  PROVE  r.kind = "read" /\ r.offset = o /\ r.of = t
  <1> DEFINE q == [kind |-> "read", offset |-> o, of |-> t, data |-> r.data]
  <1>1. r = q
    BY DEF IsRead
  <1>2. q.kind = "read" /\ q.offset = o /\ q.of = t
    OBVIOUS
  <1> HIDE DEF q
  <1> QED BY <1>1, <1>2

LEMMA AnsweredRead ==
  ASSUME NEW r, NEW o, NEW t, NEW d, IsRead(r, o, t)
  PROVE  IsRead([r EXCEPT !.data = d], o, t)
  <1> DEFINE q(c) == [kind |-> "read", offset |-> o, of |-> t, data |-> c]
  <1>1. r = q(r.data)
    BY DEF IsRead
  <1>2. \A c : [q(c) EXCEPT !.data = d] = q(d)
    OBVIOUS
  <1>3. [r EXCEPT !.data = d] = q(d) /\ q(d).data = d
    BY <1>1, <1>2
  <1> QED BY <1>3 DEF IsRead

LEMMA OwnRead ==
  ASSUME NEW i, NEW t, Own(i, t), view[i].kind = "read"
  PROVE  view[i].of = t /\ view[i].offset \in DOMAIN list[t]
  BY ReadFields DEF Own

\* With one operation at a time, only the stage of its thread matters.
LEMMA LoneStage ==
  ASSUME NEW t \in Caller,
         \A u \in Caller \ {t} : op'[u] = Idle,
         op'[t] = Idle => next' = 1,
         Stage(t)'
  PROVE  BufferInv'
  <1>1. \A u \in Caller \ {t} : Stage(u)'
    BY DEF Stage, Idle, Asking
  <1> QED BY <1>1 DEF BufferInv

LEMMA Others ==
  ASSUME RequestsInv, posted, NEW t \in Caller, op[t] # Idle
  PROVE  /\ Stage(t)
         /\ \A u \in Caller \ {t} : op[u] = Idle
  BY DEF RequestsInv, BufferInv

LEMMA StartRequests ==
  ASSUME RequestsInv, UNCHANGED posted, NEW o \in Offset, start_observing(o)
  PROVE  RequestsInv'
  <1>1. /\ op[net] = Idle
        /\ posted => \A u \in Caller : op[u] = Idle
        /\ op' = [op EXCEPT ![net] = [name |-> "reading", set |-> {o}]]
        /\ told' = [told EXCEPT ![o] = IF o \in offsets THEN @ ELSE NoValue]
        /\ offsets' = offsets \cup {o}
        /\ UNCHANGED <<values, list, at, view, next>>
    BY DEF start_observing, fsuipcVars, Free
  <1>2. op' \in [Caller -> Operation]
    BY <1>1 DEF RequestsInv, TypeInv, Operation
  <1>3. TypeInv'
    BY <1>1, <1>2 DEF RequestsInv, TypeInv, On
  <1>4. ASSUME posted PROVE BufferInv'
    <2>1. next = 1 /\ next' = 1 /\ DOMAIN list'[net] = {}
      BY <1>1, <1>4 DEF RequestsInv, TypeInv, BufferInv, Caller
    <2>2. /\ op'[net].name = "reading" /\ op'[net] # Idle
          /\ \A u \in Caller \ {net} : op'[u] = Idle
      BY <1>1, <1>4 DEF RequestsInv, TypeInv, Idle, Caller
    <2>3. Stage(net)'
      BY <2>1, <2>2 DEF Stage, Queued
    <2> QED BY <2>2, <2>3, LoneStage DEF Caller
  <1> QED BY <1>3, <1>4 DEF RequestsInv

LEMMA UpdateRequests ==
  ASSUME RequestsInv, UNCHANGED posted, NEW o \in Offset, NEW v \in Value, update(o, v)
  PROVE  RequestsInv'
  <1> DEFINE r == [kind |-> "write", offset |-> o, data |-> v]
  <1>1. /\ next < Room /\ next' = next + 1
        /\ view' = [view EXCEPT ![next] = r]
        /\ op[net] = Idle
        /\ posted => \A u \in Caller : op[u] = Idle
        /\ op' = [op EXCEPT ![net] = [name |-> "processing", set |-> {}]]
        /\ UNCHANGED <<observerVars, historyVars, list, at>>
    BY DEF update, FSUIPC_Write, Queue, Free
  <1>2. TypeInv'
    <2>1. next' \in 1..Room
      BY <1>1, FsuipcUserAssumption DEF RequestsInv, TypeInv
    <2>2. On(view', 1..Room)
      BY <1>1, Replaced DEF RequestsInv, TypeInv
    <2>3. op' \in [Caller -> Operation]
      BY <1>1 DEF RequestsInv, TypeInv, Operation, Asked
    <2> QED
      BY <1>1, <2>1, <2>2, <2>3
      DEF RequestsInv, TypeInv, observerVars, historyVars, Idle
  <1>3. ASSUME posted PROVE BufferInv'
    <2>1. next = 1 /\ next' = 2 /\ DOMAIN list'[net] = {}
      BY <1>1, <1>3 DEF RequestsInv, TypeInv, BufferInv, Caller
    <2>2. /\ op'[net].name = "processing" /\ op'[net] # Idle
          /\ \A u \in Caller \ {net} : op'[u] = Idle
      BY <1>1, <1>3 DEF RequestsInv, TypeInv, Idle, Caller
    <2>3. view'[1] = r
      BY <1>1, <2>1 DEF RequestsInv, TypeInv, On
    <2>4. Stage(net)'
      BY <2>1, <2>2, <2>3 DEF Stage, Queued, Own
    <2> QED BY <2>2, <2>4, LoneStage DEF Caller
  <1> QED BY <1>2, <1>3 DEF RequestsInv

LEMMA CheckRequests ==
  ASSUME RequestsInv, UNCHANGED posted, check_for_updates
  PROVE  RequestsInv'
  <1>1. /\ op[tick] = Idle
        /\ posted => \A u \in Caller : op[u] = Idle
        /\ op' = [op EXCEPT ![tick] = [name |-> "reading", set |-> {}]]
        /\ UNCHANGED <<told, observerVars, list, at, view, next>>
    BY DEF check_for_updates, fsuipcVars, Free
  <1>2. TypeInv'
    BY <1>1 DEF RequestsInv, TypeInv, observerVars, Operation, Caller, On, Idle
  <1>3. ASSUME posted PROVE BufferInv'
    <2>1. next = 1 /\ next' = 1 /\ DOMAIN list'[tick] = {}
      BY <1>1, <1>3 DEF RequestsInv, TypeInv, BufferInv, Caller
    <2>2. /\ op'[tick].name = "reading" /\ op'[tick] # Idle
          /\ \A u \in Caller \ {tick} : op'[u] = Idle
      BY <1>1, <1>3 DEF RequestsInv, TypeInv, Idle, Caller
    <2>3. Stage(tick)'
      BY <2>1, <2>2 DEF Stage, Queued
    <2> QED BY <2>2, <2>3, LoneStage DEF Caller
  <1> QED BY <1>2, <1>3 DEF RequestsInv

LEMMA QueryReadRequests ==
  ASSUME RequestsInv, UNCHANGED posted, NEW t \in Caller, QueryRead(t)
  PROVE  RequestsInv'
  <1>0. Queried(t) \subseteq Offset
    BY DEF Queried, RequestsInv, TypeInv, Operation
  <1>1. PICK o \in Queried(t) \ DOMAIN list[t] :
          /\ FSUIPC_Read(o, t)
          /\ list' = [list EXCEPT ![t] =
               [x \in DOMAIN @ \cup {o} |->
                  IF x = o THEN [value |-> 0, put |-> FALSE] ELSE @[x]]]
    BY DEF QueryRead
  <1> DEFINE r == [kind |-> "read", offset |-> o, of |-> t, data |-> 0]
  <1>2. /\ next < Room /\ next' = next + 1
        /\ view' = [view EXCEPT ![next] = r]
        /\ op[t].name = "reading"
        /\ UNCHANGED <<observerVars, historyVars, op, at>>
    BY <1>1 DEF QueryRead, FSUIPC_Read, Queue
  <1>3. /\ On(list', Caller)
        /\ DOMAIN list'[t] = {o} \cup DOMAIN list[t]
        /\ \A u \in Caller : u # t => list'[u] = list[u]
    BY <1>1 DEF RequestsInv, TypeInv, On
  <1>4. /\ next' \in 1..Room /\ On(view', 1..Room)
        /\ view'[next] = r
        /\ \A i \in 1..(next - 1) : view'[i] = view[i]
        /\ next \in Nat
    <2>1. /\ next \in Nat /\ next \in 1..Room /\ next' \in 1..Room
          /\ 1..(next - 1) \subseteq 1..Room \ {next}
      BY <1>2, FsuipcUserAssumption DEF RequestsInv, TypeInv
    <2>2. On(view, 1..Room)
      BY DEF RequestsInv, TypeInv
    <2> HIDE DEF r
    <2>3. On(view', 1..Room)
      BY <1>2, <2>1, <2>2, Replaced
    <2>4. view'[next] = r
      BY <1>2, <2>1, <2>2 DEF On
    <2>5. \A i \in 1..Room \ {next} : view'[i] = view[i]
      BY <1>2, <2>1, <2>2, Replaced
    <2> QED BY <2>1, <2>3, <2>4, <2>5
  <1>5. TypeInv'
    <2>1. op[t] # Idle
      BY <1>2 DEF Idle
    <2> HIDE DEF r
    <2> QED
      BY <1>0, <1>2, <1>3, <1>4, <2>1
      DEF RequestsInv, TypeInv, observerVars, historyVars
  <1>6. ASSUME posted PROVE BufferInv'
    <2>1. /\ op[t] # Idle
          /\ \A u \in Caller \ {t} : op'[u] = Idle
          /\ Stage(t)
      BY <1>2, <1>6, Others DEF Idle
    <2>2. Queued(t) /\ \A i \in 1..(next - 1) : view[i].kind = "read"
      BY <1>2, <2>1 DEF Stage, Asking
    <2>3. IsRead(r, o, t) /\ r.kind = "read"
      BY DEF IsRead
    <2>4. \A i \in 1..(next' - 1) : i = next \/ i \in 1..(next - 1)
      BY <1>2, <1>4
    <2>5. \A i \in 1..(next' - 1) : Own(i, t)' /\ view'[i].kind = "read"
      <3> SUFFICES ASSUME NEW i \in 1..(next' - 1)
                   PROVE  Own(i, t)' /\ view'[i].kind = "read"
        OBVIOUS
      <3>1. CASE i = next
        BY <1>3, <1>4, <2>3, <3>1 DEF Own
      <3>2. CASE i \in 1..(next - 1)
        BY <1>3, <1>4, <2>2, <3>2 DEF Own, Queued
      <3> QED BY <2>4, <3>1, <3>2
    <2>6. \A x \in DOMAIN list'[t] : \E i \in 1..(next' - 1) : IsRead(view'[i], x, t)
      <3> SUFFICES ASSUME NEW x \in DOMAIN list'[t]
                   PROVE  \E i \in 1..(next' - 1) : IsRead(view'[i], x, t)
        OBVIOUS
      <3>0. next \in 1..(next' - 1) /\ 1..(next - 1) \subseteq 1..(next' - 1)
        BY <1>2, <1>4 DEF RequestsInv, TypeInv
      <3>1. CASE x = o
        BY <1>4, <2>3, <3>0, <3>1
      <3>2. CASE x \in DOMAIN list[t]
        <4>1. PICK i \in 1..(next - 1) : IsRead(view[i], x, t)
          BY <2>2, <3>2 DEF Queued
        <4> QED BY <1>4, <3>0, <4>1
      <3> QED BY <1>3, <3>1, <3>2
    <2>7. Stage(t)'
      BY <1>2, <2>5, <2>6 DEF Stage, Queued
    <2> QED BY <1>2, <2>1, <2>7, LoneStage
  <1> QED BY <1>5, <1>6 DEF RequestsInv

LEMMA QueryEndRequests ==
  ASSUME RequestsInv, UNCHANGED posted, NEW t \in Caller, QueryEnd(t)
  PROVE  RequestsInv'
  <1>1. /\ op[t].name = "reading"
        /\ op' = [op EXCEPT ![t] = [@ EXCEPT !.name =
             IF list[t] = << >> THEN "evaluating" ELSE "processing"]]
        /\ UNCHANGED <<observerVars, historyVars, list, at, view, next>>
    BY DEF QueryEnd, Goes, fsuipcVars
  <1>2. TypeInv'
    BY <1>1 DEF RequestsInv, TypeInv, observerVars, historyVars, Operation, Asked,
                On, Idle
  <1>3. ASSUME posted PROVE BufferInv'
    <2>1. /\ op[t] # Idle
          /\ \A u \in Caller \ {t} : op[u] = Idle
          /\ Stage(t)
      BY <1>1, <1>3, Others DEF Idle
    <2>2. /\ op'[t].name = IF list[t] = << >> THEN "evaluating" ELSE "processing"
          /\ op'[t] # Idle
          /\ \A u \in Caller \ {t} : op'[u] = Idle
      BY <1>1, <2>1 DEF RequestsInv, TypeInv, Operation, Idle
    <2>3. Queued(t) /\ \A i \in 1..(next - 1) : view[i].kind = "read"
      BY <1>1, <2>1 DEF Stage, Asking
    <2>4. CASE list[t] = << >>
      <3>1. DOMAIN list[t] = {}
        BY <2>4
      <3>2. next = 1
        BY <2>3, <3>1 DEF Queued, Own, RequestsInv, TypeInv
      <3>3. Stage(t)'
        BY <1>1, <2>2, <2>4, <3>1, <3>2 DEF Stage, Asking
      <3> QED BY <2>2, <3>3, LoneStage
    <2>5. CASE list[t] # << >>
      <3>1. Queued(t)'
        BY <1>1, <2>3 DEF Queued, Own
      <3>2. Stage(t)'
        BY <2>2, <2>5, <3>1 DEF Stage
      <3> QED BY <2>2, <3>2, LoneStage
    <2> QED BY <2>4, <2>5
  <1> QED BY <1>2, <1>3 DEF RequestsInv

\* A step of FSUIPC_Process: the operation of t is in one of its stages before
\* and in another after, its list has the same offsets.
LEMMA ProcessType ==
  ASSUME RequestsInv, NEW t \in Caller, NEW name \in Asked,
         Goes(t, name), op[t].name # "idle",
         next' \in 1..Room, On(view', 1..Room),
         at' = at \/ \E i \in 1..Room : at' = [at EXCEPT ![t] = i],
         On(list', Caller),
         \A u \in Caller : DOMAIN list'[u] = DOMAIN list[u],
         UNCHANGED <<observerVars, historyVars>>
  PROVE  /\ TypeInv'
         /\ op'[t].name = name /\ op'[t] # Idle
         /\ posted => \A u \in Caller \ {t} : op'[u] = Idle
         /\ posted => Stage(t)
  <1>1. op' = [op EXCEPT ![t] = [@ EXCEPT !.name = name]]
    BY DEF Goes
  <1>2. op' \in [Caller -> Operation] /\ op'[t].name = name
    BY <1>1 DEF RequestsInv, TypeInv, Operation
  <1>3. op'[t] # Idle /\ op[t] # Idle
    BY <1>2 DEF Asked, Idle
  <1>4. at' \in [Caller -> 1..Room]
    BY DEF RequestsInv, TypeInv
  <1>5. \A u \in Caller \ {t} : op'[u] = op[u]
    BY <1>1 DEF RequestsInv, TypeInv
  <1>6. name # "idle"
    BY DEF Asked
  <1>7. \A u \in Caller : op'[u] = Idle => DOMAIN list'[u] = {}
    BY <1>3, <1>5 DEF RequestsInv, TypeInv
  <1>8. \A u \in Caller : op'[u].name = "idle" => op'[u] = Idle
    BY <1>2, <1>5, <1>6 DEF RequestsInv, TypeInv
  <1>9. TypeInv'
    <2>1. UNCHANGED <<offsets, values, told>>
      BY DEF observerVars, historyVars
    <2>2. \A u \in Caller : DOMAIN list'[u] \subseteq Offset
      BY DEF RequestsInv, TypeInv
    <2>3. offsets' \subseteq Offset /\ On(values', Offset) /\ On(told', Offset)
      BY <2>1 DEF RequestsInv, TypeInv
    <2> QED BY <1>2, <1>4, <1>7, <1>8, <2>2, <2>3 DEF TypeInv
  <1> QED BY <1>2, <1>3, <1>5, <1>9, Others

LEMMA ProcessRequests ==
  ASSUME RequestsInv, UNCHANGED posted, NEW t \in Caller, Process(t)
  PROVE  RequestsInv'
  <1>1. /\ op[t].name = "processing" /\ next # 1
        /\ view' = [view EXCEPT ![next] = Zeros]
        /\ Goes(t, "sending")
        /\ UNCHANGED <<next, observerVars, historyVars, list, at>>
    BY DEF Process, Terminate, NoData
  <1>2. /\ next \in 1..Room /\ On(view', 1..Room) /\ view'[next] = Zeros
        /\ \A i \in 1..(next - 1) : view'[i] = view[i]
    <2>1. next \in 1..Room /\ 1..(next - 1) \subseteq 1..Room \ {next}
      BY FsuipcUserAssumption DEF RequestsInv, TypeInv
    <2>2. On(view, 1..Room)
      BY DEF RequestsInv, TypeInv
    <2>3. On(view', 1..Room)
      BY <1>1, <2>1, <2>2, Replaced
    <2>4. view'[next] = Zeros
      BY <1>1, <2>1, <2>2 DEF On
    <2>5. \A i \in 1..Room \ {next} : view'[i] = view[i]
      BY <1>1, <2>1, <2>2, Replaced
    <2> QED BY <2>1, <2>3, <2>4, <2>5
  <1>3. /\ TypeInv'
        /\ op'[t].name = "sending" /\ op'[t] # Idle
        /\ posted => (\A u \in Caller \ {t} : op'[u] = Idle) /\ Stage(t)
    <2>1. "sending" \in Asked
      BY DEF Asked
    <2> QED BY <1>1, <1>2, <2>1, ProcessType DEF RequestsInv, TypeInv
  <1>4. ASSUME posted PROVE BufferInv'
    <2>1. Queued(t)
      BY <1>1, <1>3, <1>4 DEF Stage, Asking
    <2>2. Queued(t)'
      BY <1>1, <1>2, <2>1 DEF Queued, Own
    <2>3. Stage(t)'
      BY <1>1, <1>2, <1>3, <2>2 DEF Stage
    <2> QED BY <1>3, <1>4, <2>3, LoneStage
  <1> QED BY <1>3, <1>4 DEF RequestsInv

\* An operation that throws leaves its thread idle and its list empty.
LEMMA ThrowsRequests ==
  ASSUME RequestsInv, UNCHANGED posted, NEW t \in Caller, Throws(t), op[t] # Idle,
         next' = 1, view' = view
  PROVE  RequestsInv'
  <1>1. /\ op' = [op EXCEPT ![t] = Idle]
        /\ list' = [list EXCEPT ![t] = << >>]
        /\ UNCHANGED <<offsets, values, told, at>>
    BY DEF Throws, Ends, observerVars, historyVars
  <1>2. op' \in [Caller -> Operation] /\ op'[t] = Idle
    BY <1>1 DEF RequestsInv, TypeInv, Idle, Operation
  <1>3. /\ On(list', Caller) /\ DOMAIN list'[t] = {}
        /\ \A u \in Caller \ {t} : list'[u] = list[u] /\ op'[u] = op[u]
    BY <1>1 DEF RequestsInv, TypeInv, On
  <1>4. 1 \in 1..Room
    BY FsuipcUserAssumption
  <1>5. TypeInv'
    BY <1>1, <1>2, <1>3, <1>4 DEF RequestsInv, TypeInv
  <1>6. ASSUME posted PROVE BufferInv'
    <2>1. \A u \in Caller \ {t} : op'[u] = Idle
      BY <1>3, <1>6, Others
    <2>2. Stage(t)'
      BY <1>2 DEF Stage, Idle, Asking
    <2> QED BY <2>1, <2>2, LoneStage
  <1> QED BY <1>5, <1>6 DEF RequestsInv

LEMMA ProcessNothingRequests ==
  ASSUME RequestsInv, UNCHANGED posted, NEW t \in Caller, ProcessNothing(t)
  PROVE  RequestsInv'
  BY ThrowsRequests DEF ProcessNothing, NoData, fsuipcVars, Idle

\* FSUIPC answers in place: a slot is the same request afterwards.
LEMMA SendRequests ==
  ASSUME RequestsInv, UNCHANGED posted, NEW t \in Caller, Send(t)
  PROVE  RequestsInv'
  <1>1. PICK name \in {"answered", "refused"} :
          /\ Goes(t, name)
          /\ name = "answered" => Answered
          /\ name = "refused" => view' = view
    BY DEF Send
  <1>2. op[t].name = "sending" /\ UNCHANGED <<next, observerVars, historyVars, list, at>>
    BY DEF Send
  <1>3. On(view', 1..Room)
    BY <1>1 DEF Answered, RequestsInv, TypeInv, On
  <1>4. \A i \in 1..Room :
          \/ view'[i] = view[i]
          \/ /\ view[i].kind = "read"
             /\ view'[i] = [view[i] EXCEPT !.data = After(i)[view[i].offset]]
    BY <1>1 DEF Answered
  <1>5. /\ TypeInv'
        /\ op'[t].name = name /\ op'[t] # Idle
        /\ posted => (\A u \in Caller \ {t} : op'[u] = Idle) /\ Stage(t)
    <2>1. name \in Asked
      BY DEF Asked
    <2> QED BY <1>1, <1>2, <1>3, <2>1, ProcessType DEF RequestsInv, TypeInv
  <1>6. ASSUME posted PROVE BufferInv'
    <2>1. Queued(t) /\ view[next] = Zeros /\ next \in 1..Room
      BY <1>2, <1>5, <1>6 DEF Stage, Asking, RequestsInv, TypeInv
    <2>2. \A i \in 1..Room, o \in Offset :
            IsRead(view[i], o, t) => IsRead(view'[i], o, t)
      <3> SUFFICES ASSUME NEW i \in 1..Room, NEW o \in Offset, IsRead(view[i], o, t)
                   PROVE  IsRead(view'[i], o, t)
        OBVIOUS
      <3> DEFINE d == After(i)[view[i].offset]
      <3>1. IsRead([view[i] EXCEPT !.data = d], o, t)
        <4> HIDE DEF d
        <4> QED BY AnsweredRead
      <3> QED BY <1>4, <3>1
    <2>3. \A i \in 1..(next - 1) :
            /\ i \in 1..Room
            /\ view'[i].kind # "none"
            /\ view'[i].kind = "read" => view[i].kind = "read"
      <3> SUFFICES ASSUME NEW i \in 1..(next - 1)
                   PROVE  /\ i \in 1..Room
                          /\ view'[i].kind # "none"
                          /\ view'[i].kind = "read" => view[i].kind = "read"
        OBVIOUS
      <3>1. i \in 1..Room
        BY <2>1, FsuipcUserAssumption
      <3>2. Own(i, t)
        BY <2>1 DEF Queued
      <3>3. view[i].kind = "read" => \E o \in Offset : IsRead(view'[i], o, t)
        BY <2>2, <3>1, <3>2 DEF Own, RequestsInv, TypeInv
      <3>4. view[i].kind = "read" => view'[i].kind = "read"
        BY <3>3, ReadFields
      <3> QED BY <1>4, <3>1, <3>2, <3>4 DEF Own
    <2>4. Queued(t)'
      <3>1. DOMAIN list[t] \subseteq Offset /\ list' = list /\ next' = next
        BY <1>2 DEF RequestsInv, TypeInv
      <3>2. \A i \in 1..(next - 1) : Own(i, t)'
        BY <2>1, <2>2, <2>3, <3>1 DEF Queued, Own
      <3>3. \A o \in DOMAIN list[t] : \E i \in 1..(next - 1) : IsRead(view'[i], o, t)
        BY <2>1, <2>2, <2>3, <3>1 DEF Queued
      <3> QED BY <3>1, <3>2, <3>3 DEF Queued
    <2>5. view'[next] = Zeros
      BY <1>4, <2>1 DEF Zeros
    <2>6. Stage(t)'
      BY <1>2, <1>5, <2>4, <2>5 DEF Stage
    <2> QED BY <1>5, <1>6, <2>6, LoneStage
  <1> QED BY <1>5, <1>6 DEF RequestsInv

LEMMA SendReturnsRequests ==
  ASSUME RequestsInv, UNCHANGED posted, NEW t \in Caller, SendReturns(t)
  PROVE  RequestsInv'
  <1>1. next' = 1 /\ view' = view /\ 1 \in 1..Room
    BY FsuipcUserAssumption DEF SendReturns, Reset
  <1>2. CASE op[t].name = "refused"
    BY <1>1, <1>2, ThrowsRequests DEF SendReturns, Idle
  <1>3. CASE op[t].name = "answered"
    <2>1. /\ Goes(t, "copying")
          /\ at' = [at EXCEPT ![t] = 1]
          /\ UNCHANGED <<observerVars, historyVars, list>>
      BY <1>3 DEF SendReturns
    <2>2. /\ TypeInv'
          /\ op'[t].name = "copying" /\ op'[t] # Idle
          /\ posted => (\A u \in Caller \ {t} : op'[u] = Idle) /\ Stage(t)
      <3>1. "copying" \in Asked
        BY DEF Asked
      <3> QED BY <1>1, <1>3, <2>1, <3>1, ProcessType DEF RequestsInv, TypeInv
    <2>3. ASSUME posted PROVE BufferInv'
      <3>1. Queued(t) /\ view[next] = Zeros /\ next \in 1..Room
        BY <1>3, <2>2, <2>3 DEF Stage, Asking, RequestsInv, TypeInv
      <3>2. at'[t] = 1
        BY <2>1 DEF RequestsInv, TypeInv
      <3>3. Copied(t)'
        <4>1. \A i \in 1..(next - 1) : Own(i, t)'
          BY <1>1, <2>1, <3>1 DEF Queued, Own
        <4>2. \A o \in DOMAIN list'[t] : \E i \in 1..(next - 1) : IsRead(view'[i], o, t)
          BY <1>1, <2>1, <3>1 DEF Queued
        <4> QED BY <1>1, <3>1, <3>2, <4>1, <4>2 DEF Copied
      <3>4. Stage(t)'
        BY <2>2, <3>3 DEF Stage, Asking
      <3> QED BY <2>2, <2>3, <3>4, LoneStage
    <2> QED BY <2>2, <2>3 DEF RequestsInv
  <1> QED BY <1>2, <1>3 DEF SendReturns

\* Putting a value into a list leaves its offsets the same, and the others'.
LEMMA PutValue ==
  ASSUME TypeInv, NEW r, Put(r), NEW u \in Caller
  PROVE  list'[u] = IF r.kind = "read" /\ r.of = u /\ r.offset \in DOMAIN list[u]
                    THEN [list[u] EXCEPT ![r.offset] = [value |-> Answer, put |-> TRUE]]
                    ELSE list[u]
  <1> DEFINE v == [value |-> Answer, put |-> TRUE]
             there == r.kind = "read" /\ r.offset \in DOMAIN list[r.of]
  <1>1. list' = IF there THEN [list EXCEPT ![r.of] = [list[r.of] EXCEPT ![r.offset] = v]]
                ELSE list
    BY DEF Put
  <1> DEFINE q == [list[r.of] EXCEPT ![r.offset] = v]
  <1>2. DOMAIN list = Caller
    BY DEF TypeInv, On
  <1>3. CASE there /\ r.of = u
    <2> HIDE DEF q
    <2>1. list' = [list EXCEPT ![r.of] = q]
      BY <1>1, <1>3 DEF q
    <2>2. list'[u] = q
      BY <1>2, <1>3, <2>1
    <2> QED BY <1>3, <2>2 DEF q, v
  <1>4. CASE there /\ r.of # u
    <2> HIDE DEF q
    <2>1. list' = [list EXCEPT ![r.of] = q]
      BY <1>1, <1>4 DEF q
    <2>2. list'[u] = list[u]
      BY <1>2, <1>4, <2>1
    <2> QED BY <1>4, <2>2
  <1>5. CASE ~there
    BY <1>1, <1>5
  <1> QED BY <1>3, <1>4, <1>5

LEMMA PutList ==
  ASSUME TypeInv, NEW r, Put(r)
  PROVE  On(list', Caller) /\ \A u \in Caller : DOMAIN list'[u] = DOMAIN list[u]
  <1>1. On(list', Caller)
    BY DEF Put, TypeInv, On
  <1>2. ASSUME NEW u \in Caller PROVE DOMAIN list'[u] = DOMAIN list[u]
    <2> DEFINE v == [value |-> Answer, put |-> TRUE]
    <2>1. list'[u] = [list[u] EXCEPT ![r.offset] = v] \/ list'[u] = list[u]
      BY PutValue
    <2> HIDE DEF v
    <2> QED BY <2>1
  <1> QED BY <1>1, <1>2

LEMMA CopyRequests ==
  ASSUME RequestsInv, UNCHANGED posted, NEW t \in Caller, Copy(t)
  PROVE  RequestsInv'
  <1>1. /\ op[t].name = "copying"
        /\ view[at[t]].kind # "none"
        /\ Put(view[at[t]])
        /\ next < Room /\ next' = next + 1 /\ view' = view
        /\ at' = [at EXCEPT ![t] = next + 1]
        /\ UNCHANGED <<observerVars, historyVars, op>>
    BY DEF Copy, Advance
  <1>2. On(list', Caller) /\ \A u \in Caller : DOMAIN list'[u] = DOMAIN list[u]
    BY <1>1, PutList DEF RequestsInv
  <1>3. next + 1 \in 1..Room
    BY <1>1, FsuipcUserAssumption DEF RequestsInv, TypeInv
  <1>4. TypeInv'
    BY <1>1, <1>2, <1>3 DEF RequestsInv, TypeInv, observerVars, historyVars
  <1>5. ASSUME posted PROVE BufferInv'
    <2>1. /\ op[t] # Idle /\ op'[t] # Idle
          /\ \A u \in Caller \ {t} : op'[u] = Idle
          /\ Stage(t)
      BY <1>1, <1>5, Others DEF Idle
    <2>2. Copied(t)
      BY <1>1, <2>1 DEF Stage
    <2>3. PICK e \in next..Room :
            /\ view[e] = Zeros
            /\ \A i \in next..(e - 1) : Own(i, t)
            /\ \A o \in DOMAIN list[t] :
                 HasAnswer(o, t) \/ \E i \in next..(e - 1) : IsRead(view[i], o, t)
      BY <2>2 DEF Copied
    <2> DEFINE r == view[next]
    <2>4. at[t] = next /\ r.kind # "none" /\ next \in 1..Room /\ e # next
      BY <1>1, <2>2, <2>3 DEF Copied, Zeros, RequestsInv, TypeInv
    <2>5. next \in next..(e - 1) /\ e \in (next + 1)..Room
      BY <2>3, <2>4, FsuipcUserAssumption
    <2>6. Own(next, t)
      BY <2>3, <2>5
    <2>7. \A o \in DOMAIN list[t] :
            list'[t][o] = IF r.kind = "read" /\ r.of = t /\ r.offset = o
                          THEN [value |-> Answer, put |-> TRUE] ELSE list[t][o]
      <3>1. Put(r) /\ TypeInv
        BY <1>1, <2>4 DEF RequestsInv
      <3> DEFINE v == [value |-> Answer, put |-> TRUE]
      <3> HIDE DEF r
      <3>2. list'[t] = IF r.kind = "read" /\ r.of = t /\ r.offset \in DOMAIN list[t]
                       THEN [list[t] EXCEPT ![r.offset] = v] ELSE list[t]
        BY <3>1, PutValue
      <3> HIDE DEF v
      <3>3. \A o \in DOMAIN list[t] :
              list'[t][o] = IF r.kind = "read" /\ r.of = t /\ r.offset = o THEN v
                            ELSE list[t][o]
        BY <3>2
      <3> QED BY <3>3 DEF v
    <2>8. \A o \in DOMAIN list[t] : HasAnswer(o, t) => HasAnswer(o, t)'
      <3> SUFFICES ASSUME NEW o \in DOMAIN list[t], HasAnswer(o, t)
                   PROVE  HasAnswer(o, t)'
        OBVIOUS
      <3>1. CASE list'[t][o] = list[t][o]
        BY <1>1, <3>1 DEF HasAnswer
      <3>2. CASE list'[t][o] # list[t][o]
        <4>1. /\ r.kind = "read" /\ r.offset = o /\ r.of = t
              /\ list'[t][o] = [value |-> r.data, put |-> TRUE]
          BY <2>4, <2>7, <3>2 DEF Answer
        <4>2. r = [kind |-> "read", offset |-> o, of |-> t, data |-> r.data]
          BY <2>6, <4>1, ReadFields DEF Own, IsRead
        <4> QED BY <1>1, <2>4, <4>1, <4>2 DEF HasAnswer
      <3> QED BY <3>1, <3>2
    <2>9. \A o \in DOMAIN list[t] : IsRead(r, o, t) => HasAnswer(o, t)'
      <3> SUFFICES ASSUME NEW o \in DOMAIN list[t], IsRead(r, o, t)
                   PROVE  HasAnswer(o, t)'
        OBVIOUS
      <3>1. r.kind = "read" /\ r.offset = o /\ r.of = t
        BY ReadFields
      <3>2. list'[t][o] = [value |-> r.data, put |-> TRUE]
        BY <2>4, <2>7, <3>1 DEF Answer
      <3>3. view'[next] = [kind |-> "read", offset |-> o, of |-> t,
                           data |-> list'[t][o].value]
        BY <1>1, <3>2 DEF IsRead
      <3> QED BY <2>4, <3>2, <3>3 DEF HasAnswer
    <2>10. \A i \in 1..Room : Own(i, t) => Own(i, t)'
      BY <1>1, <1>2 DEF Own
    <2>11. /\ \A i \in 1..(next' - 1) : Own(i, t)'
           /\ \A i \in next'..(e - 1) : Own(i, t)'
      <3>1. \A i \in 1..(next' - 1) : i \in 1..Room /\ (i = next \/ i \in 1..(next - 1))
        BY <1>1, <2>4, FsuipcUserAssumption
      <3>2. \A i \in next'..(e - 1) : i \in 1..Room /\ i \in next..(e - 1)
        BY <1>1, <2>4, <2>5, FsuipcUserAssumption
      <3> QED BY <2>2, <2>3, <2>6, <2>10, <3>1, <3>2 DEF Copied
    <2>12. \A o \in DOMAIN list'[t] :
             HasAnswer(o, t)' \/ \E i \in next'..(e - 1) : IsRead(view'[i], o, t)
      <3> SUFFICES ASSUME NEW o \in DOMAIN list[t], ~HasAnswer(o, t)'
                   PROVE  \E i \in next'..(e - 1) : IsRead(view'[i], o, t)
        BY <1>2
      <3>1. PICK i \in next..(e - 1) : IsRead(view[i], o, t)
        BY <2>3, <2>8
      <3>2. i # next
        BY <2>9, <3>1
      <3> QED BY <1>1, <2>4, <2>5, <3>1, <3>2
    <2>13. at'[t] = next' /\ e \in next'..Room /\ view'[e] = Zeros
      BY <1>1, <2>3, <2>5 DEF RequestsInv, TypeInv
    <2>14. Copied(t)'
      BY <2>11, <2>12, <2>13 DEF Copied
    <2>15. Stage(t)'
      BY <1>1, <2>14 DEF Stage, Asking
    <2> QED BY <2>1, <2>15, LoneStage
  <1> QED BY <1>4, <1>5 DEF RequestsInv

LEMMA CopyEndRequests ==
  ASSUME RequestsInv, UNCHANGED posted, NEW t \in Caller, CopyEnd(t)
  PROVE  RequestsInv'
  <1>1. /\ op[t].name = "copying"
        /\ view[at[t]].kind = "none"
        /\ next' = 1 /\ view' = view /\ 1 \in 1..Room
        /\ Goes(t, "evaluating")
        /\ at' = [at EXCEPT ![t] = 1]
        /\ UNCHANGED <<observerVars, historyVars, list>>
    BY FsuipcUserAssumption DEF CopyEnd, Reset
  <1>2. /\ TypeInv'
        /\ op'[t].name = "evaluating" /\ op'[t] # Idle
        /\ posted => (\A u \in Caller \ {t} : op'[u] = Idle) /\ Stage(t)
    <2>1. "evaluating" \in Asked
      BY DEF Asked
    <2> QED BY <1>1, <2>1, ProcessType DEF RequestsInv, TypeInv
  <1>3. ASSUME posted PROVE BufferInv'
    <2>1. Copied(t)
      BY <1>1, <1>2, <1>3 DEF Stage
    <2>2. PICK e \in next..Room :
            /\ view[e] = Zeros
            /\ \A i \in next..(e - 1) : Own(i, t)
            /\ \A o \in DOMAIN list[t] :
                 HasAnswer(o, t) \/ \E i \in next..(e - 1) : IsRead(view[i], o, t)
      BY <2>1 DEF Copied
    <2>3. e = next
      <3>1. ~Own(next, t)
        BY <1>1, <2>1 DEF Copied, Own
      <3> QED BY <2>2, <3>1, FsuipcUserAssumption DEF RequestsInv, TypeInv
    <2>4. \A o \in DOMAIN list[t] : HasAnswer(o, t)
      BY <2>2, <2>3 DEF RequestsInv, TypeInv
    <2>5. Stage(t)'
      BY <1>1, <1>2, <2>4 DEF Stage, Asking, HasAnswer
    <2> QED BY <1>2, <1>3, <2>5, LoneStage
  <1> QED BY <1>2, <1>3 DEF RequestsInv

LEMMA EvaluateRequests ==
  ASSUME RequestsInv, UNCHANGED posted, NEW t \in Caller, Evaluate(t)
  PROVE  RequestsInv'
  <1>1. PICK o \in DOMAIN list[t] :
          /\ list' = [list EXCEPT ![t] = Restrict(@, DOMAIN @ \ {o})]
          /\ \/ t = tick /\ Compare(o, list[t][o].value)
             \/ t = net /\ values' = [values EXCEPT ![o] = list[t][o].value]
                        /\ UNCHANGED historyVars
    BY DEF Evaluate
  <1>2. /\ op[t].name = "evaluating" /\ op[t] # Idle
        /\ UNCHANGED <<offsets, op, at, view, next>>
    BY DEF Evaluate, fsuipcVars, Idle
  <1>3. /\ On(list', Caller)
        /\ DOMAIN list'[t] \subseteq DOMAIN list[t]
        /\ \A x \in DOMAIN list'[t] : list'[t][x] = list[t][x]
        /\ \A u \in Caller \ {t} : list'[u] = list[u]
    BY <1>1 DEF RequestsInv, TypeInv, On, Restrict
  <1>4. On(values', Offset) /\ On(told', Offset)
    BY <1>1 DEF RequestsInv, TypeInv, On, Compare, historyVars
  <1>5. TypeInv'
    BY <1>2, <1>3, <1>4 DEF RequestsInv, TypeInv
  <1>6. ASSUME posted PROVE BufferInv'
    <2>1. Stage(t) /\ \A u \in Caller \ {t} : op'[u] = Idle
      BY <1>2, <1>6, Others
    <2>2. Stage(t)'
      BY <1>2, <1>3, <2>1 DEF Stage, Asking, HasAnswer
    <2> QED BY <1>2, <2>1, <2>2, LoneStage
  <1> QED BY <1>5, <1>6 DEF RequestsInv

LEMMA ReturnRequests ==
  ASSUME RequestsInv, UNCHANGED posted, NEW t \in Caller, Return(t)
  PROVE  RequestsInv'
  <1>1. /\ op[t].name = "evaluating" /\ op[t] # Idle
        /\ UNCHANGED <<offsets, values, told, view, next, at>>
        /\ op' = [op EXCEPT ![t] = Idle]
        /\ list' = [list EXCEPT ![t] = << >>]
    BY DEF Return, Ends, fsuipcVars, historyVars, Idle
  <1>2. op' \in [Caller -> Operation] /\ op'[t] = Idle
    BY <1>1 DEF RequestsInv, TypeInv, Idle, Operation
  <1>3. /\ On(list', Caller) /\ DOMAIN list'[t] = {}
        /\ \A u \in Caller \ {t} : list'[u] = list[u] /\ op'[u] = op[u]
    BY <1>1 DEF RequestsInv, TypeInv, On
  <1>4. TypeInv'
    BY <1>1, <1>2, <1>3 DEF RequestsInv, TypeInv
  <1>5. ASSUME posted PROVE BufferInv'
    <2>1. Stage(t) /\ \A u \in Caller \ {t} : op'[u] = Idle
      BY <1>1, <1>3, <1>5, Others
    <2>2. Stage(t)' /\ next' = 1
      BY <1>1, <1>2, <2>1 DEF Stage, Idle, Asking
    <2> QED BY <2>1, <2>2, LoneStage
  <1> QED BY <1>4, <1>5 DEF RequestsInv

-----------------------------------------------------------------------------
\* The cache.

LEMMA StartCache ==
  ASSUME ObserverInv, NEW o \in Offset, start_observing(o)
  PROVE  CacheInv'
  <1>1. /\ op[net] = Idle
        /\ offsets' = offsets \cup {o}
        /\ welcomes' = welcomes \cup {o}
        /\ raced' = IF op[tick] = Idle THEN raced \ {o} ELSE raced \cup {o}
        /\ \A x \in Offset \ {o} : told'[x] = told[x]
        /\ op' = [op EXCEPT ![net] = [name |-> "reading", set |-> {o}]]
        /\ UNCHANGED <<values, list>>
    BY DEF start_observing, Free, ObserverInv, RequestsInv, TypeInv, On
  <1>2. op'[tick] = op[tick] /\ op'[net].set = {o} /\ op[net].set = {}
    BY <1>1 DEF net, tick, Caller, Idle, ObserverInv, RequestsInv, TypeInv
  <1>3. op[tick].name \in Asked => op[tick] # Idle
    BY DEF Idle, Asked
  <1>4. offsets \subseteq Offset
    BY DEF ObserverInv, RequestsInv, TypeInv
  <1>5. OwnOffset' /\ OwnIsWelcome'
    BY <1>1, <1>2 DEF ObserverInv, CacheInv, OwnOffset, OwnIsWelcome
  <1>6. CheckIsComplete'
    BY <1>1, <1>2, <1>3, <1>4 DEF ObserverInv, CacheInv, CheckIsComplete
  <1>7. CacheIsTold'
    BY <1>1, <1>4 DEF ObserverInv, CacheInv, CacheIsTold
  <1> QED BY <1>5, <1>6, <1>7 DEF CacheInv

LEMMA StopCache ==
  ASSUME ObserverInv, NEW o \in Offset, stop_observing(o)
  PROVE  CacheInv'
  BY DEF stop_observing, threadVars, historyVars, ObserverInv, CacheInv,
         OwnOffset, OwnIsWelcome, CheckIsComplete, CacheIsTold

LEMMA CheckCache ==
  ASSUME ObserverInv, check_for_updates
  PROVE  CacheInv'
  <1>1. /\ op[tick] = Idle
        /\ op' = [op EXCEPT ![tick] = [name |-> "reading", set |-> {}]]
        /\ raced' = raced \cup op[net].set
        /\ UNCHANGED <<told, list, offsets, welcomes, values>>
    BY DEF check_for_updates, Free, observerVars
  <1>2. op'[net] = op[net] /\ op'[tick].name = "reading" /\ op'[tick] # Idle
    BY <1>1 DEF net, tick, Caller, Idle, ObserverInv, RequestsInv, TypeInv
  <1> QED
    BY <1>1, <1>2
    DEF ObserverInv, CacheInv, OwnOffset, OwnIsWelcome, CheckIsComplete,
        CacheIsTold, Asked

\* Steps that leave the tables of the observer alone: the network thread may
\* go on, and a check go from one stage to the next with a complete query.
LEMMA ThreadCache ==
  ASSUME ObserverInv, UNCHANGED <<observerVars, historyVars>>,
         NEW t \in Caller,
         \A u \in Caller \ {t} : op'[u] = op[u],
         op'[t] = Idle \/ (op'[t].set = op[t].set /\ op[t] # Idle),
         DOMAIN list'[net] \subseteq op'[net].set,
         op'[tick].name \in Asked =>
           \/ /\ op[tick].name \in Asked
              /\ DOMAIN list[tick] \subseteq DOMAIN list'[tick]
           \/ offsets \subseteq DOMAIN list'[tick]
  PROVE  CacheInv'
  <1>1. t = net \/ t = tick
    BY DEF Caller
  <1>2. op'[net].set \subseteq op[net].set
    BY <1>1 DEF Idle, Caller
  <1>3. op'[tick] = Idle \/ op[tick] # Idle
    BY <1>1 DEF Caller
  <1>4. UNCHANGED <<offsets, welcomes, values, told, raced>>
    BY DEF observerVars, historyVars
  <1>5. OwnOffset' /\ OwnIsWelcome'
    BY <1>2, <1>3, <1>4 DEF ObserverInv, CacheInv, OwnOffset, OwnIsWelcome
  <1> QED
    BY <1>4, <1>5 DEF ObserverInv, CacheInv, CheckIsComplete, CacheIsTold

LEMMA EvaluateCache ==
  ASSUME ObserverInv, NEW t \in Caller, Evaluate(t)
  PROVE  CacheInv'
  <1>1. PICK o \in DOMAIN list[t] :
          /\ list' = [list EXCEPT ![t] = Restrict(@, DOMAIN @ \ {o})]
          /\ \/ t = tick /\ Compare(o, list[t][o].value)
             \/ t = net /\ values' = [values EXCEPT ![o] = list[t][o].value]
                        /\ UNCHANGED historyVars
    BY DEF Evaluate
  <1>2. /\ op[t].name = "evaluating" /\ op[t] # Idle
        /\ UNCHANGED <<offsets, welcomes, op>>
    BY DEF Evaluate, Idle
  <1>3. /\ DOMAIN list'[t] = DOMAIN list[t] \ {o}
        /\ \A u \in Caller \ {t} : list'[u] = list[u]
        /\ o \in Offset /\ offsets \subseteq Offset
    BY <1>1 DEF ObserverInv, RequestsInv, TypeInv, On, Restrict
  <1>4. CASE t = net
    <2>1. /\ \A x \in Offset \ {o} : values'[x] = values[x]
          /\ UNCHANGED <<told, raced>>
          /\ list'[tick] = list[tick]
      BY <1>1, <1>3, <1>4
      DEF ObserverInv, RequestsInv, TypeInv, On, historyVars, net, tick, Caller
    <2>2. o \in op[net].set
      BY <1>1, <1>4 DEF ObserverInv, CacheInv, OwnOffset
    <2>3. o \in welcomes \cup raced /\ (op[tick] # Idle => o \in raced)
      BY <2>2 DEF ObserverInv, CacheInv, OwnIsWelcome
    <2>4. op[tick].name \in Asked => op[tick] # Idle
      BY DEF Idle, Asked
    <2>5. OwnOffset' /\ OwnIsWelcome'
      BY <1>2, <1>3, <1>4, <2>1
      DEF ObserverInv, CacheInv, OwnOffset, OwnIsWelcome
    <2>6. CheckIsComplete'
      BY <1>2, <1>3, <2>1, <2>3, <2>4
      DEF ObserverInv, CacheInv, CheckIsComplete
    <2>7. CacheIsTold'
      BY <1>2, <1>3, <2>1, <2>3 DEF ObserverInv, CacheInv, CacheIsTold
    <2> QED BY <2>5, <2>6, <2>7 DEF CacheInv
  <1>5. CASE t = tick
    <2>1. list'[net] = list[net] /\ Compare(o, list[tick][o].value)
      BY <1>1, <1>3, <1>5 DEF net, tick, Caller
    <2>2. \/ values'[o] = told'[o]
          \/ UNCHANGED <<values, told, raced>> /\ o \notin welcomes
      BY <1>3, <2>1
      DEF Compare, historyVars, ObserverInv, RequestsInv, TypeInv, On
    <2>3. /\ \A x \in Offset \ {o} : values'[x] = values[x] /\ told'[x] = told[x]
          /\ raced' \subseteq raced
          /\ raced \ ({o} \ op[net].set) \subseteq raced'
      BY <1>3, <2>1
      DEF Compare, historyVars, ObserverInv, RequestsInv, TypeInv, On
    <2>4. OwnOffset' /\ OwnIsWelcome'
      BY <1>2, <1>5, <2>1, <2>3
      DEF ObserverInv, CacheInv, OwnOffset, OwnIsWelcome
    <2>5. CacheIsTold'
      BY <1>2, <1>3, <2>2, <2>3 DEF ObserverInv, CacheInv, CacheIsTold
    <2>6. CheckIsComplete'
      BY <1>2, <1>3, <1>5, <2>2, <2>3
      DEF ObserverInv, CacheInv, CheckIsComplete, CacheIsTold
    <2> QED BY <2>4, <2>5, <2>6 DEF CacheInv
  <1> QED BY <1>4, <1>5 DEF Caller

LEMMA ReturnCache ==
  ASSUME ObserverInv, NEW t \in Caller, Return(t)
  PROVE  CacheInv'
  <1>1. /\ op[t].name = "evaluating"
        /\ list[t] = <<>>
        /\ op' = [op EXCEPT ![t] = Idle]
        /\ list' = [list EXCEPT ![t] = <<>>]
        /\ UNCHANGED <<offsets, values, told, raced>>
    BY DEF Return, Ends, historyVars
  <1>2. DOMAIN list[t] = {}
    BY <1>1
  <1>3. /\ op'[t] = Idle /\ op[t] # Idle
        /\ \A u \in Caller \ {t} : op'[u] = op[u] /\ list'[u] = list[u]
        /\ DOMAIN list'[t] = {}
    BY <1>1 DEF Idle, ObserverInv, RequestsInv, TypeInv, On
  <1>4. CASE t = net
    <2>1. welcomes' = welcomes /\ net # tick
      BY <1>4 DEF Return, net, tick
    <2> QED
      BY <1>1, <1>3, <1>4, <2>1
      DEF ObserverInv, CacheInv, OwnOffset, OwnIsWelcome, CheckIsComplete,
          CacheIsTold, Idle, Caller, Asked
  <1>5. CASE t = tick
    <2>1. net # tick /\ op'[tick] = Idle /\ op'[net] = op[net]
          /\ list'[net] = list[net]
      BY <1>3, <1>5 DEF net, tick, Caller
    <2>2. OwnOffset' /\ OwnIsWelcome'
      BY <1>1, <1>3, <1>5, <2>1
      DEF ObserverInv, CacheInv, OwnOffset, OwnIsWelcome
    <2>3. CheckIsComplete'
      BY <2>1 DEF CheckIsComplete, Idle, Asked
    <2>4. CacheIsTold'
      BY <1>1, <1>2, <1>5 DEF ObserverInv, CacheInv, CheckIsComplete, CacheIsTold,
                                   Asked
    <2> QED BY <2>2, <2>3, <2>4 DEF CacheInv
  <1> QED BY <1>4, <1>5 DEF Caller

-----------------------------------------------------------------------------
\* Every step.

LEMMA QueryReadCache ==
  ASSUME ObserverInv, NEW t \in Caller, QueryRead(t)
  PROVE  CacheInv'
  <1>1. PICK o \in Queried(t) :
          list' = [list EXCEPT ![t] =
            [x \in DOMAIN @ \cup {o} |-> IF x = o THEN [value |-> 0, put |-> FALSE] ELSE @[x]]]
    BY DEF QueryRead
  <1>2. /\ op[t].name = "reading" /\ op[t] # Idle
        /\ UNCHANGED <<observerVars, historyVars, op>>
    BY DEF QueryRead, Idle
  <1>3. /\ DOMAIN list'[t] = {o} \cup DOMAIN list[t]
        /\ \A u \in Caller \ {t} : list'[u] = list[u]
    BY <1>1 DEF ObserverInv, RequestsInv, TypeInv, On
  <1>4. t = net => o \in op[net].set
    BY DEF Queried
  <1>5. DOMAIN list'[net] \subseteq op'[net].set
    BY <1>2, <1>3, <1>4 DEF ObserverInv, CacheInv, OwnOffset, Caller
  <1>6. DOMAIN list[tick] \subseteq DOMAIN list'[tick]
    BY <1>3 DEF Caller
  <1> QED BY <1>2, <1>5, <1>6, ThreadCache

LEMMA QueryEndCache ==
  ASSUME ObserverInv, NEW t \in Caller, QueryEnd(t)
  PROVE  CacheInv'
  <1>1. /\ op[t].name = "reading" /\ op[t] # Idle
        /\ UNCHANGED <<observerVars, historyVars, list>>
        /\ t = tick => offsets \subseteq DOMAIN list[tick]
    BY DEF QueryEnd, Queried, Idle, net, tick
  <1>2. /\ op'[t].set = op[t].set
        /\ \A u \in Caller \ {t} : op'[u] = op[u]
    BY DEF QueryEnd, Goes, ObserverInv, RequestsInv, TypeInv, Operation
  <1>3. DOMAIN list'[net] \subseteq op'[net].set
    BY <1>1, <1>2 DEF ObserverInv, CacheInv, OwnOffset, Caller
  <1>4. t # tick => op'[tick] = op[tick]
    BY <1>2 DEF Caller
  <1> QED BY <1>1, <1>2, <1>3, <1>4, ThreadCache

\* The steps of FSUIPC_Process: the offsets of the lists stay the same.
LEMMA ProcessCache ==
  ASSUME ObserverInv, NEW t \in Caller,
         op[t].name \in Asked, op'[t].name \in Asked, op'[t].set = op[t].set,
         \A u \in Caller \ {t} : op'[u] = op[u],
         \A u \in Caller : DOMAIN list'[u] = DOMAIN list[u],
         UNCHANGED <<observerVars, historyVars>>
  PROVE  CacheInv'
  <1>1. op[t] # Idle
    BY DEF Asked, Idle
  <1>2. DOMAIN list'[net] \subseteq op'[net].set
    BY DEF ObserverInv, CacheInv, OwnOffset, Caller
  <1>3. /\ op'[tick].name \in Asked => op[tick].name \in Asked
        /\ DOMAIN list[tick] \subseteq DOMAIN list'[tick]
    BY DEF Caller
  <1> QED BY <1>1, <1>2, <1>3, ThreadCache

LEMMA GoesCache ==
  ASSUME ObserverInv, NEW t \in Caller, NEW name \in Asked, Goes(t, name),
         op[t].name \in Asked,
         \A u \in Caller : DOMAIN list'[u] = DOMAIN list[u],
         UNCHANGED <<observerVars, historyVars>>
  PROVE  CacheInv'
  <1>1. /\ op'[t].name = name /\ op'[t].set = op[t].set
        /\ \A u \in Caller \ {t} : op'[u] = op[u]
    BY DEF Goes, ObserverInv, RequestsInv, TypeInv, Operation
  <1> QED BY <1>1, ProcessCache

LEMMA ThrowsCache ==
  ASSUME ObserverInv, NEW t \in Caller, Throws(t), op[t] # Idle
  PROVE  CacheInv'
  <1>1. /\ op' = [op EXCEPT ![t] = Idle]
        /\ list' = [list EXCEPT ![t] = << >>]
        /\ UNCHANGED <<observerVars, historyVars>>
    BY DEF Throws, Ends
  <1>2. /\ op'[t] = Idle /\ DOMAIN list'[t] = {}
        /\ \A u \in Caller \ {t} : op'[u] = op[u] /\ list'[u] = list[u]
    BY <1>1 DEF ObserverInv, RequestsInv, TypeInv, On
  <1>3. DOMAIN list'[net] \subseteq op'[net].set
    BY <1>2 DEF ObserverInv, CacheInv, OwnOffset, Caller
  <1>4. \/ op'[tick].name = "idle"
        \/ op'[tick] = op[tick] /\ list'[tick] = list[tick]
    BY <1>2 DEF Caller, Idle
  <1>5. "idle" \notin Asked
    BY DEF Asked
  <1> QED BY <1>1, <1>2, <1>3, <1>4, <1>5, ThreadCache

LEMMA FsuipcProcessCache ==
  ASSUME ObserverInv, NEW t \in Caller,
         \/ Process(t) \/ ProcessNothing(t) \/ Send(t) \/ SendReturns(t)
         \/ Copy(t) \/ CopyEnd(t)
  PROVE  CacheInv'
  <1>1. {"processing", "sending", "answered", "refused", "copying", "evaluating"}
          \subseteq Asked /\ "idle" \notin Asked
    BY DEF Asked
  <1>2. CASE Process(t)
    BY <1>1, <1>2, GoesCache DEF Process
  <1>3. CASE ProcessNothing(t)
    BY <1>3, ThrowsCache DEF ProcessNothing, Idle
  <1>4. CASE Send(t)
    BY <1>1, <1>4, GoesCache DEF Send
  <1>5. CASE SendReturns(t)
    <2>1. CASE op[t].name = "answered"
      BY <1>1, <1>5, <2>1, GoesCache DEF SendReturns
    <2>2. CASE op[t].name = "refused"
      BY <1>5, <2>2, ThrowsCache DEF SendReturns, Idle
    <2> QED BY <1>5, <2>1, <2>2 DEF SendReturns
  <1>6. CASE Copy(t)
    <2>1. /\ op[t].name \in Asked /\ op' = op
          /\ UNCHANGED <<observerVars, historyVars>>
      BY <1>1, <1>6 DEF Copy
    <2>2. \A u \in Caller : DOMAIN list'[u] = DOMAIN list[u]
      BY <1>6, PutList DEF Copy, ObserverInv, RequestsInv
    <2> QED BY <2>1, <2>2, ProcessCache
  <1>7. CASE CopyEnd(t)
    BY <1>1, <1>7, GoesCache DEF CopyEnd
  <1> QED BY <1>2, <1>3, <1>4, <1>5, <1>6, <1>7

LEMMA ThreadStepInv ==
  ASSUME ObserverInv, UNCHANGED posted, NEW t \in Caller,
         \/ QueryRead(t) \/ QueryEnd(t)
         \/ Process(t) \/ ProcessNothing(t) \/ Send(t) \/ SendReturns(t)
         \/ Copy(t) \/ CopyEnd(t)
         \/ Evaluate(t) \/ Return(t)
  PROVE  ObserverInv'
  <1>1. RequestsInv'
    BY QueryReadRequests, QueryEndRequests, ProcessRequests,
       ProcessNothingRequests, SendRequests, SendReturnsRequests, CopyRequests,
       CopyEndRequests, EvaluateRequests, ReturnRequests DEF ObserverInv
  <1>2. CacheInv'
    BY QueryReadCache, QueryEndCache, FsuipcProcessCache, EvaluateCache, ReturnCache
  <1> QED BY <1>1, <1>2 DEF ObserverInv

LEMMA UpdateCache ==
  ASSUME ObserverInv, NEW o \in Offset, NEW v \in Value, update(o, v)
  PROVE  CacheInv'
  <1>1. /\ op[net] = Idle
        /\ op' = [op EXCEPT ![net] = [name |-> "processing", set |-> {}]]
        /\ UNCHANGED <<observerVars, historyVars, list>>
    BY DEF update, Free
  <1>2. op'[tick] = op[tick] /\ op'[net].set = {} /\ op[net].set = {}
    BY <1>1 DEF net, tick, Caller, Idle, ObserverInv, RequestsInv, TypeInv
  <1> QED
    BY <1>1, <1>2
    DEF observerVars, historyVars, ObserverInv, CacheInv, OwnOffset,
        OwnIsWelcome, CheckIsComplete, CacheIsTold

\* The simulator's steps, and those of an environment that does nothing.
LEMMA OutsideInv ==
  ASSUME ObserverInv, UNCHANGED posted,
         UNCHANGED <<view, next, observerVars, threadVars, historyVars>>
  PROVE  ObserverInv'
  BY DEF observerVars, threadVars, historyVars, ObserverInv, RequestsInv,
         CacheInv, TypeInv, BufferInv, Stage, Queued, Copied, Own, HasAnswer,
         OwnOffset, OwnIsWelcome, CheckIsComplete, CacheIsTold

LEMMA StopRequests ==
  ASSUME RequestsInv, UNCHANGED posted, NEW o \in Offset, stop_observing(o)
  PROVE  RequestsInv'
  BY DEF stop_observing, threadVars, historyVars, fsuipcVars, RequestsInv,
         TypeInv, BufferInv, Stage, Queued, Copied, Own, HasAnswer

LEMMA NextInv == ObserverInv /\ [Next]_vars => ObserverInv'
  <1> SUFFICES ASSUME ObserverInv, [Next]_vars
               PROVE  ObserverInv'
    OBVIOUS
  <1>1. RequestsInv /\ UNCHANGED posted
    BY DEF ObserverInv, Next, vars
  <1> Used \subseteq Offset
    BY UpdateObserverAssumption DEF Used
  <1>2. CASE \E o \in Used : start_observing(o) \/ stop_observing(o)
    BY <1>1, <1>2, StartRequests, StartCache, StopRequests, StopCache
    DEF ObserverInv
  <1>3. CASE \E o \in Used, v \in Value : update(o, v)
    BY <1>1, <1>3, UpdateRequests, UpdateCache DEF ObserverInv
  <1>4. CASE check_for_updates
    BY <1>1, <1>4, CheckRequests, CheckCache DEF ObserverInv
  <1>5. CASE \E t \in Caller :
               \/ QueryRead(t) \/ QueryEnd(t)
               \/ Process(t) \/ ProcessNothing(t) \/ Send(t) \/ SendReturns(t)
               \/ Copy(t) \/ CopyEnd(t)
               \/ Evaluate(t) \/ Return(t)
    BY <1>1, <1>5, ThreadStepInv
  <1>6. CASE \E o \in Used, v \in Value :
               Simulate(o, v) /\ UNCHANGED <<observerVars, threadVars, historyVars>>
    BY <1>1, <1>6, OutsideInv DEF Simulate
  <1>7. CASE UNCHANGED vars
    BY <1>1, <1>7, OutsideInv DEF vars, fsuipcVars
  <1> QED BY <1>2, <1>3, <1>4, <1>5, <1>6, <1>7 DEF Next, Step

\* The inductive invariant: what every step of the two threads keeps true of
\* the buffer, the lists of values, the cache and the welcomes.
THEOREM ObserverInvariant == Spec => []ObserverInv
  BY InitInv, NextInv, PTL DEF Spec

\* With ticks posted on the network thread, every pointer FSUIPC_Process
\* follows is into the list of a query in progress, whatever FSUIPC refused
\* before (client.h:130-149 over module-user.c:147-215).
THEOREM RequestsAreLiveAlways == Spec => []RequestsAreLive
  <1>1. ObserverInv => RequestsAreLive
    <2> SUFFICES ASSUME RequestsInv, posted, BufferInv
                 PROVE  RequestsAreLive
      BY DEF ObserverInv, RequestsInv, RequestsAreLive
    <2>1. \A t \in Caller : Stage(t) /\ op[t] \in Operation /\ next \in 1..Room
      BY DEF BufferInv, RequestsInv, TypeInv
    <2>2. ASSUME NEW i \in 1..(next - 1), view[i].kind = "read"
          PROVE  op[view[i].of].name \in InQuery
      <3>1. next # 1
        BY <2>1, <2>2
      <3>2. PICK t \in Caller : op[t] # Idle
        BY <3>1 DEF BufferInv
      <3>3. op[t].name \in Asking \cup {"copying"}
        BY <2>1, <3>1, <3>2
        DEF Stage, Operation, Asked, Asking, RequestsInv, TypeInv
      <3>4. Own(i, t)
        BY <2>1, <2>2, <3>3 DEF Stage, Queued, Copied
      <3>5. view[i].of = t
        BY <2>2, <3>4, OwnRead
      <3> QED BY <3>3, <3>5 DEF Asking, InQuery
    <2>3. ASSUME NEW t \in Caller, op[t].name = "copying", view[at[t]].kind = "read"
          PROVE  view[at[t]].offset \in DOMAIN list[view[at[t]].of]
      <3>1. Copied(t)
        BY <2>1, <2>3 DEF Stage
      <3>2. at[t] = next /\ Own(next, t)
        <4>1. PICK e \in next..Room :
                view[e] = Zeros /\ \A i \in next..(e - 1) : Own(i, t)
          BY <3>1 DEF Copied
        <4>2. at[t] = next /\ e # next
          BY <2>3, <3>1, <4>1 DEF Copied, Zeros
        <4>3. next \in next..(e - 1)
          BY <2>1, <2>3, <4>1, <4>2, FsuipcUserAssumption
        <4> QED BY <4>1, <4>2, <4>3
      <3> QED BY <2>3, <3>2, OwnRead
    <2> QED BY <2>2, <2>3 DEF RequestsAreLive
  <1> QED BY ObserverInvariant, <1>1, PTL

\* With ticks posted on the network thread, a query never evaluates the value
\* its list was made with or the answer to another request: update_observer
\* compares and caches what FSUIPC answered (client.h:147-148).
THEOREM ValuesAreAnswersAlways == Spec => []ValuesAreAnswers
  <1>1. ObserverInv => ValuesAreAnswers
    BY DEF ObserverInv, RequestsInv, BufferInv, Stage, HasAnswer, ValuesAreAnswers
  <1> QED BY ObserverInvariant, <1>1, PTL

\* A value the observer compares with is one its subscribers were told, unless
\* a welcome is still to tell it or the observation began during a check
\* (update_observer.h:88-143).
THEOREM CacheIsToldAlways == Spec => []CacheIsTold
  <1>1. ObserverInv => CacheIsTold
    BY DEF ObserverInv, CacheInv
  <1> QED BY ObserverInvariant, <1>1, PTL
=============================================================================
