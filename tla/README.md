# Open Airbus Cockpit, specified

This directory holds TLA+ specifications of Open Airbus Cockpit: of
**FlightVars**, the publish/subscribe service through which cockpit software
reads and writes the variables of a flight simulator, which everything else
leans on; of the **Wilco exporter**, which keeps FSUIPC cells in step with the
cockpit of a Wilco Airbus; and of the **pedestal**, an Arduino device, with the
Lua gateway that connects it to the simulator. The specifications are checked
with TLC on small instances, and what matters most is proved with TLAPS for
every value of the constants.

Paths below are relative to `src/oacsd/` unless they start with `src/`.

Contents

1. The system
2. Modules and how they correspond to the code
3. Runs: what is checked, within which bounds
4. Fairness
5. Proofs
6. Where the code disagrees with what it says
7. What is not modelled
8. Plan

How to repeat it, in this directory:

    tlc -workers 2 -config MCFlightVarsClient.cfg MCFlightVarsClient
    tlapm FlightVarsServer_proofs.tla

---------------------------------------------------------------------------

## 1. The system

    application threads                 simulator process
    -------------------                 ----------------------------------------
    flight_vars_client                  flight_vars_core  --->  fsuipc_flight_vars
       | post()      ^ promises            ^    (router)          | fsuipc_offset_db
       v             |                     |                      | update_observer
    connection_manager  <==== TCP ====>  flight_vars_server       | fsuipc_client
       | subscription_db                   | subscription_mapper  v
       | request_pool                      |                  FSUIPC user library
       ring_buffer in, linear out          ring_buffer in, linear out     |
                                                                          v
    pedestal  <== OACSP, serial ==>  OAC_CMDGW.lua  ------->  LVARs    FSUIPC offsets
    (Arduino)                         (runs in FSUIPC)                    ^
                                                                          |
    panels (Lua threads of FSUIPC) ---------------------------------------+
                                                                          |
    Wilco aircraft DLL  <---  cockpit_back::map  <--- fsuipc_cockpit_back +
                              ^ once a second, SimConnect (plugin.cpp)

A client subscribes to a variable (`group/name`) and gets an identifier; the
server calls back whoever subscribed when the variable changes, and takes
updates for an identifier it has granted. The only group is `fsuipc/offset`,
whose variables are memory offsets that FSUIPC polls at every tick.

The Wilco exporter is another module of the simulator. While a Wilco Airbus is
flown it owns a cockpit, and maps it once a second: what the panels wrote to
FSUIPC goes to the aircraft, and the aircraft's state to FSUIPC.

The pedestal scans buttons, knobs, switches and keypads and writes LVARs through
the gateway, a script that FSUIPC runs and a keystroke restarts; the gateway
sends it the LVARs it observes.

### Components, their state and operations

| component | state | operations | what makes it correct |
|---|---|---|---|
| **FSUIPC FlightVars** (`flightvars/src/module/fsuipc.*`) and its `fsuipc_offset_db` | handlers by offset, known offsets, offset by subscription | subscribe, unsubscribe, update, check_for_updates | polls exactly the offsets with a subscriber; every subscriber ends up with the current value |
| **update observer** (`liboac/.../fsuipc/update_observer.h`) | observed offsets, pending welcomes, cached values | start_observing, stop_observing, check_for_updates | a value it compares with is there and is one its subscribers know |
| **FSUIPC client, adapters and user library** (`liboac/.../fsuipc/client.h`, `fsuipc/src/module-user.c`) | one buffer of requests and a position in it, shared by the process | query, update, process | what a query evaluates is what FSUIPC answered to it |
| **core** (`flightvars/src/module/core.*`) | group masters, master by subscription | subscribe, unsubscribe, update | routes exactly the subscriptions its masters have |
| **server** (`flightvars/src/module/server.*`) | one session per connection: buffers, mapper | accept, greeting, three requests, update posted and sent, destruction | no subscription outlives its session; updates carry a granted identifier |
| **subscription mapper** (`flightvars/src/lib/subscription/mapper.cpp`) | variable <-> identifier | register, unregister, lookups | agrees with the delegate and with what the client was told |
| **connection manager** (`flightvars/src/lib/client/connection_manager.cpp`) | connection state, pending requests, input buffer | handshake, send requests, handle replies and updates, disconnect, stop, join, close | every request is settled once; client and server agree on the session |
| **client facade** (`flightvars/src/lib/client.cpp`) | connected flag | blocking subscribe, unsubscribe, update, with a timeout | calls return |
| **request pool** (`flightvars/include/flightvars/client/requests.h`) | promises waiting for a reply, by variable and by master | insert, pop | no promise is lost or settled twice |
| **client subscription db** (`flightvars/src/lib/client/subscription_db.cpp`) | three maps over shared entries: by variable, by master, by virtual identifier | create, add, remove, lookups | the maps name the same entries; no entry without a virtual subscription |
| **ring buffer** over **fixed buffer** (`liboac/include/liboac/buffer/ring.inl`, `fixed.inl`) | bytes, read and write index, count, mark | read, write, mark, unmark, reset, asynchronous receive | it is a byte stream that can be rewound; chunks offered to a socket overwrite nothing |
| **messages on the wire** (`flightvars/include/flightvars/proto`) over linear and ring buffers | bytes written, on their way, received | serialize, deserialize, read completions | what was sent is what is decoded, once and in order |
| **Wilco exporter** (`wilco-exporter/src/plugin.cpp`) and the SimConnect client (`liboac/src/simconn.cpp`) | the cockpit, registered receivers, system events | messages: open, event, system state, title | the cockpit is that of the aircraft flown |
| **cockpit model and FSUIPC cockpit** (`liboac/src/cockpit.cpp`, `cockpit-fsuipc.cpp`, `wilco-exporter/src/wilco-*.cpp`) | two images of the cells | sync_down, map down, map up, sync_up | a press waits until it is applied, what is shown does not come back as a command, panels show the aircraft |
| **command gateway** (`src/cmd-gw/OAC_CMDGW.lua`) | open port, observers by event | open, commands, LVAR events | observers are told; a line that is no command does no harm |
| **pedestal** (`src/arduino/pedestal` over `src/arduino/libraries`) | contacts, scans, debounce times, lights | scans, events, polling with a timeout | the aircraft comes to show each input, the lights each LVAR |
| asynchronous network (`liboac/include/liboac/network`) | connections, acceptor | accept, read, write, close | - |
| tick observers (`liboac/include/liboac/timing.h`) | handlers | register, dispatch | - |
| executor (`liboac/include/liboac/concurrency.h`) | job queue, worker thread | run_later, stop | no program uses it |
| explorer, logging, filesystem, installer, boards | - | I/O | - |

### How they interact

* The application's threads only call `flight_vars_client`, which posts a job to
  the `io_service` of `connection_manager`, connected or not, and waits on a
  promise. The post, the job and the end of the wait are separate steps.
* The client's `io_service` thread runs those jobs, the completions of reads
  and writes, and the handlers of subscriptions.
* The server's `io_service` thread runs every handler of every session. Updates
  come from the delegate through `handle_var_update`, which does not touch the
  session but posts `send_var_update`: the variable may be unsubscribed, or
  subscribed again, before it runs.
* Sessions are reference counted: an outstanding read or write and each posted
  update holds the session; the destructor unsubscribes what the mapper has.
* The delegate's `check_for_updates` is a tick handler. In the integration
  tests ticks come on the server's thread, in `main.cpp:87` on SimConnect's:
  then two threads share the observer's tables and, below them, the one buffer
  of requests of the FSUIPC user library and the position in it, which a
  request, the message to FSUIPC and the walk over its answers all move.
* The exporter's plugin and its map run on the thread that dispatches
  SimConnect's messages. The panels write FSUIPC cells between any two steps
  of the map.
* The gateway's callbacks run to their end one after another. A keystroke kills
  the script and starts it again, and opening the port resets some boards.

### What is hard about it

Interleavings of callers with the network thread; messages crossing each other
(an update and the unsubscription it is no longer wanted after; two
subscription requests before the first reply); several messages in one read or
one message in several reads; connections that close or reset at any point;
exceptions halfway through an operation that touches several tables; cached
values overwritten by a second subscriber; requests left in a shared buffer by
an operation that threw; a buffer that one thread fills while another walks over
it; a stop that is undone by a thread that begins late; ring indexes that wrap, or rest at the capacity, with
a mark behind them; an aircraft that changes while the name of another is on
its way; presses made between two steps of a map; devices that restart while
the script goes on, and the other way round. `PROJECT.json` lists these hazards
at the lines where they bite, with the properties that watch them; those no
property watches say why.

---------------------------------------------------------------------------

## 2. Modules and how they correspond to the code

| module | role |
|---|---|
| `FsuipcFlightVars` | core + FSUIPC master + offset database + update observer + simulator |
| `FlightVarsServer` | extends the delegate with the TCP server and its clients |
| `FsuipcUser` | the FSUIPC user library: one buffer of requests for the whole process |
| `UpdateObserver` | extends it with the update observer and the FSUIPC client, step by step, on two threads |
| `SubscriptionDb` | the client's subscription database, as state and operators |
| `FlightVarsClient` | extends the database with the client's threads, pool, connection, and the server as the client sees it |
| `ByteStream` | abstract specification: a bounded byte stream that can be rewound to a mark |
| `RingBuffer` | the ring buffer over the fixed buffer; refines `ByteStream` |
| `MessageCodec` | the messages and their bytes: `serialize` and `deserialize` as operators |
| `Wire` | extends it with two peers, their buffers and TCP between them |
| `CockpitPanel` | tables: FSUIPC cells, events, aircraft variables |
| `FsuipcCockpit` | the map of a cockpit to FSUIPC cells and back, with panels and pilot |
| `WilcoExporter` | extends it with the plugin and SimConnect |
| `Pedestal` | the pedestal's sketch over its libraries, and the pilot's hands |
| `CommandGateway` | extends it with the gateway, the serial lines and the aircraft's LVARs |
| `..._proofs` | inductive invariants and theorems of the module they are named after; `FlightVarsClient_proofs` begins with the lemmas about `SubscriptionDb` and ends with what client and server know of each other, `Wire_proofs` begins with those about `MessageCodec` |
| `MC...` | constants of the runs |

`PROJECT.json` maps every definition to the lines it stands for. Operators
whose comment begins with *Mutant* are plausible bugs of the definition that
follows them, kept to show that each property can fail; no specification uses
them.

### FsuipcFlightVars

State is what the C++ objects keep: `subs` is all the handler lists of the
database together, `known` its list of offsets, `observed`, `pending` and
`cached` the observer's set of offsets, its pending welcomes and its values,
`coreIds` the router's table, `nextId` the counter of `make_subscription_id`.
`memory` is the simulator, `told` a history of what the handlers were told.

An operation is one action, from the core down to FSUIPC. `Subscribe` inserts
the subscription, observes the offset when it is new, makes it welcome and
queries its current value into the cache - also when older subscribers compare
with the old one. `SubscribeThrows` is the same operation when the query fails:
what was inserted stays, and the caller gets no identifier. `CheckForUpdates`
notifies the subscribers of `Due`, the offsets that are welcome or whose value
differs from the cache. `Update` writes to FSUIPC, which keeps the low bytes
that fit in the offset (`Stored`). `SimulatorChanges` is the environment.

Data left out: addresses and lengths (an offset is a model value with the
number of values that fit in it), and the formatting of names: that two names
may be one offset, or none, is kept in `OffsetOf`.

### UpdateObserver and FsuipcUser

The same observer without the atomicity. `check_for_updates`, `start_observing`,
`stop_observing` and `update` begin an operation of a thread (`net` or `tick`);
then each request queued (`QueryRead`), the end of the loop (`QueryEnd`), each
value evaluated (`Evaluate`) and the return (`Return`) is a step, and so are
those of `FSUIPC_Process` between them: the terminator behind the requests
(`Process`), the message to FSUIPC, which serves or refuses it (`Send`), the
reset of the buffer (`SendReturns`), each answer copied (`Copy`) and the second
reset (`CopyEnd`). `posted` chooses once how ticks arrive: as jobs of the network thread,
which then do not overlap with its operations, or on a thread of their own.

`FsuipcUser` is the library as the local adapter calls it: `view` is the one
buffer, whose slots keep what was in them until they are written again, and
`next` the place in it (`m_pNext`), where the next request is written and, while
answers are copied, where the next one is taken from. `at` is the slot whose
header a thread looks at, which need not be the same place when another thread
moves `next`. `list` is the list of values of each query, on its stack; a read
request names the thread it belongs to. What happens to a comparison with a
value that is not in the cache is undefined in the code and a choice in
`Compare`. `put` and `raced` are history: whether an answer was copied to a
value, and the observations a check ran over while they began.

Two threads that use the buffer without a lock are a data race in C. It is taken
at the grain of one request queued, one message, one answer copied: what the
machine makes of two half-written headers is left out, as are a walk past the
end of the buffer (`Advance` stops there) and a value written to the stack of a
query that has ended (`Put` loses it, or finds the next list of the thread).

### FlightVarsServer

One action per handler of `server.cpp`, each running on the one thread of the
`io_service`: `Accept`, `OnReadBeginSession`, `OnReadRequest` (which dispatches
to `HandleSubscriptionRequest`, `HandleUnsubscriptionRequest`,
`HandleVarUpdateRequest` or ends the session), their error completions,
`OnWriteMessage`, `Tick`, `SendVarUpdate` and `Destroy`. `stage` says which
reference keeps the session alive: a read, the write of a reply, or at most its
posted updates; `Destroy` is the destructor and, since nothing runs between the
last reference going and the destructor, other handlers wait for it
(`IoThreadFree`).

Reads are what makes this component hard: a completion brings some bytes, which
complete up to `MaxBurst` messages, or none, and may hold a part of another
however often that one was cut before; the handler takes one message and reads
again, with the others left in `inbuf`. The order of what is written to a client is
the order of the writes, so `granted` and `seen` say what the client knows once
it has read everything. Clients send identifiers they have been granted, or one
message that is out of place, which ends the session like any malformed one.

### SubscriptionDb and FlightVarsClient

The database is three maps over shared entries: `byVar`, `byMaster`,
`byVirtual`; `listed` are the handlers in the entries. Its operations are
operators the client's handlers apply, with their exceptions as guards
(`VariableDefined`, `VirtualDefined`).

In the client an application thread is a pair of actions: `Submit` (the call up
to the wait: the request is posted, whatever the state of the connection) and
`GetResult` (the wait ends: with the outcome, or by timeout). `RunPost` runs
one posted request on the client's thread. A read completion brings `n` whole
messages, perhaps with part of the next one: `OnMessageReceived` handles one of
those in the buffer and leaves the others there. `OnPartialMessageReceived` is a
completion that holds a part of a message only: since the client sets no mark,
what was deserialized is gone (`torn`). What comes next begins in the middle of
that message: `OnGarbageReceived` takes it for another message and gives the
connection up, or finds it too short for one, such as the single byte that the
end mark may leave, drops it in the same way and reads on. Then an answer may
have been lost on a connection that is up, and `missed` remembers which. That
the rest of a message happens to read as a whole message is left out.
`Disconnects` fails what is in the pool and closes.

`Handshake` and `HandshakeFails` are the constructor, whose thread begins at some
later time (`ThreadStarts`) with the `reset()` of the `io_service`. The destructor
is in its steps: `Stop` is `io_service::stop()`, which a thread that has not begun
undoes (`stop` is `"lost"`); `Join` waits for the thread to leave `run()`
(`ThreadExits`: stopped, or neither a read nor a post is left) and writes
end_session; `RunPost` and `ResidualRead` are what `close()` lets the `io_service`
run; `Closed` is the return of `close()`, or its exception.

The server side (`ServerHandles`, `ServerTells`, `ServerBreaks`) is a session of
`FlightVarsServer` as its client sees it, with values left out: each read
completes with some messages, `arrived` says how many have come, and the first
is handled; with no more bytes to come, what has arrived stays. Each reply is
written before the next request is read, updates are written for what the
session has, and the connection may be closed or reset.

### ByteStream and RingBuffer

`ByteStream` has `unread` bytes, the bytes `kept` since a mark, and the last
bytes `out`: accept as many bytes as there is room for, deliver as many as
there are, mark, unmark, rewind. `RingBuffer` is the code: an array, two
indexes, a count, a mark and its distance. `Read`, `Write`, `set_mark`,
`unset_mark` and `reset` are the methods; `Receive` is
`async_write_some_from`: two chunks are offered to the socket
(`FirstRoom`, `SecondRoom`), a prefix of them is filled, and the index moves.
The refinement mapping reads `unread` off the array from the read index
(`Unread`) and `kept` from the mark (`Kept`).

### MessageCodec and Wire

`WriteLayout` and `ReadLayout` are the two sides of `proto/serial.h` and
`proto/deserial.h`: the fields of each message and how their bytes are written,
and how they are read until the bytes run out ("eof") or make no sense ("bad").
A message is a record of its type and fields, a field its bytes; only the
normalization of floats is left out. No message has more than five fields, so
`serialize` writes, and `ReadFields` reads, five in a row, of which those that
the type does not have are nothing. `IsMessage` says what a message object of
the program can be: the fields of its type, each of its size, a boolean that is
0 or 1, and a value of the type its code names.

`Wire` carries them: `write_message` serializes into a linear buffer, where a
message that does not fit is not sent, and the socket takes all of it or less;
`on_read` is a read completion with any number of the bytes on their way, after
which the reader decodes one message or keeps the bytes (the server, which has
a mark) or not (the client). `damage` records which of three known losses has
happened, so that the property can speak of the rest.

### CockpitPanel, FsuipcCockpit and WilcoExporter

`CockpitPanel` is the data of `cockpit-fsuipc.cpp` and `cockpit.cpp`: which cell
carries which event or value, what the event does, in the order the code polls
them. A control is its place in that list (`Controls`), and a control takes part
when the panel of the model has its cell (`Fitted`). `FsuipcCockpit` is `cockpit_back::map()`: `sync_down` reads the cells into
one of two images and swaps them, `MapDown` compares the images and applies
presses and changed values to the aircraft (or throws in the middle), `MapUp`
writes the aircraft into the image (as far as it can be read) and `sync_up` the
image into the cells. A panel may write any cell between any two of them. Each
step that touches FSUIPC may fail, and so may the opening of the link to it.
`wanted`, `touched` and `clean` are history, and the properties of the map are
conditional on them: a press is *wanted* when no map was under way as it was
made (one made between `sync_down` and `sync_up` is overwritten by `sync_up`),
and the map is *clean* when the last one completed (after a failure the images
differ by what the map itself wrote, and the next second takes that for a
panel's).

`WilcoExporter` adds `plugin.cpp`: each message of SimConnect is an action that
the plugin's receiver takes from `queue` (`on_simconnect_open`, the system
state, the title and the events of each second); `Load` and `AnswerTitle` are
the simulator, whose answer names the aircraft of the moment of the answer.
A message without a receiver is dropped (`NotDelivered`), an event without a
subscription is not raised. `open()` dispatches messages before there are
receivers, and each call to SimConnect may be refused, which throws out of the
receiver to where the exception is dropped: `missed` says that one of these
befell the plugin and that it has not asked for the aircraft since.

### Pedestal and CommandGateway

`Pedestal` has what the pilot moves, what the sketch last scanned, the debounce
age of each switch, the lights, the serial lines in both directions, and
`loop()` as one action: the event polled (perhaps cut by the timeout), the ECAM,
the knobs, the engine panel, the keypads. `CommandGateway` executes a line as
one callback of the script, calls back for observed LVARs some time after they
change, and may be restarted; the device may be reset while it runs, which
sends its setup again. `GatewayAssumption` says what the names in the sketch are
like: each LVAR is written from one place (`Written` are all of them) and none
that is written is observed. `told`, `heard` and `typing` are history: which input or
LVAR is in a state the properties make a promise about. They make none about a
button whose last change was not sent, a key that overlaps another, an LVAR
whose last line was cut by the timeout or did not fit the serial input, or a
device that is silent.

---------------------------------------------------------------------------

## 3. Runs

| run | specification | what it checks | what it shows |
|---|---|---|---|
| `delegate` | `FairDelegate` | `TypeOKDelegate`, `ObservedAsSubscribed`, `CachedWhenCompared`, `NoStaleSubscriber`, `EventuallyTold` | the tables of the core, the database and the observer agree after any sequence of subscriptions, failures included; a second subscriber does not hide a change from the first |
| `server` | `FairSpec` | `TypeOK`, `MapperMatchesDelegate`, `SessionTakesAll`, `NothingLostOnTheWay`, `UpdatesOnlyWhenGranted`, `EventuallySeen`, `ClosedSessionEnds` | one session, with several requests in a read and partial messages, subscribing again while updates for the old identifier are posted, FSUIPC failing, closed or reset at any point: the tables of both sides agree, the client learns the value the simulator settles on, and an ended connection ends its session |
| `server_burst` | `FairSpec` | `RequestsAreHandled` (violated) | section 6 |
| `server_orphan` | `Spec` | `NoOrphan` (violated) | section 6 |
| `client` | `FairSpec` | `TypeOK`, `DbConsistent`, `AnswerComing`, `SessionAgrees`, `ForgottenWhenRefused`, `ConnectionOutlivesRequests`, `NoHandlerAfterUnsubscribe`, `SettledOnce`, `CallsReturn`, `DestroyEnds` | two threads that share a variable, with timeouts, bursts, split messages and broken connections: what client and server know of each other, what a connection or a request can be lost to, and that a call returns without its timeout and the destructor ends, but for the cases that the properties name |
| `client_shared` | `Spec` | `SharedVariablesWork` (violated) | section 6 |
| `ring` | `Spec` | `TypeOK`, `OffersOnlyFreeRoom`, `OffersAllFreeRoom`, `ThrowsOnlyWhenFull`, `IsByteStream` | the ring buffer implements the byte stream, mark and wrap-around included |
| `wire` | `Spec` | `DecodedAsSent` | every message is decoded as it was sent however its bytes are cut and joined; what is lost is lost through one of the three known damages |
| `observer` | `Spec` | `RequestsAreLive`, `ValuesAreAnswers`, `CacheIsTold` | with ticks on either thread and any refusal of FSUIPC, no subscriber is left behind the cache, but for observations a check ran over as they began; with ticks on the network thread, no answer is copied into a query that ended, and what a query evaluates is what FSUIPC answered |
| `observer_threads` | `Spec` | `ReadsAreCommitted` (violated) | section 6 |
| `wilco` | `Spec` | `TypeOK`, `PressesKept`, `CockpitMatchesAircraft`, `EventsOnlyFromPanel`, `PanelsShowAircraft` | the cockpit comes to be that of the aircraft flown, unless a call to SimConnect failed since the plugin last asked; a press made while nothing is mapped waits in FSUIPC through failures at every step until it is applied; and from one completed second to the next only panels make events |
| `devices` | `Spec` | `InputsReach`, `LightsShow` | inputs reach the LVARs and LVARs the lights, through debouncing, cut lines, a full serial input, restarts of the script and resets of the device |

### Bounds, and why they are enough

* `delegate`: four variables (two names of one offset, one of a second offset,
  one that is no offset), spans of 4 and 2 values with values up to 2, so that
  one offset truncates what is written to it and the other does not; three
  subscriptions, so that an offset can be subscribed twice and again after it
  was dropped. One subscriber: handlers are told apart by their identifiers.
* `server`: one offset name and one that is not; three requests and three
  identifiers - subscribe, unsubscribe, subscribe again, which is the shortest
  sequence in which an update posted for one subscription meets another; two
  messages per read and two updates posted, so that order matters.
  FSUIPC may fail. One session: `NothingLostOnTheWay` was also checked with two
  that share an offset, with two requests, and the invariants are proved for any
  number of them; several subscribers of one offset are in `delegate`.
* `server_burst`: as `server` with two requests, which are enough for one to wait
  behind another. `server_orphan`: as `server`.
* `client`: three calls by two threads that share a variable the server knows;
  one of them also uses a variable it does not: two subscriptions to one variable
  that cross or do not, an unsubscription after a subscription, another thread's
  request between them; two messages per read on either side, so that a reply
  and an update, or two requests, arrive together; messages cut anywhere.
  Four calls on one variable were checked without the liveness properties, and five with
  variables of their own, while the invariants were being found. `client_shared` has
  no timeouts, cuts or bursts and an unbroken connection.
* `ring`: capacity 3 with calls of up to 4 bytes: one more than fits; every
  position of the two indexes, the mark between, before and behind them, full
  and empty; two byte values tell an overwritten byte.
* `wire`: messages of every type and values of every kind, whose bytes are
  chosen to do harm (an end mark or a message code inside a string, an
  identifier that reads otherwise backwards); two of them, so that one follows
  another in any cut; an output buffer of 20 bytes that one reply does not fit;
  an input buffer of 64 bytes at the server, which never fills, and 30 at the
  client, which does.
* `observer`: two offsets, so that a query has several requests and the table
  changes under its loop; three slots, one of them for the terminator, so that
  a short message follows a long one and finds its stale slots, and a buffer
  can be full; two values, so that a change between any two steps shows; no
  bound on the operations. With ticks on a thread of their own one offset is in
  use (`ThreadOffset`): each thread has at most one request of it, and the
  slots hold those of both. `observer_threads` has two in use and four slots.
* `wilco`: the two controls the aircraft keeps in FSUIPC itself - the flight
  director (a button) and the mach number (a value) - which are the ones whose
  reading throws and whose setting writes FSUIPC; a Wilco and another aircraft,
  one further load, two messages on their way; the first message of SimConnect
  received or missed, and every call to it accepted or refused.
* `devices`: two buttons, one of which writes a second LVAR, a knob
  with a level within the tolerance of another, a master switch, a selector of
  two positions, a key with an LVAR and one without on two keypad controllers;
  two moves, two restarts, three lines before the device waits, two lines in
  its input. `CallsAtFirst` is what the documentation of FSUIPC leaves open:
  FALSE is the harder case; the properties also hold for TRUE, checked with one
  move and one restart.

`MaxSubs`, `MaxRequests`, `MaxUp`, `MaxPosted`, `MaxCalls`, `MaxUpdates`,
`MaxValue`, `MaxCall`, `MaxMessages`, `MaxQueue`, `MaxLoads`, `MaxMoves`,
`MaxRestarts`, `MaxLines`, `ThreadOffset` and `Room` bound the model only. `MaxSubs` and `MaxRequests`
are such that no handler is disabled for want of an identifier
(`ServerAssumption`). `MaxPosted` disables `Tick` while a queue is full, and
so delays the observer but drops nothing. `MaxBurst` is a parameter of the
environment: how many messages one read may bring.

Deadlock is not checked in the runs of the client (an application may stop
calling, and a closed client has nothing left to do), in `wire` (a reader that
gave up, or a stream that has been read) and in `devices` (a device cannot go
on while nobody reads its lines and no restart is left). The others check it.

---------------------------------------------------------------------------

## 4. Fairness

* `WF(CheckForUpdates)`, `WF(Tick)`: SimConnect raises its 6 Hz event as long as
  the simulator runs, and the handler takes no lock.
* Weak fairness of every completion handler, posted job and destructor of both
  sides: a thread is running `io_service::run()`, whose queue is FIFO, and TCP
  delivers or reports an error. A read completes when there is something on its
  way to it, not when the buffer above it holds messages: a server or client that
  has received all that was sent waits, whatever it has not handled. That is
  what `RequestsAreHandled` fails on, and what `ServerStalled` and `ClientStalled` name in `CallsReturn` and `DestroyEnds`.
* Weak fairness of `GetResult` only once the promise is settled: the operating
  system wakes up a waiting thread.

Nothing is asked of the application, of clients, of the simulator or of
failures: they may do something or not. What depends on the simulator stopping
to change says so: `EventuallyTold` and `EventuallySeen` are about the value
the simulator settles on, and `ClosedSessionEnds` needs it because each posted
update keeps the session alive.

`observer`, `wilco`, `wire` and `devices` state safety only. Where they speak of
what a system comes to ("once every message has been handled", "when the lines
on their way have arrived"), they do it of the states where nothing is on its
way any more, or count what still is.

---------------------------------------------------------------------------

## 5. Proofs

Every safety property of the passing runs is a theorem. Every theorem holds for any values of the constants that satisfy the named assumptions
of the modules, which TLC evaluates in the runs:

* `DelegateAssumption`, `ServerAssumption`, `ClientAssumption`,
  `WilcoAssumption`, `BoundsAssumption`, `FsuipcUserAssumption`,
  `UpdateObserverAssumption`, `CapacityAssumption`,
  `MaxCallAssumption` say what kind of thing each constant is (and, for the
  server, that its bounds never disable a handler);
* `PedestalAssumption` adds what the hardware fixes: an analog input reads
  0 to 1023, keys are those of eight keypad controllers of 16 keys, and the pins
  of the selector (`engine.h:12`) are not those of the switches;
* `GatewayAssumption` that no two inputs write one LVAR and none writes an LVAR
  that the pedestal observes, which is so of the names in `ecam.h`, `engine.h`
  and `mcdu.h`; were it not, an LVAR could not show both inputs;
* `WireAssumption` that what the peers send are messages (`IsMessage`), and that
  an output buffer has less than 65536 bytes (the code makes them of 128 and
  1024): the length of a string is written in 16 bits, and one that fits such a
  buffer is not truncated.

**FsuipcFlightVars_proofs.** `DelegateInv` is the conjunction of the type
invariant, the invariants of the run and two on identifiers (`IdsAreUnique`,
`CoreIdsKnown`); it is inductive. None of the parts is inductive alone where it
matters: `NoStaleSubscriber` after `CheckForUpdates` needs `CachedWhenCompared`
(what is not due has a value equal to memory) and `ObservedAsSubscribed` (what
is due reaches every subscriber), and `IdsAreUnique`, since `told` is indexed by
identifier. `DelegateInvariant` is `SpecDelegate => []DelegateInv`, one lemma
per action; the theorems about single properties follow from it. So does
`IdsKnownAlways`: identifiers name one subscription, and the `unsubscribe()`
calls of a destructor find theirs.

**FlightVarsServer_proofs.** The server is proved on top of the delegate's
lemmas, for any number of sessions, messages in a read and updates posted.
`ServerInv` is the delegate's invariant, the invariants of the run, and what
they need:

* `MessagesAreOwn`: an identifier in a message, received or on its way, is one
  of the session that sent it, for ever - identifiers are not used again. Without
  it an unsubscription could take the subscription of another session, and
  `MapperMatchesDelegate` would break;
* `FreshIsUntold`: an identifier not handed out has been told nothing, or a new
  subscription would start with the value of an old one and
  `NothingLostOnTheWay` break;
* `UnusedIsEmpty`, `CoreKnowsAll`: the mapper is empty where there is no session,
  and the core knows every subscription unless FSUIPC has failed, for
  `NoOrphan` when a session is destroyed.

Steps are of three kinds, with a lemma each for what they leave alone:
`LocalInv` (messages and the stage of a session), `TableStep` (handlers, whose
effect on the tables is `TablesFollow`, proved for each request), `UpdateStep`
(ticks and posts). `SessionTakesAllAlways` is `MapperMatchesDelegate` with
`UnusedIsEmpty`: what the core has an identifier for goes with its session. That
there is nothing else, `NoOrphanAlways`, assumes `~FsuipcMayFail`; section 6 says
what happens otherwise.

**UpdateObserver_proofs.** With ticks posted there is one operation at a time, and
`BufferInv` says what the buffer of the library holds at each of its stages
(`Stage`): the requests of this operation and nothing else, all the reads of its
list among them (`Queued`); a terminator at the position while FSUIPC has it; and
while answers are copied, a terminator ahead with requests of this operation up
to it, where each value of the list has been copied from a slot that is still
there, or has its slot to come (`Copied`). The slots behind the terminator are
stale, and nothing is said of them: that no answer is taken from them is what
the terminator is for, and `Unterminated`, the mutant without it, breaks
`RequestsAreLive`. An operation that FSUIPC refuses throws with the position
reset, so that it leaves no request (`(\A t : op[t] = Idle) => next = 1`).
`RequestsAreLiveAlways` and `ValuesAreAnswersAlways` follow.

`CacheIsToldAlways` is proved for ticks posted or not, with nothing but types said
of the buffer: it holds whatever the two threads read. It needs to know how
far each thread has come: `OwnOffset` and `OwnIsWelcome` for `start_observing`,
which fills the cache with a value nobody was told while the welcome is pending;
`CheckIsComplete` for the check, which clears the welcomes at its end and has
compared everything by then. Before it was proved, TLC found `ObserverInv` to hold
with the constants of both runs.

**WilcoExporter_proofs.** `CockpitMatchesAircraft` speaks only of states with
nothing on the way, unless a call failed since the plugin last asked (`missed`).
`LastAnswerIsLoaded` says what leads there: once the plugin
has nothing more to ask, the *last* title in the queue is that of the aircraft
flown, however many titles of earlier ones come before it, and with no title in
the queue the cockpit matches. `Noticed` is why it stays true when another
aircraft is loaded: its event is subscribed to, or the open message, which asks,
is still to be handled (`OpenFirst`: before any other), or has been missed. A
message that is dropped for want of a receiver is then one that the plugin
would not have heard of anyway.

The map of the cockpit is proved for any panel, that is any choice of the forty
controls, and for the whole tables. `CockpitInv` follows a press or a value
through the steps of a map:

* `CockpitTypeInv`: a variable that a press inverts holds 0 or 1. It needs the
  tables: no such variable is set by a value or by a press of another kind
  (`ControlEntries`, `Effects`);
* `WantedInv`: a press that is wanted is still 1 in FSUIPC, whatever is written
  in between, and in the image while that one is applied; when the presses have
  been applied none is wanted any more and the image that `sync_up` will write
  has none. That presses and outputs have cells of their own (`CellsApart`)
  keeps `sync_up` from erasing one, or inventing it;
* `TouchedInv`: unless a map has failed since the last complete one, what no
  panel has touched is in FSUIPC as it was shown, so that the difference between
  the two images is the panels' - for the values, which share their cells with
  outputs, too;
* `ShownInv`: before `sync_up` the image shows the aircraft, each output in a cell
  of its own (`OutputsOnce`).

Before it was proved, TLC found `CockpitInv` to hold with the constants of `wilco`
and with those of another panel.

**FlightVarsClient_proofs.** Lemmas about `SubscriptionDb` come first: adding a
virtual subscription, creating an entry and removing a virtual subscription keep
`DbConsistent`, under the guards with which the client calls them.

The type invariant alone is not inductive: a posted request must be one that has
been made, or `RunPost` would look up a call that is not there. `ClientInv` adds

* `DbConsistent`, from the lemmas above;
* `OnePlace`: a request is in one post or one entry of the pool, not in both,
  not twice, and is unsettled as long as it is there; it has no virtual
  subscription yet;
* `Unsubscribed`: an unsubscription is for a subscription that was granted,
  which is gone for good once the request has been run.

`SettledOnceAlways` follows because a step settles only requests that are in
the pool or have just been posted (`OnePlace`); `NoHandlerAfterUnsubscribeAlways`
because virtual identifiers are not used again (`Unsubscribed`, `OnePlace`).
Both hold with timeouts, split messages, bursts and broken connections.

The second half of the module is what client and server make of the messages
between them: `Going` to the server, `Coming` back, received or not, and `Told`,
which adds those the client has dropped (`missed`) - the server has told it, and
will not say so again. `SessionInv` adds to `ClientInv`, for as long as the client
has not given up (`Listening`) and the connection lasts (`Lasting`):

* `GrantsAreNew`: a `SUBSCRIBED` that was told and not handled is the only one of
  its variable and of its identifier, is not both coming and dropped (`Fresh`),
  and the client has no entry for either. Without it `create_entry` could meet
  an entry and the databases part;
* `SessionIsOrdered`, `BothSidesKnow`: what the client has the session has; what
  only the session has, it has told the client, which has not handled it or has
  dropped it, or an unsubscription is on its way about, never both; an
  unsubscription is sent once;
* `RequestsAnswered`: `AnswerComing`, by variable and by identifier.

`SessionAgreesAlways` and `AnswerComingAlways` follow, with no hypothesis: they
hold when threads share variables, calls time out, and messages are split and
dropped on a connection that lasts. What is dropped is in the conclusion, not
excluded by a hypothesis: a request of the pool whose answer was dropped has no
other coming.

`OwnInv` is about what the server refuses. `crossed` is history: a subscription
has been sent while another to the same variable had no answer. Until then there
is one question, one answer, or one dropped answer about a variable (`OneAsked`,
`OneDropped`); the question comes after the unsubscription of what the session
has (`InTurn`), so that nothing is refused (`NoneRefused`), and each reply finds
the requests that it settles. From it:

* `ConnectionOutlivesRequestsAlways`: the client gives up a connection that the
  server keeps only once a message was `torn` or subscriptions `crossed`. That
  threads cross only when they share a variable, or one of them gave up waiting
  and asks again, is in the definition of `crossed` and not assumed;
* `ForgottenWhenRefusedAlways`, from `ForgottenInv`: a promise that neither the pool
  nor a post holds any more is that of a subscription to one variable, whose
  refused reply ended the connection (`connection_manager.cpp:441`). It happens
  once, to all the requests for that variable together.

Both hold for any threads, variables, timeouts, bursts, splits and broken
connections. Before they were proved, TLC found `SessionInv` and `OwnInv` to hold
with the constants of `client`.

**CommandGateway_proofs.** `GatewayInv` is proved for any buttons, knobs,
switches and keys, and any number of lines and restarts. Both properties speak
of a port that is open; what makes them true is settled before.

* `Greeted`, `InputsShown`: the inputs are shown by the lines on their way from the
  moment the next line read opens the port, not from its opening. A restart of
  the script, or a line that is not the greeting, loses what was on its way, and
  `told` and the states of the switches must not promise it; a reset of the
  device sends everything again behind its greeting;
* `EventsReach`: an LVAR heard of has a watch whose value the lights will show
  once the last line about it has been read (`WillShow`). A device that was
  reset observes twice, so there may be several watches, behind one another;
* `PolledShown`: `pollEvent` that times out leaves the last event polled, and the
  ECAM processes it again: it changes nothing because the lights show it already;
* `KeyAlone`: where the keypads stand with a key that was pressed alone;
* `NothingHeard`, `WatchesObserve`: a session begins with nothing heard, and an
  event has an observer to tell.

`Latest` is a maximum over the lines on their way, and the outputs and inputs of
a scan are written in an order (`SetToSeq`) that is not defined further; the
lemmas that open the module say what is needed of either, by induction on the
naturals as well-founded (`LeastNumber`). Before it was proved, TLC found
`GatewayInv` to hold with the constants of `devices`.

**RingBuffer_proofs.** `RingInv` states, besides types, where the write index
is: as far ahead of the read index as the count says, in the three ways the
code represents it (`WriteIndexAhead`, `ReadIndexAhead`, `WriteIndexAtEnd`) -
the indexes alone do not say whether the buffer is empty or full, and each may
rest at the capacity, where another ring would have 0. From it:

* `OffersOnlyFreeRoomAlways`, `OffersAllFreeRoomAlways`: the chunks offered to
  the socket are disjoint from the unread bytes and those kept for the mark,
  and are all the room there is;
* `ThrowsOnlyWhenFullAlways`: the fixed buffer's bounds check only fires in a
  full buffer;
* `RingIsByteStream`: `Spec => Stream!Spec`. The step cases rest on lemmas
  about windows of the array (`WindowSplits`, `WindowsJoin`): a window taken
  from an index round the end is the concatenation of two shorter ones.

**Wire_proofs.** `DeserializeSerialized` is about the operators alone. Let `x` be
bytes that begin with those of a message *as far as they go* (`MeetsAt`): then
`deserialize(x)` is that message and the bytes after it if all its bytes are
there, and an end of file if any is missing - never a protocol error, and never
another message. The second half is what lets a server put back what it has
read and try again. `Ready` carries it through the fields: a reading has either
come to the end of the bytes, or has the fields so far and stands before the
bytes of the rest. There is a lemma for each thing that is read
(`ReadNumberReady`, `StringReady`, `ValueReady`), one that the two layouts of each
type go together (`LayoutsMatch`), and `FieldReady`, that is applied five times.

`StreamInv` is the invariant of the stream, for as long as `damage` is empty.
`DecodedAsSent` is not inductive: it says nothing of the bytes. `RestComing` does:
there is a `cut`, the place where each message that was sent and is not yet read
ends in what is unread and on its way, and between two cuts are the bytes of one
message (`IsCut`). A write adds a cut (`CutWritten`), a chunk that TCP delivers
moves bytes from the wire to the buffer and leaves the cuts where they are
(`ReadMoves`), and a message read takes the first cut away and moves the others
(`CutRead`). The cuts are a witness in the invariant, so that no recursive
definition of the concatenation of all messages is needed. Before it was proved,
TLC found `StreamInv` to hold with two and three messages on their way.

Only model-checked:

* the liveness properties, which are out of the prover's reach (so is ENABLED):
  `EventuallyTold`, `EventuallySeen`, `ClosedSessionEnds`, `CallsReturn`,
  `DestroyEnds`.

---------------------------------------------------------------------------

## 6. Where the code disagrees with what it says

Four runs look for a violation of what the code states, and find it.

* `server_orphan`: FSUIPC fails while `start_observing` queries a value
  (`update_observer.h:95`). The subscription is in the offset database by then;
  the session is dropped without its identifier and unsubscribes what its mapper
  has, which is not this one. The subscription persists and its handler is
  called with every change, for a session that is gone: `NoOrphan` is violated.
* `server_burst`: two requests come in one read. `on_read_request` takes one
  (`server.cpp:203`) and waits for more bytes with the other in its buffer:
  `RequestsAreHandled` is violated, although each request has a response
  (`messages.h:61`).
* `client_shared`: two threads subscribe to one variable before the first reply
  (`connection_manager.cpp:267`), which `subscription_db.h:37` says is supported.
  Two requests are sent; the first reply settles both; the second,
  `VAR_ALREADY_SUBSCRIBED`, finds nothing to settle, and the client disconnects:
  `SharedVariablesWork` is violated.
* `observer_threads`: the tick thread walks over the answers of FSUIPC while the
  network thread queues a request. Both use the one position in the buffer
  (`module-user.c:177-211`), so a query may evaluate a value that was never read,
  although `process()` is to commit the pending reads (`client.h:53`):
  `ReadsAreCommitted` is violated.

Met while modelling, and in the models as the code has them:

* An update or a reply that comes in one read with the message before it stays in
  the client's buffer (`connection_manager.cpp:364`) until the server says something
  else, although the handlers are to be invoked when an update is received
  (`subscription_db.h:64`). `ClientStalled` in `CallsReturn` names it.
* A reply that arrives in two reads is lost: the client sets no mark before it
  deserializes (`connection_manager.cpp:394`, whose comment at `:392` takes it for
  waiting for the rest), and the rest, when it is too short for a message, is
  dropped as well. The request then has no answer coming, on a connection that is
  up (`missed` in `AnswerComing` and `SessionAgrees`). A longer rest is taken for a
  malformed message and ends the connection (`torn`). `Wire` counts both as damage.
* The destructor stops the `io_service` (`connection_manager.cpp:230`), whose thread
  begins with `reset()` (`:210`). A client destroyed before its thread has begun
  waits for it until the server ends the connection (`DestroyEnds` names it). And
  the error of its last write is thrown out of the destructor (`:186`; `threw`).
* In a full ring buffer with equal indexes that are not 0, `read()` takes the
  buffer for an unbroken one and the fixed buffer throws (`ring.inl:200`),
  although the bytes are there, which `stream.h:30` says are read as far as
  available. `ThrowsOnlyWhenFull` says that it is the only case.
* An end of file before the greeting is handled like a partial message: the
  server reads again, gets the end of file again, and so on
  (`server.cpp:143-148`; `OnReadBeginSessionError` stutters).
* The client takes a greeting received in two parts for a closed connection
  (`connection_manager.cpp:140-148`; a disjunct of `Handshake`).
* A write that sends a part of a message is not continued (`server.cpp:447`; a
  damage of `Wire`), and a reply that does not fit its buffer is not sent
  (`server.cpp:435`).
* With ticks on a thread of their own, the welcomes are cleared after the query
  (`update_observer.h:140`): an observation that began in between loses its
  welcome and is not told until the value changes (`raced`).
* An open message that SimConnect delivers while the connection is being opened
  finds no receiver (`simconn.cpp:160`, `:373`), and the exception of a call that
  SimConnect refuses is dropped (`simconn.cpp:191`): the plugin maps no cockpit,
  or does not hear of the next aircraft (`missed`).
* A press made between `sync_down` and `sync_up` is overwritten
  (`cockpit-fsuipc.cpp:290`), and after a failure what the map wrote differs
  from the other image and may come back as a command
  (`cockpit-fsuipc.cpp:306`).
* The code of a float zero or of a negative float is undefined (`binary.h:124`
  makes a significand an unsigned number); `MessageCodec` has positive floats.
* `get_fpa` throws for a negative flight path angle (`wilco-fcu.cpp:240`), every
  second, and what the map shows after it is not shown (`Unreadable`).

And in code the models do not reach: `asio_const_buffers` of the ring buffer
counts the room for writing instead of the bytes for reading (`ring.inl:249`);
the identifiers of two groups of SimConnect messages, weather and clouds, are
swapped (`simconn.cpp:275-288`). No program uses either.

---------------------------------------------------------------------------

## 7. What is not modelled, and why

* **Clients that name what they were not granted.** The clients of
  `FlightVarsServer` are `connection_manager`s: they use their own identifiers.
* **The thread of the client before it has a handle**: the constructor assigns
  `_client_thread` after the thread has begun, and a handler that runs first
  compares itself with no thread (`connection_manager.cpp:341`). The model takes
  the assignment to come first.
* **The offset database on two threads.** `UpdateObserver` interleaves the
  observer and the FSUIPC library; the lists of handlers above them are modelled
  on one thread. Iterating over a table another thread inserts into is modelled
  as a loop that may see the insertion or not.
* **Lengths of offsets, names, addresses, versions, log messages**; FSUIPC's
  limit of 32 KB of requests, which the offsets of a cockpit do not come near:
  `FsuipcUser` has a buffer of few slots, and no error when it is full.
* **Handlers that call back.** The application's handlers do nothing in the
  models. One that calls a blocking operation of the client would wait for the
  thread it runs on.
* **SimConnect, FSUIPC, Boost.Asio, TCP, the aircraft's DLL, the Lua runtime**
  are modelled by what the code relies on: ticks and messages come, requests
  succeed or throw, completions run on the thread of the `io_service`, bytes
  arrive in order or the connection ends, a callback runs to its end.
* **Numbers in the panels** (speeds, headings, altitudes): a value is one of few,
  enough to tell whether it changed.
* **Code that no program is built from**: `flightvars/src/lib/client/flight_vars_client.cpp`
  and `wilco-exporter/src/mapping.cpp` are not in the build; the FCU sketch is
  written for a version of the OACSP library that is not there; the executor,
  `async_read_some_to` of the ring buffer, the copy of a linear buffer, menus,
  weather and data definitions of SimConnect have no user.
* **Offset commands of the gateway and more than one port**: the pedestal sends
  LVAR commands only, on one port.
* **Registering tick handlers, loading and unloading the DLLs, explorer,
  logging, filesystem, LED and display libraries, installer, boards, test
  utilities, the rest of the vendored FSUIPC library**: I/O, front ends, or third-party code
  with no state of interest.

---------------------------------------------------------------------------

## 8. Plan

Done: the delegate, the server that composes it with sessions, the client that
composes the database with a connection and a server, the ring buffer and its
refinement, the observer on two threads, the wire, the Wilco exporter over the
map of its cockpit, the pedestal with its gateway; the proofs of section 5.

Next, most important first:

1. `SessionProtocol`: what a client may rely on (one answer per request, in
   order; updates for granted identifiers only), with `FlightVarsServer` shown to
   implement it by a refinement mapping; the server inside `FlightVarsClient`
   is then an instance of it. Runs: the bounds of `server`.
2. `UpdateObserver` with ticks posted as an implementation of the observer inside
   `FsuipcFlightVars`, with the offset database above it.
3. `ByteStream` below `Wire`: the buffers of its two ends as instances of the
   stream that `RingBuffer` is proved to implement.
4. The offset commands of the gateway, when a sketch uses them.
