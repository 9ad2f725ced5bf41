# A TLA+ model of sup-epics

`sup-epics` connects process variables of the OAC-TREE framework (SUP DTO's `AnyValue`) to EPICS:
Channel Access (CA) through the EPICS base C library, PvAccess through the PVXS library, and RPC over
PvAccess. The library is a set of small objects that are shared between *user threads* (which call
`GetValue`, `SetValue`, `WaitForConnected`, ...) and *library threads* (the CA callback threads, the
PVXS workers), with mutexes, condition variables and user callbacks in between. That is what the
modules here are about.

All paths below are relative to the repository; library sources are under `src/lib/sup/epics/`.

## 1. Inventory

| Component | State | Operations | Hard behaviour | What makes it correct |
|---|---|---|---|---|
| **CA context handle** `ca/ca_context_handle.*` | task queue, halt flag, context thread, its local batch and cached halt flag, futures | construct, `HandleTask`, context thread loop, destroy | notify outside the mutex; halt tested and task pushed in two critical sections; queue swapped and run unlocked | no lost wakeup, every accepted task runs once, in order, before its caller returns; destruction ends |
| **CA channel manager** `ca/ca_channel_manager.*`, `ca/ca_channel_tasks.*` | map id -> callbacks and channel id, last id, context handle | `AddChannel`, `RemoveChannel`, `UpdateChannel`; callbacks from CA threads | two-step channel creation that can fail half way; callbacks through raw pointers into map entries; context created on demand and destroyed with the last channel; lock held across a rendezvous with another thread | no callback on a dead entry, no channel leaked in the library, context exists iff there are channels, ids are unique |
| **CA channel PV** `ca/channel_access_pv.*` | cache (connected, value, alarm, timestamp), mutex, condition variable, user callback | construct, getters, `SetValue`, `WaitForConnected`, `WaitForValidValue`, connection and monitor callbacks | `notify_one` with several waiters; timeouts; failed monitor events; reconnects | the cache is the last event; callbacks in order; waits return when they may |
| **CA client** `ca/channel_access_client.*` | map name -> PV, callback | `AddVariable`, `RemoveVariable`, getters, `SetValue`, waits, destroy | a PV is called back before it is in the map and until it is destroyed; construction that throws; destruction order of map and callback | callbacks come from variables that exist, to an owner that exists; nothing is left behind |
| **CA conversion** `ca/ca_helper.*`, `ca/ca_monitor_wrapper.*`, the update buffers of `ca/ca_channel_manager.cpp` | none | type and multiplicity mapping, parsing of `dbr` buffers, update buffers | unsigned types carried by enums, texts and signed bytes; truncation to 40 characters; element counts; failed events | what is set comes back; what a record holds is read exactly or not at all |
| **PvAccess client PV** `pvxs/pv_access_client_pv*` | cache, subscription, mutex, condition variable, callback | construct, getters, `SetValue`, waits, `ProcessMonitor` | a batch of events drained at once; value copied, converted and put in separate steps with a timeout; an incompatible update throws | the cache follows the subscription; no put on a disconnected channel that the code could know of |
| **PvAccess client** `pvxs/pv_access_client*` | map name -> PV, callback | constructors, moves, add, get, set, waits, destroy | callbacks before the PV is in the map and until it is gone | as for the CA client |
| **PvAccess server PV** `pvxs/pv_access_server_pv.*` | `AnyValue`, PVXS cache, `SharedPV`, callback | construct, `GetValue`, `SetValue`, `AddToServer`, network put | two mirrored values; post and callback outside the mutex; value set before the server is started | mirrored values and what clients see agree |
| **PvAccess server** `pvxs/pv_access_server*` | map name -> PV, PVXS server, callback | constructors, `AddVariable`, `Start`, get, set, `CreateClient`, destroy | `Start` fails half way or is repeated; variables added after it; callbacks during destruction | a `Start` that returns has published every variable; callbacks find what they use |
| **Shared PVXS context** `pvxs/pv_access_utils.*` | shared client context, server mutex | create | creation race | one context |
| **RPC client, server** `rpc/*` | handler, PVXS client or server | call, handler invocation | timeout racing a late answer; exceptions at each step | every call is answered by one well formed result |
| **Factory and PV wrappers** `factory/*` | PV, callback and its mutex, order of the members | `GetValue` and `SetValue` with their waits, `SetMonitorCallback`, parsing of definitions, construction, destruction | callback under a mutex; wait and read in two steps; callbacks while members are constructed and destroyed | a replaced callback is over; a valid result has a value; no callback finds a member missing |
| **DTO <-> PVXS conversion** `utils/*` | none (explicit stacks of builders) | type, value and back conversion | nested structures and arrays of structures | round trip gives the value back |
| **Plugin registration** `src/lib/sup/epics-di` | none | functions that make RPC configurations, clients and servers | - | they make what the factory makes |
| **Applications** `src/app` | command line | four `main` programs | - | - |
| **Soft IOC runner** `src/lib/sup/epics-test` | child process | start, stop | - | - |

How they interact: `ChannelAccessClient` owns `ChannelAccessPV`s; each registers a channel with the
one `CAChannelManager`, which serialises its callers with a mutex and hands every CA library call as
a task to its `CAContextHandle`. The CA library calls back, on its own threads, into the manager's
map entries, which forward to the PVs; a PV updates its cache, wakes its waiters and calls the user.
On the PvAccess side PVXS worker threads play the role of the CA threads, for subscriptions
(`PvAccessClientPV`) and for puts from the network (`PvAccessServerPV`).

## 2. Plan

In this order, the most important behaviour first.

| Step | Modules | State |
|---|---|---|
| 1 | `CAContextHandle`, and `TaskService`, which it implements | modelled, checked, proved |
| 2 | `CAChannelManager`, composed with `TaskService` and the external CA library | modelled, checked, safety proved |
| 3 | `ChannelAccessPV`: cache, waiters, callbacks; `ChannelAccessPVWrapper` on top of it | modelled, checked, safety proved, the wrapper shown to be a refinement |
| 4 | `PvAccessServerPV`: the mirrored values, the network, the start of the server | modelled, checked, safety proved |
| 5 | `PvAccessClientPV`: events drained in batches; `PVAccessClientPVWrapper` on top of it: the waits and `SetValue` with its put | modelled, checked, safety proved, the wrapper shown to be a refinement |
| 6 | `PvAccessRPC`, and `RemoteCall`, which it implements: a call end to end, its failures, a timeout racing a late answer, the life of the server | modelled, checked, safety proved |
| 7 | `NamedVariables`: the maps of the two clients and the server | modelled, checked, safety proved |
| 8 | `EPICSProtocolFactory`: what definitions and constructors make, construction, moves and destruction member by member | modelled, checked, safety proved |
| 9 | the conversions: `PvxsConversion`, `CAConversion` | modelled, checked, `CAConversion` proved |
| 10 | `PvAccessChannel`, which composes `PvAccessServerPV` and `PvAccessClientPV`, and `SharedVariable`, which it implements: what a client caches is what the server's user set | modelled, checked, the refinement proved |

## 3. The modules

Each component's module has its state as `VARIABLES` under the names of the source where TLA+ allows
it, one action per critical section, call or callback, and its properties at the end.  A critical
section of a mutex is one atomic step unless something in the code can look into it; each exception
is named below.  `MC<Module>` holds the sets TLC instantiates the constants with.  `Mut_...`
definitions are small bugs, used to see that each property can fail; they are no part of the system.
`PROJECT.json` maps every definition to the lines it stands for.

### TaskService, CAContextHandle (`ca/ca_context_handle.cpp`)

`TaskService` is what the handle promises: accepted tasks are executed once and in order, refusal and
discarding happen only while it is closed.  `CAContextHandle` is the implementation: the constructor
and the `LaunchContext` promise (`Construct`, `Launched`, `LaunchFailed`), `HandleTask` in its four
steps (`CheckHalt`, `Push`, `Notify`, `Get`: halt is tested and the task pushed in two critical
sections, `notify_one` is called outside), the context thread (`CreateContext`, `EnterLoop`, `Resume`,
`RunTask`, `EndBatch`, `DestroyContext`, with the swapped batch and the cached halt flag), spurious
wakeups, and the destructor (`SetHalt`, `NotifyHalt`, `Join`, `DestroyMembers`).  `MayOverlap` says
whether the destructor may start while calls are in progress: `FALSE` is how the channel manager uses
the handle, `TRUE` is what the handle's own comments provide for.  `ca_context_destroy()` runs with the
mutex held, so that critical section is two steps.

### CAChannelManager (`ca/ca_channel_manager.cpp`, `ca/ca_channel_tasks.cpp`)

User threads and the thread of the CA library that calls back (a user callback may add, update and
remove channels) run `AddChannel`, `RemoveChannel` and `UpdateChannel`: `Lock`, `AddEntry` (context on
demand, new id, map entry), the rendezvous with the context thread through `TaskService` (`CallHandle`,
`QueueTask`, `TaskReturns`), the clean-up after each kind of failure (`ContextFails`,
`CreateChannelFails`, `SubscribeFails` and the second task that clears a half-made channel),
`ClearContext` and `Unlock`.  `mtx` is held from `Lock` to `Unlock`, across the rendezvous.

The library is external: `ca_create_channel`, `ca_create_subscription` and `ca_array_put` may fail;
callbacks run one at a time; `ca_clear_channel` returns when no callback is running.  A callback gets a
raw pointer into `callback_map`, so that the entry has to be there until the callback returns.
`NewIds` reuses the numbers of removed channels, where the code counts on in 64 bits, in order to stay
finite.  `AddChannel` with an unsupported type, which returns at once, is in `CAConversion`.

### ChannelAccessPV (`ca/channel_access_pv.cpp`, `ca/ca_monitor_wrapper.cpp`), ChannelAccessPVWrapper (`factory/channel_access_pv_wrapper.cpp`)

The connection and monitor callbacks write the cache, call the user with the mutex held (`CallUser`),
release it and `NotifyOne`; user threads `Read` and wait (`StartWait`, `Evaluate`, `Expire`,
`LastLook`, `SpuriousWakeup`).  A wait's timeout may expire whenever its thread sleeps.  A monitor event
is a value, or `Empty` when it failed.  (An `Empty` event replaces the last good value and makes a
connected variable invalid again; `channel_access_pv.h:129` calls it valid after "at least one successful
monitor callback".  The properties follow the code: valid means that the cache is not empty.)

The wrapper splits `CallUser` in two, `OnUpdate` and `EndUpdate`, with the user's callback in between
and `m_cb_mtx` held, for which `SetMonitorCallback` waits; its `IsAvailable`, `GetValue` and `SetValue`
are a wait, and then a second critical section.  A user callback that calls its own variable waits for
itself, which is left out.

### PvAccessServerPV (`pvxs/pv_access_server_pv.cpp`)

One variable is kept three times: `any` (`m_any_value`), `cache` (`m_pvxs_cache`) and `current`, the
value inside PVXS's `SharedPV`, which clients see.  `SetValue` is seven steps, from `BeginStore` to `Tell`;
a put from the network is `BeginPut`, `EndPut`, `TellAndReply`.  The code reads `m_pvxs_cache` for the post
and `m_any_value` for the callback *without* the mutex; therefore each critical section that writes
them has a beginning and an end, and a read that falls in between returns, field by field, the old or
the new content (`AnyReads`, `CacheReads`).  `SharedPV` (open, post, one put handler at a time on one
worker thread, a put with its marked fields) is external.  `StartFirst` says that users set the
variable only after it was published, `FullPuts` that network puts mark every field.

### PvAccessClientPV (`pvxs/pv_access_client_pv_impl.cpp`)

PVXS (external) queues connections, losses and values, and calls `ProcessMonitor` when the queue
becomes non-empty; a full queue may squash its last value.  `ProcessMonitor` is `BeginDrain` (the
local copy), `Pop` for each event, `EndDrain` (cache and callback) or `Throw` (an incompatible value
leaves by an exception and drops the local copy); PVXS goes on pushing meanwhile.  The server's variable
is set, maybe to the value it has, is lost and comes back, possibly with another type (`Foreign`).

`PVAccessClientPVWrapper` (`factory/pv_access_client_pv_wrapper.cpp` and the waits and `SetValue` of
`pvxs/pv_access_client_pv_impl.cpp`) adds one user thread: `WaitForValidValue` and `ReadValid` are
`GetValue`; `WaitForConnected`, `CopyCache`, `RejectScalar`, `RejectType`, `StartPut`, `Answered` and
`PutTimeout` are `SetValue`, which copies the cache under the mutex, and converts, puts and waits
without it.  Puts travel in order (`Execute`); one that timed out may be executed later, or have been
executed; a lost connection (`LoseLink`) ends a put with an exception that the code does not catch,
unless it was not sent yet.

### SharedVariable, PvAccessChannel (the server variable and the client variable together)

`SharedVariable` is what the two promise from end to end: the client is told one of the values that were
published and never an older one than before, its threads read what it was told, and when nothing is
under way at the server, or to the client, the last published value is what the server's users read,
and the client knows it.  `PvAccessChannel` runs the server (by `EXTENDS`) and the client (by
`INSTANCE`) together: `Publish` is a step of the server that gives PVXS a value (`Open`, `Post`,
`EndPut`), for the client a `Change`; `Begin` and `Proceed` are the other steps of the server;
`Connect`, which needs a published variable, and the remaining actions are those of PVXS and the client,
of which the server takes no notice.  The values on their way are told apart by when they were
published, by their number in `published`, so that a late or a repeated one can be recognised though
it has the same content.  They all have the type of the variable, therefore `Throw` has no part in it.
`MaxPublished` bounds the calls that begin, never one that has begun.

### RemoteCall, PvAccessRPC (`rpc/*.cpp`)

`RemoteCall` is what a call promises: the handler is called for it once at most, and the answer tells
whether it was, except for a timeout and a lost connection.  A call that was given up in one of these
two ways may still be executed after it returned.  A user who repeats it makes another call, and the
handler may run for both: nothing in the code recognises a repetition.

In `PvAccessRPC` every call has an identity and is made once, so that whatever the server does with its
request, also long after it returned, is counted for it (`runs`).  `Call` is `operator()` and the
encoding of `ClientRPCCall` (an empty request returns an empty answer, an array of arrays an encoding
error, nothing is sent); `Receive` and `Timeout` are the two ends of `wait()`, of whose exceptions only the
timeout is caught.  The server's worker runs `HandleRPCCall` in two steps, decoding up to the call of the
handler (`BeginRequest`) and everything from its return or exception to `op->reply()` (`EndRequest`),
because calls time out, connections are lost (`Lose`) and the destructor starts in between.  `AddPV`,
`OnRPC`, `Start`, `Destruct` and `Stopped` are the life of the server object.  PVXS is external: requests
wait in order for one worker, or are lost with the connection; one that was given up stays where it is, and is executed like the others,
or goes when the server stops, and its reply finds nobody (`Arrive`); a request without a handler is
refused; `stop()` waits for the worker.  Either side may be somebody else's program: `Others` are calls
that may send PVXS values that have no `AnyValue`, and with `ours = FALSE` the service replies with anything
(`ForeignReply`).  Every request and reply is one of four kinds, which are what the conversions tell
apart.

### PvxsConversion (`src/lib/sup/epics/utils/`)

The three builders are stack machines driven by callbacks or a work list, here with the stacks they
have: `PvxsTypeBuilder` (`m_struct_stack`, `m_last_processed`, `m_struct_array_mode_request`),
`PvxsValueBuilder` and its nodes (plain, array of scalars, array of structures with its index and its
elements kept until it is frozen), and `AnyValueFromPVXSBuilder` with its work list and the composer.
External: the order in which sup-dto visits a type and a value, its composer, and how PVXS creates
values from type definitions.  Type codes are symbols; the table entries that matter (`Char8` becomes
`UInt8`, arrays of arrays have no code, arrays of structures have one) are kept.

An array of structures whose elements contain arrays of structures stacks up several nodes of the same
kind; every node holds a reference to the cell that owns its storage and a path in it, as PVXS values do.

### CAConversion (`ca/ca_helper.cpp`, `ca/ca_channel_manager.cpp`, `ca/ca_monitor_wrapper.cpp`)

One channel to one record.  `AddChannel` chooses the channel type from the tables for scalars and
arrays; `UpdateChannel`, which is `SetValue`, converts the argument to the requested type and encodes it (`GetUpdateBuffer` and the
four special encodings: texts, texts of arrays, enums, arrays of enums), and returns what `ca_array_put` did,
which may refuse any put (no connection, no write access, too many elements); the record (external) holds
numbers or texts, and presents them in the channel's type (`Presented`, with the signed bytes of
`DBR_CHAR`); `MonitorEvent` parses them (`ParseAnyValue`), with the count verified, or
fails, or throws.  Numbers are the edges of the types; texts are the four kinds the code tells apart.

### NamedVariables (`ca/channel_access_client.cpp`, `pvxs/pv_access_client*.cpp`, `pvxs/pv_access_server*.cpp`)

One owner of the three kinds, chosen in `Init`.  `AddVariable` of a client is two steps, `ConstructPV`,
after which the library calls back, and `Emplace`, or `ConstructionFails`; `Erase` waits for a running
callback; `Start` visits the variables in the order of the map, one `AddToServer` at a time, and
throws at one that is open already or has an empty value, with those in front of it published; the
destructor stops the server, destroys the variables in any order and then the callback.

### EPICSProtocolFactory (`factory/*.cpp`, `epics-di/*.cpp`, the constructors of every public class)

`Made` is what each function makes of a definition, and each constructor in which network (the isolated
one of a server, or that of the environment): the parsing with its defaults, and refusals.  Then
`ConstructMember`, the constructor bodies (`AddVariableAndStart`, `AddChannel`, `Monitor`,
`Initialise`), moves of the handle, `Start`, `AddVariable` and the destructors step through the members
of the object in the order of their declaration, while the library calls back as soon as the object is
subscribed or served.  `Members` lists them for each class, `Used` what a callback touches,
`StopsInBody` whose destructor ends the callbacks itself.

## 4. What the runs show

| Run | States | What it shows |
|---|---|---|
| `context_exclusive` | 1,878 | three callers and repeated construction and destruction: no caller is left behind, calls and the destructor return, and the handle implements `TaskService`: every task is run once, in order, before its caller returns |
| `manager` | 33,752 | two user threads, the callback thread, two channels at a time: no callback on a missing entry, nothing leaks whatever fails half way, the context exists iff there are channels, the handle is used with the discipline its proofs assume; operations end unless a callback calls the manager, and then the only standstill is a removal and a callback waiting for each other |
| `pv_wrapper` | 17,589 | one waiter, two user callbacks: no lost wakeup, waits end without their timeout, readers never see what the callback has not been told, a replaced callback is over |
| `server_synced` | 162,460 | two users, two fields, complete puts: when all calls are over clients, users and the callback agree, in spite of the unlocked reads; a value that was set reaches clients |
| `channel` | 433,234 | a server variable and its client, with a user, puts from the network and a connection that comes and goes: they implement `SharedVariable`, and a value that was set arrives at the client or is replaced by another |
| `client_calls` | 811,878 | as long as nothing incompatible arrived the cache follows connection and value; puts that time out, are refused, are executed late or lost with the connection: `SetValue` is true only for the put the server executed, a refusal for the type is due to an outdated copy, `GetValue` does not return a connected variable without a value |
| `rpc` | 56,460 | calls implement `RemoteCall`: the handler is called once at most for each, after its return only if it was given up, and the answer tells whether it was, in spite of timeouts, lost connections and requests that were given up and stand in front of others; client and server of the library understand each other while the server comes and goes; the handler is not called after the destructor; every call returns |
| `owners` | 2,360 | the two clients and the server with up to three names: callbacks come from variables that are in the map or being added, to an owner that exists; a construction that throws leaves nothing behind; `Start` tells what it did |
| `factory` | 2,797 | definitions that lack fields or have a wrong one: made or refused as documented, with the defaults, in the right network; no callback finds a member missing, through construction that fails anywhere, moves and destruction |
| `conversion` | 13,179 | types up to three levels deep: the builders come to an end without a node or an index out of place, the round trip gives the value back, only arrays of arrays are refused |
| `ca_conversion` | 71,595 | scalars and arrays of all thirteen element types: what was set comes back, what a record holds is read exactly if the requested type can hold it, a record is changed only by a `SetValue` that returns true, and to what was given |
| `ca_single` | violation | arrays of one element: the record is given the JSON text of a text array instead of its element (`ca_channel_manager.cpp:226`) |

**Where the documentation says more than the code does.**  Besides `ca_single`, which is recorded under
"findings", the models follow the code in these places, and their properties say no more than holds:

* `ca_context_handle.cpp:104-105` promises that tasks queued before halting are handled.  A caller that
  tested `halt` before it was set may push behind the last batch, and its task is discarded; the
  channel manager never lets it happen (`HandleUsedExclusively`), which is why the run has
  `MayOverlap = FALSE`.
* `channel_access_pv.h:119` and `:127` promise that a wait is true when the condition became true in
  time.  With several waiters `notify_one` may wake one whose condition does not hold, and the other
  sleeps until its timeout, whose last look is right unless the condition has gone again.
* `PvAccessServerPV::SetValue` before `Start` stores the value, but the PVXS cache is only brought up to
  date when the variable is open (`pv_access_server_pv.cpp:78`), so that `Start` publishes the initial
  value, although `pv_access_server_pv.h:67` says that the cache is assigned
  (`StartFirst` excludes it).  A put of part of the fields is merged into the cache, but replaces the
  value that `GetValue` returns (`FullPuts` excludes it).
* `ProcessMonitor` leaves by an exception when an incompatible value arrives and forgets the connection
  events it drained before: `IsConnected` (`pv_access_client_pv.h:83`) may stay out of date until the
  next event.  `CacheFollows` holds up to the first exception.
* `ProcessMonitor` assigns the cache when the queue is empty (`pv_access_client_pv_impl.cpp:155-181`): a server
  that sends faster than the queue is drained keeps the cache out of date.  `Arrives` says nothing of a value
  that is changed again, and the run publishes `MaxPublished` values at most.
* `pv_access_server_pv.h:44` says that scalars are converted to structures; the code throws, as
  `doc/pv_access_pv.rst:23` says.
* `doc/pv_access_pv.rst:24` says that arrays of structures are not supported for PvAccess variables.  The
  builders convert them, in both directions and nested (`kArrayElementTypeCodeMap`, the array modes of
  `PvxsTypeBuilder` and `PvxsValueBuilder`), as `test/unit/pvxs_value_builder_tests.cpp:376` and
  `test/unit/anyvalue_from_pvxs_builder_tests.cpp:481` expect; `Converts` and `RoundTrip` follow the code
  and the tests.  What is refused is an array of arrays, of which that list says nothing.
* The factory refuses a negative timeout of an RPC client; the registered function that makes its
  configuration takes any.

**Bounds.** *Handle*: a task is its caller, each has one at a time; three callers give every mixture of
a running batch, a task left in the queue and a caller between its two critical sections; the theorems
remove the bound.  *Manager*: at most `MaxId` = 2 channels at a time: one can be half-made or
half-removed while the other is called back; the third thread needed for a deadlock is the
callback's; again the theorems cover any number.  *CA PV*: one waiter, since the properties are those of
a single one; two values, so that one can overwrite the other, and two callbacks, so that one can
replace the other while it runs.  *Server PV*: two users and the worker give all three pairs of racing
writers; two fields of two scalars are the least that tell a torn read or a partial put from a whole
value.  *Client PV*: two values of one type and one of another; with the user's calls on top (`client_calls`)
a queue of one, since batches are the matter of `channel`, and `MaxPuts` = 2, one that timed out
in front of the one that is waited for.  *Channel*: one user, since the races of two are the matter of
`server_synced`, and the worker; one field; a queue of `MaxQueue` = 2, which lets an event arrive behind
the one that is drained, and be squashed; `MaxPublished` = 3: a value that was told, one in the queue
and one that replaces it; for safety the theorems remove all of these bounds.  *RPC*: two calls of clients and one of another
program: one is handled, one waits, one is on its way; `MaxRequests` = 2 waiting requests let one that was
given up stand in front of another.  A call that follows another one differs in nothing from one made at
the same time, therefore making each call once loses nothing; the theorems hold for any number of them and
have no bound.  *Owners*: three names, one in front of and one behind
the one `Start` fails at; `starts` counts to 2, since the third `Start` differs in nothing from the
second.  *Factory*: every definition that differs from a valid one by missing fields or one wrong
field; one object at a time.  *Conversion*: depth three makes each node kind occur inside and after
each other one; sizes 1 and 2 reach the first, the last and the separator of an array.  *CA
conversion*: the numbers are -1, 1 and the edges of 8 and 16 bits, on both sides; arrays of two
elements, one more and one less than the record has.

**Deadlock** is checked wherever the system never stops.  It is switched off in `manager`, where the
code can stop for good, and `StallsOnlyOnRemoval` says exactly how; in `owners`, which ends with the
destructor; in `rpc`, which has a last call, and whose foreign service need not do anything; and in
`conversion`, which terminates.

**Fairness.** *Handle*: weak fairness of the context thread and of every step a caller or the owner has
begun: they run on the scheduler and every lock is released.  *Manager*: weak fairness of operations
that have begun, of the context thread and of the end of a callback (user callbacks return); strong
fairness of `ClearChannel`, since `ca_clear_channel` gets the library's callback lock in the end although
callbacks keep taking it.  Nobody is obliged to start an operation, nothing needs to connect.  *CA PV*: weak
fairness of the callback thread and of the end of the user's callback; strong fairness of its call, whose
mutex `SetMonitorCallback` takes again and again; strong fairness of a waiter's `Evaluate` and `LastLook`, the
acquisition of a mutex that is free again and again.  Timeouts need not expire, so that
`ReturnsWhenReady` is not due to them.  *Server PV*: weak fairness of begun calls, strong fairness of
`BeginRefresh` (a mutex again).  *Channel*: that of the server, weak fairness of the calls PVXS owes and of draining, strong
fairness of `EndDrain` and `Send`: the drain ends if it finds the queue empty again and again, and a server
does not withhold its value for ever.  Connections, losses, new calls and reads are free.  *RPC*: weak fairness of the
caller's `Receive` or `Timeout`: a timeout expires (5 s by default); servers owe nothing.
*Conversion*: it runs.  `client_calls`, `owners`, `factory` and
`ca_conversion` check safety only and need none.  That the destructors of *Owners* end is a matter of the
libraries, whose callbacks they wait for, and not stated.

## 5. What is proved

| Module | Theorem | Property |
|---|---|---|
| `CAContextHandleProofs` | `TypeCorrect`, `WakeupsAreNotLost`, `TasksRunOnce`, `NobodyIsLeftBehind`, `NothingIsDiscarded` | `TypeOK`, `NoLostWakeup`, `EachTaskOnce`, `NobodyLeftBehind`, `NothingDiscarded` |
| | `ServiceIsImplemented` | `ImplementsTaskService` |
| `CAChannelManagerProofs` | `TypeCorrect`, `NoDanglingCallback`, `NoLeak`, `ContextFollowsChannels`, `DisciplineIsKept`, `LibraryUsedProperly`, `OnlyRemovalsStall` | `TypeOK`, `CallbackOnLiveEntry`, `NothingLeaked`, `ContextIffNeeded`, `HandleUsedExclusively`, `TasksOnLiveChannels`, `MovesOrRemovalWaits` |
| `ChannelAccessPVProofs` | `TypeCorrect`, `CallbackBeforeReaders`, `LoneWaiterIsWoken` | `TypeOK`, `ReadsWereReported`, `NobodyForgotten` |
| | `WrapperImplements`, `ReplacedCallbackIsOver`, `CallbackIsUpToDate` | `WrapperSpec => Spec`, `OldCallbackIsOver`, `CallbackUpToDate` |
| | `ConversionTypeCorrect`, `ReadsAreExact`, `WhatWasSetComesBack`, `PutsAreExact` | `ConversionTypes`, `ReadsExactly`, `RoundTrip`, `WritesExactly` of `CAConversion` |
| `PvAccessServerPVProofs` | `TypeCorrect`, `CallbackKnowsTheValue`, `ClientsSeeTheValue` | `TypeOK`, `ToldTheLatest`, `ServedIsSet` |
| | `ChannelServes`, `ChannelFollows`, `ValuesAreShared` | `ChannelSpec => Spec`, `ChannelSpec => Client!Spec`, `ImplementsSharedVariable` of `PvAccessChannel` |
| | `ClientsSeeTheCache` | at rest, what clients see is the PVXS cache (without `StartFirst`, `FullPuts`) |
| | `NeverGoesBack`, `ClientHasTheCache` | what a client was told never gets older; at rest it has the server's PVXS cache (both without `StartFirst`, `FullPuts`) |
| `PvAccessRPCProofs` | `TypeCorrect`, `AnswersAreTrue`, `NothingIsMisunderstood`, `NoCallAfterDestruction` | `TypeOK`, `AnswerTells`, `SpeakTheSame`, `HandlerOutlivesCalls` |
| | `CallsKeepTheirPromise` | `ImplementsRemoteCall` |
| `PvAccessClientPVProofs` | `TypeCorrect`, `CallbackBeforeReaders`, `CacheIsTheChannel` | `TypeOK`, `ReadsWereReported`, `CacheFollows` |
| | `CallsImplement`, `CacheIsTheChannelWithPuts` | `WrapperSpec => Spec`, `CacheFollows` |
| | `TrueIsTrue`, `ReadIsValid`, `RefusalIsStale` | `TrueMeansPut`, `ConnectedHasValue`, `RefusedOnlyStale` |
| `NamedVariablesProofs` | `TypeCorrect`, `CallbacksAreSafe`, `NothingIsLeftBehind`, `StartIsTruthful` | `TypeOK`, `CallbackOnLive`, `NothingLeftBehind`, `StartTells` |
| `EPICSProtocolFactoryProofs` | `FactoryInductive`, `CallbacksFindTheirMembers`, `DocumentationIsKept` | `FactoryInv`, `CallbackOnLiveMembers`, `MadeAsDocumented` |

They hold for every value of the constants that satisfies the named assumptions (`MayOverlapAssumption`,
`ManagerAssumption`, `ValuesAssumption`, `CallbacksAssumption`, `ServerAssumption`, `ClientAssumption`,
`WrapperAssumption`, `ChannelAssumption`, `RPCAssumption`, `NamesAssumption`, `ConversionAssumption`, `NumbersAssumption`), which
only say that the model values are different, the bounds are numbers, an `AnyType` that is no array has
one element, and the numbers are integers that `Float32` holds exactly.  Seven theorems need more, in their
statements:
`NobodyIsLeftBehind` and `NothingIsDiscarded` hold for `~MayOverlap` (part of the property),
`LoneWaiterIsWoken` for a single waiter, `ClientsSeeTheValue` and `ValuesAreShared` for `StartFirst` and `FullPuts`, `WhatWasSetComesBack` and
`PutsAreExact` for all types but arrays of one text or unsigned number (`HandedOver`, `ca_single`);
section 4 says what happens without.  `DisciplineIsKept` of the manager is the link between the first two steps:
it is what `~MayOverlap` means.  `TypeOK`, `NoLostWakeup`, `EachTaskOnce`, `NothingDiscarded`,
`AnswerTells`, `NeverGoesBack`, the two about the PVXS cache and, of the client, `ReadsWereReported` are
proved without a run of their own: they follow from the refinements, are what the other proofs rest
on, or say what is left of a refinement without its hypotheses.

The arguments:

* **Handle.** `TaskInv` says that batch and queue together are without duplicates and belong exactly to
  the callers without an answer, that the batch is empty unless the thread runs, and where results
  and members may be stale; lemmas on injective sequences carry it over push, swap and pop.
  `LifeInv` relates the owner's progress to the callers and the thread under `~MayOverlap`.
  The refinement maps a push to `Accept`, a run to `Execute`, the end of the members to `Discard`, and
  every other step to a stutter or the matching call.
* **Manager.** None of the properties is inductive.  `IInv` describes the holder of the mutex:
  `Exclusion` (who is past the lock holds it), `Requests`, `Rendezvous` (one task at most, the
  holder's), `Channels` (map, clients and library agree except for the one channel the holder is adding,
  undoing or removing, and how far it got), `Context`, `Callbacks`.  One lemma per action.
  `OnlyRemovalsStall` spells out the guards of the steps that others wait for (`SomebodyMoves`, of which the run
  checks that it is what `ENABLED` says); it needs `Room` besides: everybody who was let in finds an id.
* **CA PV.** `CallbackKnows` (outside the callback's critical section the callback was told the cache)
  and `WakeupDue` (somebody asleep whose condition holds: the library has not notified yet).  Every step of
  the wrapper is a step of the variable or changes nothing of it, so that both carry over;
  `CallbackInv` relates the callback, the one under way and what it was told.
* **Server PV.** `ToldTheLatest` is inductive with the types.  `PostInv`: whenever what clients see and the
  PVXS cache differ, some thread is on the way to a post; with it alone `ClientsSeeTheCache` holds for
  early users and partial puts, too.  For `ServedIsSet` comes `ServedInv`: whenever the cache and the
  value differ, some user is on the way to a refresh; here `StartFirst` and `FullPuts` are needed, and
  without them the library's value, which users read and their callback is told (`ToldTheLatest`),
  may differ from the PVXS cache and from what clients see, but these two agree.
* **Client PV.** `LinkInv` and `ValueInv`: the *last* connection event still in the queue is the state of
  the link, or there is none and the copy being made has it already; likewise for values.  `ServedInv`:
  a non-empty queue is being drained or will be.  Lemmas say what append, replace and pop do to the last
  event of a kind.
* **Channel.** Every step of the channel is a step of the server or none (`ServerStep`), and a step of the
  client or none (`ClientStep`, which needs that the values are numbered one after the other), so that
  the theorems of both hold for the two together; the proofs about the client are used through an
  `INSTANCE`, with the constants of the channel shown to fulfil its assumptions (`ClientConstants`).
  That is not enough for the refinement: `PublishedInv` adds that the last published value is what PVXS
  holds, and `OrderInv` that the numbers grow along the way, from what the client was told to the copy
  `ProcessMonitor` makes, the events in the queue and the last published value.  Then steps of the
  server are `Serve`, those of PVXS and the client `Follow`, and what has to be true at rest is
  `ServedIsSet` of the server and `CacheFollows` of the client.
* **Client calls.** `PutInv`: the put that is waited for is the last one under way, behind those that
  timed out; answered with "done" it was the last to be executed.  Its value has the type of the copy, so
  that a refusal means that the copy was outdated.  `HasValue`: a value of the cache is replaced by
  values only, also in the copy `ProcessMonitor` makes.  A put that the server executes is a `Change` of its
  variable, a connection that is lost with puts a `Disconnect`, and every other step of a call leaves the
  variable alone: the wrapper implements it.
* **RPC.** `TellInv`: the request of a call, given up or not, is at the server once at most (`Apart`), in the
  queue with the handler not called for it yet or in the worker's hand with it called once (`InQueue`,
  `InHand`), and as long as it is there the call has no reply that tells anything (`AtServer`); a reply on
  its way, like an answer, tells how often the handler was called (`Telling`).  That is inductive with where
  calls are (`CallState`).  A step of the worker or of a caller is then the step of `RemoteCall` it should be;
  in particular a handler that is called is called for the first time, and if its call has returned it
  was given up.  The network's steps are none.
  `SpeakInv`: clients only queue what decodes, a server that takes requests has its handler.
* **Owners.** `Follows` (what may be called back is the map and the PV under construction),
  `Published` (only what is in the map is published until the server is stopped), `Ending` (the
  destructor has still to visit what is in the map) and `Starting` (what `Start` has visited is
  published, and the first one finds nothing published) together are inductive.
* **Factory.** `SafeOrder` is what the declarations of a class owe: what a callback uses is among the members,
  and a member that starts to call back while it is constructed is the last, behind all that is used.  A
  lemma shows it for every class, from the order in which each declares its members.  `ServedInv` then
  says how many members exist whenever the library may call: all, or all in front of the last.  `Prefix`
  and `LifeInv` relate the members to what the user's thread does, `HandleInv` says that a move leaves
  one owner, `MadeInv` that the object is still what the call made.
* **CA conversion.** The argument is about one element on its way: `LowBits` and its companions say that the
  remainders that carry signed bytes, shorts and enums lose nothing of a number that fits, `ComesBack`
  that an element which was accepted, encoded, stored and presented is parsed to what it was, cut at 40
  characters, and `IsShown` that what the type can hold is shown unchanged.  `MineInv` carries it over time:
  as long as nobody else puts, every element of the record is the stored form of an accepted element.
  `StoredSays` is the other direction, for `PutsAreExact`: what is stored of an accepted element says what was given.

**Only model-checked**: all liveness properties, since the prover knows no `ENABLED` under fairness;
of `StallsOnlyOnRemoval` the part that uses `ENABLED`; everything about `PvxsConversion`, which recurses over data.

## 6. Not modelled

* Several clients of one variable in one model: PVXS keeps a queue for each, and what is proved of one
  holds of each.  A channel whose client puts to the server it follows: `PvAccessChannel` has puts from
  the network by anybody, `PVAccessClientPVWrapper` a put and its answer.
* The alarm fields and timestamps of CA and PVXS values, the texts of exceptions and logging.
* User callbacks that call their own variable: they wait for themselves on a mutex the caller holds
  (`m_mon_mtx`, `m_cb_mtx`, or the one of the server variable), as the headers warn.
* Several waiters on one condition variable, see section 4.
* Destruction of a PV, or of the context handle, while its user calls it, which C++ forbids the user.
* The destruction of the static channel manager with channels left: `ChannelAccessPV` removes its
  channel in its destructor, and static objects of the user are the user's business.
* `PvAccessServerPV` with values that do not convert: the call throws before anything has changed.
  Arrays of structures without elements, which have no type in PVXS, and conversions between scalars and
  structures that the library does not use.
* The initialisation of the one shared PVXS context, which the language makes happen once, and the mutex
  around the constructors of PVXS servers, which protects PVXS itself.  Which context or server an
  object is given is in `EPICSProtocolFactory`.
* The registry behind the plugin (sup-di), the protocol stacks and loggers of sup-protocol: external.
* The applications and the runner of the soft IOC: command lines, shells and processes, pure I/O.
