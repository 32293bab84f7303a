# Verification of the SdtTr369 agent

SdtTr369 is an Android TR-369 (USP) agent: the OB-USP-AGENT core in C
(`src/tr369/src/main/cpp/openTr369/core`, called `core/` below), a vendor layer
(`.../openTr369/vendor`), a JNI bridge (`.../skSource`) and Java services. This
directory holds TLA+ modules for the parts of the agent that keep state across
threads and failures, TLC configurations for small instances, and TLAPS proofs
that hold for every instance. `PROJECT.json` maps each definition to the lines
it models and lists runs, mutants, findings, hazards and theorems.

## Inventory

### Threads

| Thread | Entered at | Works on |
|---|---|---|
| DM (data model) thread | `DM_EXEC_Main`, `core/dm_exec.c` | data model, database, subscriptions, timers, requests, e2e sessions |
| MTP thread | `MTP_EXEC_MqttMain`, `core/mtp_exec.c` | MQTT slots, libmosquitto |
| BDC thread | `BDC_EXEC_Main`, `core/bdc_exec.c` | bulk data transfers with libcurl |
| operation threads | started by asynchronous operations of the vendor layer | one operation each; results are posted to the DM thread |
| Java threads | JNI functions of `skSource/sk_tr369_jni.cpp` | call the data model directly |

The DM thread is meant to be the only one that touches the data model; the
others post messages to its queue (a UNIX socket, `DM_EXEC_PostXxx`). This
repository has commented out the checks that enforce it in `core/database.c`
and the assertions in `core/dm_trans.c` and `core/data_model.c`, so that the
JNI functions work from any thread.

### Components

For each: the state it keeps, what is hard about it, and when it is correct.
`PROJECT.json` lists every component, also those that are not modelled.

* **MQTT connections** (`core/mqtt.c`, `core/device_mqtt.c`). A table of slots,
  each with connection parameters (current and next), a state, a send queue, a
  retry counter and time, two scheduled actions (reconnect, close) and a
  libmosquitto context, all under one mutex. Hard: the mutex is released while
  `mosquitto_connect` blocks, losses come at any time, several actions wait at
  once, a slot is reused. Correct when a loss is always noticed, nothing is
  published before the handshake, responses keep their order and are lost only
  by a close, and no wait lasts for ever.
* **MTP thread** (`core/mtp_exec.c`). The loop over the slots, the scheduled
  exit, the wake-up socket.
* **DM thread** (`core/dm_exec.c`). The message queue, the main loop, the
  orderly exit. Hard: other threads block on its queue while its own posts are
  dropped when the queue is full.
* **Data model transactions** (`core/dm_trans.c`, `core/dm_inst_vector.c`,
  `core/database.c`). One current transaction with the list of operations to
  notify, instance vectors in memory, an SQLite database. Correct when memory
  and database agree whatever fails, and when notifications are true.
* **Data model** (`core/data_model.c`, `core/path_resolver.c`, ...). The
  schema, set, add, delete with nested instances, operate; path expressions.
* **Request handlers** (`core/handle_*.c`, `core/msg_handler.c`). One message
  each: resolve, start a transaction, operate, commit or abort, respond.
* **Operations** (`core/device_request.c`). The table of asynchronous requests
  and their persisted arguments. Hard: rows, threads and messages know an
  operation only by its instance number, which is used again; commits fail and
  the process ends between any two steps. Correct when each operation is
  remembered until it was reported, restarted with its own arguments and never
  completed by the result of another one.
* **Subscriptions, notifications and retries** (`core/device_subscription.c`,
  `core/subs_vector.c`, `core/subs_retry.c`, `core/retry_wait.c`). Rows with
  the values seen last and the objects resolved, a vector of notifications that
  wait for a response, a first retry time. Hard: three copies of one time; late
  and repeated responses; deletions that are notified at the end of a round of
  the loop. Correct when a notification is retried until it is answered,
  expires or is withdrawn, and no change or deletion goes unnoticed.
* **Timers** (`core/sync_timer.c`). A vector of one-shot timers with a cached
  first time, whose callbacks reload and remove timers.
* **End to end sessions** (`core/e2e_context.c`, `core/sar_vector.c`). For each
  controller a session with its mode, status, id, sequence numbers and the
  segments of an unfinished message. Hard: records are lost, repeated and
  reordered, either side may reset a session at any time, and a change of mode
  is applied by an event that is handled later. Correct when only whole
  messages are handled, and a mode that was set is used in the end.
* **Bulk data** (`core/device_bulkdata.c`, `core/bdc_exec.c`). Profiles with a
  timer and retained reports, a thread that transfers them, a queue each way.
  Hard: the timer is reloaded by a result, so that a lost result silences a
  profile, and a timer that is reloaded in between starts a second transfer;
  two threads that may block on each other's queue.
* **Controllers and MTP tables** (`core/device_controller.c`,
  `core/device_mtp.c`). Which controller is reached over which connection, USP
  connect records, the on-board request, the sessions of controllers.
* **Vendor layer and JNI** (`vendor/vendor.c`, `skSource`). Adding, deleting
  and counting instances of multi-instance objects from Java.
* STOMP, CoAP and WebSockets are not in the Android build; protobuf code, JSON
  and libmosquitto are third-party.

Components interact through calls on the DM thread (handlers start
transactions, commits call the notify functions of subscriptions, requests,
bulk data and sessions), through the three message queues (MTP, operation and
BDC threads to the DM thread, DM thread to BDC thread) and through the slots of
`mqtt.c`, which both threads change under the mutex.

Everything in the code that is hard to test is listed, with its line, under
`hazards` in `PROJECT.json`.

## Modules

| Module | Models |
|---|---|
| `MqttClient` | one slot of `mqtt_clients[]` with both threads |
| `RecordChannel` | abstract: what a slot promises about responses |
| `MCMqttClient` | instances for TLC |
| `MqttQueueProofs` | lemmas on what is kept of a send queue |
| `MqttClientProofs` | theorems about the slot of `MqttClient`; extends `MqttQueueProofs` |
| `MqttChannelProofs` | theorems about its records and packets, and that it implements `RecordChannel`; extends `MqttClientProofs` |
| `DmTransaction` | transactions, instance vectors, database and their callers |
| `MCDmTransaction` | instances for TLC |
| `DmTransactionProofs` | theorems about `DmTransaction` |
| `SyncTimer` | the timer vector, as operators on its state |
| `Subscription` | subscriptions, notifications, retries and the DM thread's loop; extends `SyncTimer` |
| `NotifyBoard` | abstract: what is promised of a notification that asks for a response |
| `MCSubscription` | instances for TLC |
| `SubscriptionProofs` | theorems about `Subscription`, and that it implements `NotifyBoard` |
| `DeviceRequest` | asynchronous operations, their threads, messages and restart |
| `MCDeviceRequest` | an instance for TLC |
| `DeviceRequestProofs` | theorems about `DeviceRequest` |
| `BulkData` | bulk data profiles and the BDC thread |
| `MCBulkData` | an instance for TLC |
| `BulkDataProofs` | theorems about `BulkData` |
| `E2eSession` | the end to end session of a controller |
| `MCE2eSession` | an instance for TLC |
| `E2eSessionProofs` | theorems about `E2eSession` |

Operators named `Faulty...` are plausible slips in the function defined next to
them. No action uses them; each serves to show that some property notices the
slip (`mutants` in `PROJECT.json`).

### MqttClient

`pc` is the program counter of the MTP thread through `MTP_EXEC_MqttMain`:
`update` (`MQTT_UpdateAllSockSet`), `process`, `connecting` (the mutex released
around `mosquitto_connect`), `write`, `read`, `misc` (the parts of
`mosquitto_loop_*`, where callbacks run), `handle` (what
`MQTT_ProcessAllSocketActivity` does after them), `exit_check`, `destroy`. The
slot is the record `client`; every function of `mqtt.c` that takes a slot is an
operator from slot to slot. Calls of the DM thread are atomic actions, enabled
when the mutex is free (`MutexFree`): between two passes of the loop and while
`mosquitto_connect` blocks.

Data is abstracted to what the properties tell apart: connection parameters are
a configuration number, a record is a model value, the retry time is zero,
armed or due, and libmosquitto is a context (`null`, `new`, `open`, `closed`),
the packets it has not written, the publishes not acknowledged and the progress
of the handshake. libmosquitto is external: it is modelled from how `mqtt.c`
uses it. It is run in threaded mode, so that publish and disconnect only queue
a packet; its callbacks run inside the loop functions; the broker may close the
connection, refuse the CONNECT or answer late at any time.

Left out: the topics a client subscribes to (an outcome stands for the number
of failed subscriptions), the other slots (the slots share only the mutex),
logging, certificates.

### RecordChannel

A queue and what is being sent. Responses are accepted, handed over in order,
sent in order; losing a connection loses what is being sent, closing loses the
queue. `MqttClient` maps its queue and libmosquitto's packets, restricted to
responses, to it (`ChannelSpec`). `ResponsesIn` takes the responses of a
queue by their positions, which the proofs can reason about; `MCMqttClient`
compares it with the recursive `SelectSeq`.

### DmTransaction

`data` holds `cur` (`cur_transaction`: owner and recorded operations), `inst`
(the instance vectors), `db` (what is committed), `work` (what SQL statements
see) and `open` (whether SQLite is in a transaction). An instance stands for
its rows: one value or `Absent`. Instances may be nested (`Parent`); deleting
one deletes what is nested in it, one nested instance per step, recording each.

A *session* is one pass of a caller through start, operations, and commit or
abort. The callers differ in what they do on an error: the handlers of Set,
Add, Delete and Operate, the completion of an operation and
`SK_TR369_AddMultiObject` abort; `SK_TR369_DeleteInstance`,
`DeleteExpiredSubscriptions` and `DeleteNonPersistentSubscriptions` commit what
they have; `DEVICE_REQUEST_UpdateOperationStatus` returns. With `allow_partial`
the handlers run such a session per object. `CommitTransaction` is
`DM_TRANS_Commit` up to its notifications; these follow one by one
(`NotifyReturns`), and what the callbacks do to the data model are the ordinary
operations, run as `Cascade` in the new transaction; then the cascade is
committed, recursively as in the code.

Constants choose what may go wrong: `Overlap` (sessions of Java threads and of
the DM thread interleave), `BeginMayFail`, `CommitMayFail`, and `WriteFaults`
(the callers during which SQLite may fail to write or delete a row). A rejected
operation (no such instance, no permission, bad value, a vendor hook refuses)
is always possible. The vendor's transaction hooks are never registered in this
build and are left out.

### SyncTimer and Subscription

`SyncTimer` has the timers (`on`, `at`) and `first_timer_time`, and one operator
per function of `sync_timer.c`. Times are counted down to the present: 0 is due,
`Never` stands for `END_OF_TIME`, and `Elapse` lets a unit of time pass.

`Subscription` is the DM thread from one `select` to the next (`phase`): timers
that are due fire one after the other, in any order, since the order of the
vector depends on what was added and removed before; at most one message and
one command are handled; the object life events of the round are processed. A
call of `SendNotify` is a step of its own; `todo` holds those still to make,
and `wire` what the last step handed to the MTP. A subscription is its row
together with its entry in the vector (values seen last, objects resolved). The
retry vector is a set of entries, found by instance and path as in
`FindRetryEntry`. A response to any notification ever sent may arrive at any
time: lost, late and repeated ones are all included. `Restart` reads the tables
from the database and loses the rest, as the code does.

Left out: which paths an expression resolves to (paths stand for themselves),
permissions, message contents, and retry parameters so large that a wait
overflows (`WaitAssumption`; with the default ones the longest wait is 5120
seconds, and the code sets no limit). Time does not pass inside a round; the code
reads the clock once per function, and a round takes less than a second.

### NotifyBoard

A board of notifications that wait for a response. One leaves when it is
answered, withdrawn with its subscription or controller, replaced by a newer
one for the same place, or given up if it may expire; what has left is never
sent again. `Subscription` maps its retry vector to the board (`BoardKept`).

### DeviceRequest

`table` and `args` are the request table and the persisted arguments in the
database; `threads` are the `ScheduleTimer` threads, `queue` the messages about
rows, `dm` where the DM thread is, `todo` the rows the restart loop has still to
look at. Rows carry the invocation they were made for; threads and messages
carry the number, as in the code, and the invocation as history. A commit may
fail, the queue may be full, a controller may be deleted under a running
command, and the process may end at any step (`Crash`). The deletion of a row
and the cascaded deletion of its arguments are two transactions and two steps.

Two history flags in `faults` mark what the code does not guard against:
`stray` (a thread or message works on a number whose row was undone, or an
operation was started twice) and `stuck` (nothing is left that completes a row).
The properties hold outside exactly these cases, and the definition of each flag
names its causes. `ArgsGoWithRow` has no such exemption: it states the comment at
`device_request.c:100` as it is written. It does not hold, and is proved for a
process whose commits work and that does not end (see *Comments that do not
hold*).

Left out: `CountMatchingRequests`, because no command of this build has a limit
of concurrent operations; what a failed `DM_TRANS_Start` does, which is in
`DmTransaction`.

### BulkData

The DM thread (`posting` while it waits for room in the BDC queue), the BDC
thread (`connection`, `notifying` while it waits for room in the DM queue), the
profiles with their timers, and the reports each profile retains. Times are
dropped: an armed timer may fire at any moment. Reports are identities, used
again once nothing holds them. `silent` records the profiles for which the code
gave up without a result (a report that is dropped for want of a connection, a
transfer that cannot be started, control parameters that cannot be read, an
event that cannot be built); `disturbed` those reconfigured or stopped during a
transfer.

A row of the table and its entry in `bulkdata_profiles[]` are two things. When a
parameter of a new row cannot be read, `ProcessBulkDataProfileAdded` returns with
the row in the table (`unread`) and with an entry that was cleared, which makes
it neither free nor any profile's (`lost`; `ProfileNotRead`). Rows are limited
when one is added (`Validate_AddBulkDataProfile`), entries when one is looked for.
Deleting such a row does not give the entry back (`UnreadDeleted`). A restart
begins with all entries free, reads every row again, and deletes those it cannot
read, each of which has cost an entry by then.

### E2eSession

One controller with its session (`ag.s`), the events posted for it, whether it
is enabled, and the value of `SessionMode` in the database; sessions of
different controllers share nothing. Operations of the code are functions from
agent to agent, so that handlers compose as the calls do: a record is validated,
refused by an event that is handled at once, or taken in; the message it
completes is performed and answered through the session. The controller keeps
to the protocol (`RecordsAssumption`: consecutive numbers from 1, a message
finished before the next); the transport may deliver any of its records at any
time and any number of times. `handled` holds the segments of the message that
the last step handed to the message handler.

`USP_ASSERT` in `QueueUspNoSessionRecord` ends the process, which starts again
from the database. Two history flags: `crossed` (an event was lost, or handled
at another status than it was chosen for), `blank` (the session was never
initialised).

Left out: payloads, sizes and the MTP; `expected_id`, of which a receiver only
checks that it is positive; `retransmit_id`, which is always 0.

## Runs

| Run | Result | What it shows |
|---|---|---|
| `MqttClientSafety` | holds | a loss is noticed (`LossIsNoticed`); `Running` only after an accepted CONNECT (`RunningIsConnected`); a blocked connect is not disturbed (`ConnectUndisturbed`); parameters to reconnect with are held (`NextParamsHeld`); an unused slot is clean (`UnusedSlotIsClean`); nothing is queued behind a DISCONNECT (`NothingBehindDisconnect`); one connect record, first (`ConnectRecordFirst`); the slot implements `RecordChannel` (`ChannelSpec`); the queue is purged only by a close (`PurgedOnlyByClose`) |
| `MqttClientLiveness` | holds | no waiting state lasts for ever (`NoWaitLastsForever`); the head of the queue is published on a connection that stays up (`HeadIsPublished`) |
| `MqttClientDisable` | violated | finding 1 |
| `MqttClientCallback` | violated | finding 2 |
| `MqttClientDisconnectRecord` | violated | finding 3 |
| `DmTransactionSafety` | holds | between sessions memory and database agree (`InstancesMatchDb`); pending notifications are true (`NotifiedIsTrue`); nothing is recorded outside a transaction (`AssertionsHold`); a failed request changes nothing (`FailureChangesNothing`) |
| `DmTransactionOverlap` | violated | finding 4 |
| `SubscriptionRetry` | holds | whenever the thread sleeps the retry timer is set for the first retry (`RetryTimerArmed`); retries belong to subscriptions that exist, one for a path (`RetriesOwned`); the assertion of `SubsRetryExec` holds (`AssertionsHold`); a watched deletion is notified (`DeletionNotified`); the retries implement `NotifyBoard` (`BoardKept`); an unanswered notification is retried again and again or leaves (`RetriesGoOn`); a value that changed and stays different is reported in the end, however often it is polled (`ChangeReported`), and a new value counts as seen only with a call of `SendNotify` for it (`SeenIsReported`) |
| `SubscriptionOnBoard` | violated | finding 5 |
| `DeviceRequestRestart` | holds | an accepted operation is in the table until it was reported (`NothingForgotten`); restarts use the row's own arguments (`OwnArgs`); a message is about the row it names (`OwnMessage`); rows go in the end (`RowsGo`) |
| `BulkDataSafety` | holds | timers exactly for started profiles (`TimerIffStarted`); no started profile falls silent (`NeverSilent`); a result is about what is retained (`SentIsRetained`); neither thread blocks on the other (`RoomForAll`) |
| `E2eSessionSafety` | holds | only whole messages are handled (`HandledIsWhole`); a reset leaves nothing behind (`SessionSound`); a mode change takes effect (`ModeHonoured`) |

Each passing run also checks the module's type invariant, which includes the
bounds of the queues.

**Bounds.**

* `MqttClientSafety`: two responses for their order, one disconnect record and
  one controller, so that all three kinds of record meet in the queue; two
  configurations (`MaxVersion`), one of MQTT 5 and one of MQTT 3.1.1, so that a
  reconnect changes the protocol; both QoS; one message id and two packets, so
  that a publish finds libmosquitto without an id or full; one place in the DM
  queue, so that a message is dropped. Retry counts above `RetryClamp` behave
  alike: they only choose the length of a wait.
* `MqttClientLiveness`: one response and no connect or disconnect records.
* `DmTransactionSafety`: a parent, an instance nested in it and one beside it,
  and four operations per session, callbacks included: enough to add both
  parent and child, or to delete the parent and then act on the other instance
  in a callback. One thread runs all callers, since without overlap the thread
  makes no difference. `DmTransactionOverlap` needs two threads.
* `SubscriptionRetry`: two rows from three tables, with a value change, an
  object deletion (not persistent, expiring, `NotifExpiration`) and a boot event
  subscription; waits double once (`RetryCap`), a poll takes two units
  (`PollPeriod`), expiries fall before and after retries. Apart from responses,
  which are unlimited, the environment acts twice (`MaxInputs`; `MaxMsgs` follows
  from it, and bounds the messages `RetriesGoOn` speaks of): enough to let a
  deletion meet a changed subscription, a restart or a second notification for
  the same path.
* `DeviceRequestRestart`: two timers and one reset, so that a number is used
  again while an older thread runs; a queue of two messages, so that it is full
  when the DM thread posts to itself; one crash (`MaxCrashes`), at any step,
  after which the restart loop runs.
* `BulkDataSafety`: one place for a profile (`MaxProfiles`), two instance
  numbers that use it in turn, queues of one message, one retained failed
  report, three report identities. Two profiles at a time are too many states
  for TLC; the theorems cover any number.
* `E2eSessionSafety`: three sessions of the controller, messages of one, two and
  three segments and an empty record; the agent opens sessions up to id 4
  (`MaxId`), sends two records in each (`MaxSent`) and has two events waiting
  (`QueueMax`). Three sessions are needed for a record of an old session to
  return after a newer one was opened.

Deadlock is checked except in `DmTransactionOverlap`, where a session may be
stuck behind a dead one after a failed assertion, and `DeviceRequestRestart`,
where each invocation is made once and nothing is left to do at the end.

**Fairness.**

* `MqttClientLiveness`: the MTP thread keeps running (weak). The clock reaches a
  retry time (strong, since a reconnect may disarm it in between). A packet that
  waits is written, and a CONNACK that is awaited arrives, or else the keep
  alive time closes the socket (strong): `PerformMqttClientConnect` never
  connects with keep alive zero, so libmosquitto always gives up on a silent
  broker. A broker that keeps a connection up acknowledges what is published
  (strong); this only matters because the model has one message id where
  libmosquitto has 65535. A healthy connection need never time out, so
  `HeadIsPublished` is about connections that stay up for ever. Controllers
  change the configuration finitely often: each change restarts the connection.
  Nothing is assumed about the DM thread.
* `SubscriptionRetry`: the steps of the DM thread's loop are taken (weak), and
  the clock runs (strong, since it stands still during a round). Nothing is
  assumed of controllers and of the network.
* `DeviceRequestRestart`: the DM thread handles its messages and its restart
  loop (weak); a `ScheduleTimer` thread gets to signal (strong: the queue may be
  full now and then) and a broker is reached in the end, which is what enables
  notifications (strong: until then messages come in between).

## Findings

1. *A disable is forgotten.* `EnableMqttClient` clears `schedule_close`
   (`core/mqtt.c:1839`). When a reconnect and a disable are both scheduled
   while the slot is in `ErrorRetrying`, the reconnect runs first and the
   disabled client connects again.
2. *A context is destroyed in its own callback.* `HandleMqttError` in
   `AwaitingDisconnect` with a pending reconnect destroys the context
   (`core/mqtt.c:3511`), which its comment forbids in callbacks; a late CONNACK
   or the publish callback gets there.
3. *A disconnect record is not awaited.* `disconnect_mid` is overwritten by the
   next record published (`core/mqtt.c:1222`); with QoS 1 the acknowledgement
   comes later, and the connection stays up.
4. *Transactions of two threads merge.* `DM_TRANS_Start` joins a transaction
   that is under way (`core/dm_trans.c:97`; the assertion above it is commented
   out) and nothing locks `cur_transaction`. A JNI call in the middle of a
   request commits and notifies the request's operations before it is complete.
5. *An on-board request displaces another.* Retry entries are found by
   subscription instance and path (`core/subs_retry.c:410`). On-board requests
   all have instance 0 and the empty path, so that a request to a second
   controller takes the place of the first one, which is not retried although
   its response is missing (`core/device_controller.c:1674` says it will be).

### Observed while modelling

What the code does and no comment, test or doc speaks against, as far as we
found. The models include these paths unless noted.

* MQTT: a close waits for an empty send queue and may be put off for ever
  (`mqtt.c:1579`); a slot whose context cannot be created while reconnecting
  stays idle and in use (`mqtt.c:2671`); a client that is enabled again while
  its slot waits for the disconnect is refused, and the data model says enabled
  (`mqtt.c:420`); the error path at `mqtt.c:388` unlocks a mutex that is not
  locked, and `UnsubscribeCallback` keeps it locked (`mqtt.c:3008`) (not in the
  model, which has one slot and no topics); responses queued between
  `MQTT_AreAllResponsesSent` and `MQTT_Destroy` are lost at exit
  (`mtp_exec.c:491`); a handshake message that finds the DM queue full is
  dropped and no connect record is sent (`dm_exec.c:740`); of two controllers on
  a connection the second one's connect record purges the first one's
  (`device_controller.c:1014`).
* Subscriptions: `subs_retry.c:179`, which would leave intervals uninitialised
  for a disabled controller, cannot be reached, because both callers have just
  found the controller enabled; the comment in `SendNotify` about disabled
  controllers (`device_subscription.c:2240`) is overtaken by its early return; a
  change that is polled while the controller is disabled is taken as seen and is
  never reported; a subscription that is added or enabled after the paths of a
  round were resolved misses a deletion of that round; retries do not survive a
  restart; `END_OF_TIME` is `INT_MAX`, which a clock reaches in 2038.
* Operations: see the two faults above.
* Sessions: a controller added without MTPs has a session that was never
  initialised, with mode `Require`, status `Up` and session id 0 (`device_controller.c:3392`); a
  mode change to `Forbid` leaves the session open if it came up after the event
  was chosen; a late record of a session that was terminated opens it again
  under its old id, and the agent counts from 1 again; an unsegmented record
  that arrives twice is handled twice (the list of what is still to do at
  `e2e_context.c:626` names repeated and missing records; `HandledIsWhole` shows
  that they never lead to a message the controller did not send); a record that
  cannot be queued leaves a gap in the sequence (`e2e_context.c:220`).

### Comments that do not hold

What the code does although one of its comments or assertions says otherwise,
and which no run of its own shows.

* `device_request.c:100` says of the persisted arguments that their lifetime
  matches that of the row in the request table. The row is deleted in one
  transaction and its arguments in the next one, by the callback of the first.
  A process that ends in between, or a second commit that fails, leaves them
  behind, and nothing removes them until a row with their number is deleted;
  until then a `ScheduleTimer()` that gets the number is refused
  (`PersistOperationArgs`). TLC finds the failed commit when `ArgsGoWithRow` is
  added to the invariants of `DeviceRequestRestart`, and the crash when also
  `CommitMayFail` is `FALSE`. What remains true is `OwnArgs`,
  which that run checks: leftover arguments are never taken for those of another
  row.
* `msg_handler.c:991` asserts that a record without session context has
  content. It fails, and the agent ends, when an establishment or restart is
  handled while the mode just applied is not `Require`, for instance when a mode
  change from `Require` to `Allow` meets a refused record. `E2eSession` has this
  as a step that ends the process.
* `device_bulkdata.c:1081` says that it is fine if a new profile cannot be read,
  because its status will be `Error`. Setting most parameters of such a row then
  fails the assertion that its profile is found (`device_bulkdata.c:868` and the
  functions after it) and ends the process, a `Restart`.
  `device_bulkdata.c:1248` says that a free entry is always found because the number of rows is limited; the
  entries lost to rows that could not be read make it untrue (`FreeProfile`).

## Proofs

All theorems are checked by TLAPS from the named assumptions on the constants of
their module; nothing else is assumed, except `Disciplined`, `OneOnBoarding`
and `Reliable` below. Every safety property that a passing run checks is stated by a theorem.
The bounds of the runs are constants too, so that the theorems hold for every
value of them.

**MqttClientProofs** (`ConstantsAssumption`): for every set of records,
controllers, configurations and message ids and every bound,
`TypeOK`, `LossIsNoticed`, `RunningIsConnected`, `ConnectUndisturbed`,
`NextParamsHeld` and `UnusedSlotIsClean` are invariants. These speak of the slot
when no one works on it, and are not inductive. `IInv` adds what holds in the
middle of the MTP thread's loop: a slot that is being processed is in use
(callbacks never free it); a loss stays noted until the end of the loop; a slot
that a callback has put back to `SendingConnect` has no reconnect left to do, so
that its fresh context is not replaced once more; a CONNECT is the first packet
in libmosquitto's queue. Each function of `mqtt.c` gets a lemma that it keeps
the slot sound, and the induction has a step per action.

**MqttQueueProofs** has no theorem of its own but the lemmas on `ResponsesIn`,
for queues of any length: what it gives for an empty queue, after an append, a
connect record in front and the removal of the head, and that it holds no
record twice if the queue does not. An increasing enumeration of a set of
positions is unique, so `ResponsesIn` is whatever selects the right positions
(`Selects`). That there is one for every queue is an induction over its length,
made here by a least counterexample (`WFMin` on the natural numbers).

**MqttChannelProofs** (`ConstantsAssumption`, `NoRecordAssumption`):
`NothingBehindDisconnect` and `ConnectRecordFirst` are invariants, every step
satisfies `PurgedOnlyByClose`, and the slot implements `RecordChannel`
(`ChannelSpec`). `ConnectRecordFirst` is kept by whatever a step does to the
queue. The others need `OutInv`, about the packets libmosquitto holds. A
DISCONNECT is last because a slot that has sent one is in a state that publishes
nothing (`DisconnectUnderWay`), and because no CONNACK can put such a slot back
to `Running`: on an open socket none is awaited any more (`Answered`). A lost
connection leaves no packet to be sent on the next one (`ClosedIsEmpty`,
`LossCloses`), a CONNECT is sent before anything is published
(`PublishesAccepted`) and carries no record (`ConnectIsBare`), and a disconnect
is awaited only for a reconnect, which keeps the queue, or for a close that was
asked for (`DisconnectAsked`). For the refinement each function of `mqtt.c` has
a lemma on what it does to the records (`Handled`: keep them, lose what
libmosquitto holds, purge the queue for a close); every action is then a step of
the channel or a stutter.

**DmTransactionProofs** (`TransactionAssumption`: instances are nested at most
once): if `Disciplined`, that is sessions do not overlap, a transaction can be
begun when none is open, and writes fail only in callers that abort, then
`TypeOK`, `InstancesMatchDb`, `NotifiedIsTrue` and `AssertionsHold` are
invariants and every step satisfies `FailureChangesNothing`, for any number of
instances, values, threads and operations. Finding 4 and three hazards
(`device_request.c:312`, `vendor.c:828`, `dm_trans.c:101`) are where the code
leaves each part of `Disciplined` unguarded. Commits may fail in the proofs.
In the middle of a session memory matches neither database view. `IInv` says
instead that undoing the recorded operations (`Undo`) would give the committed
database, that a session records additions or deletions but never both (an
abort undoes from first to last, which is wrong otherwise), that what is in
memory is closed under parents, and that recorded operations are true of
memory, except for the instance being deleted or after an error that will
abort. The lemmas `UndoSet`, `UndoAdd`, `UndoDel` and `UndoTaken` say what one
more record does to an abort; one lemma per operation lifts them to `data`, and
one per action to the state.

**DeviceRequestProofs** (`OpsAssumption`, `BoundAssumption`): `TypeOK`,
`NothingForgotten`, `OwnArgs` and `OwnMessage`, for any number of invocations,
rows and crashes, with failing commits. `ArgsGoWithRow` is proved (`ArgumentsGo`)
if `Reliable`, that is no commit fails and the process does not end: exactly
then do the two transactions of a deletion have one effect. `NothingForgotten` and
`OwnArgs` are inductive with the types and with what is known of the restart
loop and of a cascaded deletion (`Base`). `OwnMessage` is not: that the message
in hand is about the row of its own operation (`MessageOwn`) needs the same of
the messages in the queue (`QueueOwn`) and of the threads (`ThreadsOwn`), that a
row has one thread or message at a time, but for a status followed by the event
of the same reset, and that nothing works on a row before the restart loop has
begun (`Quiet`). These four hold until the first `stray` fault.

**SubscriptionProofs** (`NeverAssumption`, `SubscriptionAssumption`,
`WaitAssumption`): `TypeOK`, `RetryTimerArmed`, `RetriesOwned` and
`AssertionsHold` are invariants and every step satisfies `DeletionNotified` and
`SeenIsReported`, for any number of controllers, subscriptions, paths, objects and notifications.
`RetryTimerArmed` speaks of a thread that sleeps; `TimerKept` says that the
retry timer is set for the earliest entry in every phase, and that the cached
first time of the timers is out of date only while `DEVICE_SUBSCRIPTION_Update`
runs. That `UpdateFirstRetryTime` finds the earliest entry, and that it stays the
earliest as time passes, rests on the existence of a least element (`MinNat`).
`RetriesOwned` needs the same of the calls of `SendNotify` still to make
(`CallsOwned`) and that message numbers are never used again (`RetriesMade`).
`DeletionKept` follows an object through the round: until a message is handled it
is there, and resolved if anything is; a deletion resolves the paths before it
takes the object away; so that the event finds it resolved. `ChangesAreReported`
goes through the actions that write a row: all but a poll and a restart leave the
values of a subscription that is polled before and after as they are
(`LastStays`), and the calls a poll makes are those for the values that changed
(`PollCalls`). `ImplementsBoard`
shows that the retry vector implements `NotifyBoard` (`BoardKept`) if at most one
controller is to be on-boarded (`OneOnBoarding`). With two it does not: that is
finding 5.

**BulkDataProofs** (`BulkDataAssumption`, `NoneAssumption`): all five
invariants, for any number of profiles. `Base` has the types, that timers are
those of started profiles, and that rows, and profiles with lost entries, are
never more than the places for them (`RowsOK`). Per profile, `Heard` says
that it is armed, has a transfer on its way or is silent; and `Undisturbed`
that, until something disturbs it, it has at most one transfer, which carries
what is retained, and that its timer is off meanwhile. `RoomForAll` is then a
counting argument: with one transfer for each profile, the transfers in the
queue and in the connections are no more than the profiles; the lemmas on
cardinalities give the pigeonhole.

**E2eSessionProofs** (`RecordsAssumption`, `BoundsAssumption`): all four
invariants, for every set of records that keeps to the protocol, messages of any
length and any number of sessions. Because the operations are functions on the
agent, each has a lemma that it keeps `Good`: types, `GoodSession` (segments
kept are consecutive records of one message from its first one on, all of the
session that is up) and `ModeKept` (what a mode in use owes to the events on
their way; `ForbidPending` finds the event that will close a session).
`Reassembly` follows from the last segment fitting to such a beginning.

**Only model-checked.** Liveness (TLAPS has no ENABLED or fairness here): of
the slot (`NoWaitLastsForever`, `HeadIsPublished`), of retries (`RetriesGoOn`)
and polls (`ChangeReported`), and `RowsGo`. That `ResponsesIn` is `SelectSeq`,
which is defined by recursion: up to length 4. And all violations.

## Not modelled

The getters of the data model and the responses built from them change no
state. The path resolver, expressions, addresses and dates are parsers of
strings. Certificates and permissions are calls to OpenSSL and table lookups.
The command line is a debugging interface over functions that are modelled. The
Java services call Android functions. STOMP, CoAP and WebSockets are not built;
they, the generated protobuf code, SQLite and the headers of third-party
libraries are most of the lines of the repository.

Of the components that are modelled in part: the topics of a client
(`MQTT_AddSubscription` and its relatives), more than one slot, the parameter
tables of `device_mqtt.c`, `device_mtp.c` and `device_controller.c` (validation
of single values), the periodic notification of a controller, what a bulk data
report contains, the exit of the BDC thread and the order in which the threads
end.

## Plan

1. What the violated properties need to hold, as theorems under a hypothesis
   that excludes the finding, as `OneOnBoarding` does for finding 5.
2. The steps behind the liveness properties that need no fairness: that each
   pass of a loop makes progress, as action properties.
3. The topics of a client in `MqttClient`, with a second slot (`mqtt.c:388`,
   `:3008`).
4. The exit of the agent: DM, MTP and BDC threads and what is still queued.
5. The periodic notification of controllers, on `SyncTimer`.
