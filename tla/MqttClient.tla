----------------------------- MODULE MqttClient -----------------------------
(***************************************************************************)
(* One slot of mqtt_clients[] in core/mqtt.c: the connection of the agent  *)
(* to an MQTT broker.  Two threads work on the slot.                       *)
(*                                                                         *)
(*  - The MTP thread runs the loop of MTP_EXEC_MqttMain (mtp_exec.c): it   *)
(*    holds mqtt_access_mutex through MQTT_UpdateAllSockSet and through    *)
(*    MQTT_ProcessAllSocketActivity, except while mosquitto_connect blocks.*)
(*    The callbacks of libmosquitto run inside mosquitto_loop_write and    *)
(*    mosquitto_loop_read, so on this thread and under the mutex.          *)
(*  - The data model (DM) thread calls the MQTT_xxx functions, each of     *)
(*    which holds the mutex from its first to its last access.             *)
(*                                                                         *)
(* "pc" is the program counter of the MTP thread.  The slot is a record;   *)
(* every function of mqtt.c that takes the slot is an operator from slot   *)
(* to slot, with the outcomes it does not choose itself as parameters.     *)
(* Operators named Faulty... are plausible slips in the function defined   *)
(* next to them; no action uses them, they serve to show that a property   *)
(* notices the slip.                                                       *)
(***************************************************************************)
EXTENDS Naturals, Sequences, FiniteSets

CONSTANTS
    Responses,          \* USP responses and notifications (kMtpContentType_UspMessage)
    DisconnectRecords,  \* USP disconnect records that shut the connection down
    Controllers,        \* controllers reached over this connection
    V5Configs,          \* the configurations, by number, that use MQTT 5.0
    PublishQos,         \* conn_params.publish_qos, over the configurations
    MosqNewMayFail,     \* whether EnableMosquitto can fail
    RetryClamp,         \* retry counts from here on give the same wait (RETRY_WAIT_Calculate)
    MaxFailedSubs,      \* most subscriptions that fail in one SubscribeToAll
    Mids,               \* message ids that libmosquitto hands out
    MaxOut,             \* packets libmosquitto holds before mosquitto_publish fails
    MaxVersion,         \* bound on the number of reconfigurations
    DmQueueMax          \* messages that fit in the DM thread's message queue

(* The USP connect record made for a controller. *)
ConnectRecord(k) == <<"connect", k>>
ConnectRecords == {ConnectRecord(k) : k \in Controllers}
Records == Responses \cup DisconnectRecords \cup ConnectRecords

ASSUME ConstantsAssumption ==
    /\ V5Configs \subseteq Nat /\ PublishQos \subseteq 0..2
    /\ MosqNewMayFail \in BOOLEAN
    /\ RetryClamp \in Nat \ {0}
    /\ MaxFailedSubs \in Nat /\ MaxOut \in Nat /\ MaxVersion \in Nat /\ DmQueueMax \in Nat
    /\ Mids \subseteq Nat \ {0}
    /\ Responses \cap DisconnectRecords = {}
    /\ (Responses \cup DisconnectRecords) \cap ConnectRecords = {}

VARIABLES
    pc,             \* MTP thread: where MTP_EXEC_MqttMain is
    client,         \* the slot
    mtp_exit,       \* mtp_exit_scheduled
    dm,             \* Device.MQTT.Client.{i}: absent, disabled or enabled
    dm_version,     \* its configuration, numbered
    dm_queue,       \* messages posted to the DM thread and not handled yet
    connect_todo,   \* controllers still to get a connect record from the DM thread
    misused         \* a libmosquitto context was destroyed inside one of its callbacks

vars == <<pc, client, mtp_exit, dm, dm_version, dm_queue, connect_todo, misused>>
dmVars == <<dm, dm_version, connect_todo>>

-----------------------------------------------------------------------------
(* The slot. *)

States == {"Idle", "SendingConnect", "AwaitingConnect", "Running",
           "AwaitingDisconnect", "ErrorRetrying"}
Scheduled == {"Off", "Signalled", "Activated"}
INVALID_MOSQUITTO_MID == 0
INVALID == 0                        \* conn_params of a slot that is not in use

NoRecord == <<>>
ASSUME NoRecordAssumption == NoRecord \notin Responses

Packet == [type: {"CONNECT", "PUBLISH", "DISCONNECT"},
           mid: Nat, rec: Records \cup {NoRecord}]
CONNECT == [type |-> "CONNECT", mid |-> INVALID_MOSQUITTO_MID, rec |-> NoRecord]
DISCONNECT == [type |-> "DISCONNECT", mid |-> INVALID_MOSQUITTO_MID, rec |-> NoRecord]

(* conn_params and next_params are configuration numbers, INVALID once     *)
(* freed.  retry_time is compared with the clock only: "zero", still       *)
(* "armed", or "due".  mosq to connack are libmosquitto's: the context    *)
(* and its socket, the packets not written yet, the publishes not          *)
(* acknowledged yet, and how far the CONNECT handshake has come.           *)
Client ==
    [conn_params: Nat, next_params: Nat, state: States,
     queue: Seq(Records),
     retry_count: Nat, retry_time: {"zero", "armed", "due"},
     schedule_reconnect: Scheduled, schedule_close: Scheduled,
     disconnect_mid: Nat, is_reconnect: BOOLEAN, is_disconnected: BOOLEAN,
     mosq: {"null", "new", "open", "closed"}, out: Seq(Packet),
     unacked: SUBSET Packet, connack: {"none", "awaited", "accepted"}]

InitClient ==
    [conn_params |-> INVALID, next_params |-> INVALID, state |-> "Idle",
     queue |-> <<>>, retry_count |-> 0, retry_time |-> "zero",
     schedule_reconnect |-> "Off", schedule_close |-> "Off",
     disconnect_mid |-> INVALID_MOSQUITTO_MID,
     is_reconnect |-> FALSE, is_disconnected |-> FALSE,
     mosq |-> "null", out |-> <<>>, unacked |-> {}, connack |-> "none"]

InUse(c) == c.conn_params # INVALID
IsV5(c) == c.conn_params \in V5Configs
SockOpen(c) == c.mosq = "open"              \* mosquitto_socket() # -1
NewOutcomes == IF MosqNewMayFail THEN BOOLEAN ELSE {TRUE}

-----------------------------------------------------------------------------
(* Functions of mqtt.c that change the slot.  "ok" is the outcome of       *)
(* creating a libmosquitto context, wherever one may be created.           *)

ResetRetryCount(c) == [c EXCEPT !.retry_time = "zero", !.retry_count = 0]

(* A context that already exists is destroyed first, with all it holds. *)
EnableMosquitto(c, ok) ==
    [c EXCEPT !.mosq = IF ok THEN "new" ELSE "null", !.out = <<>>,
              !.unacked = {}, !.connack = "none"]

EnableMqttClient(c, ok) ==
    [EnableMosquitto(c, ok) EXCEPT
        !.schedule_reconnect = "Off", !.schedule_close = "Off",
        !.disconnect_mid = INVALID_MOSQUITTO_MID, !.retry_time = "zero",
        !.state = IF ok THEN "SendingConnect" ELSE c.state]

(* Slip: the send queue is not purged. *)
FaultyCleanMqttClient(c, is_reconnect) ==
    [c EXCEPT !.conn_params = INVALID, !.next_params = IF is_reconnect THEN @ ELSE INVALID,
              !.schedule_reconnect = "Off", !.schedule_close = "Off",
              !.disconnect_mid = INVALID_MOSQUITTO_MID, !.retry_time = "zero",
              !.state = "Idle", !.is_reconnect = is_reconnect]

CleanMqttClient(c, is_reconnect) ==
    LET freed == [c EXCEPT !.conn_params = INVALID,
                           !.schedule_reconnect = "Off", !.schedule_close = "Off",
                           !.disconnect_mid = INVALID_MOSQUITTO_MID,
                           !.retry_time = "zero", !.state = "Idle"]
    IN  IF is_reconnect
        THEN freed
        ELSE [freed EXCEPT !.queue = <<>>, !.next_params = INVALID,
                           !.is_reconnect = FALSE]

UseNextParams(c) == [c EXCEPT !.conn_params = c.next_params]

HandleMqttReconnectAfterDisconnect(c, ok) ==
    LET cleaned == CleanMqttClient(c, c.is_reconnect)
    IN  IF c.is_reconnect
        THEN EnableMqttClient([UseNextParams(cleaned) EXCEPT !.is_reconnect = FALSE], ok)
        ELSE cleaned

(* The DISCONNECT is only queued: libmosquitto is in threaded mode, so it  *)
(* is mosquitto_loop_write that writes packets.  A second one is left out: *)
(* writing the first closes the socket.                                    *)
QueueDisconnect(out) ==
    IF \E i \in 1..Len(out) : out[i] = DISCONNECT THEN out ELSE Append(out, DISCONNECT)

(* Slip: the state is left as it is. *)
FaultyDisconnectClient(c) ==
    IF SockOpen(c) THEN [c EXCEPT !.out = QueueDisconnect(c.out)] ELSE c

DisconnectClient(c) ==
    IF SockOpen(c)
    THEN [c EXCEPT !.state = "AwaitingDisconnect", !.out = QueueDisconnect(c.out)]
    ELSE c

Reconnecting(c) == c.state = "AwaitingDisconnect" /\ c.is_reconnect

HandleMqttError(c, ok) ==
    IF Reconnecting(c)
    THEN HandleMqttReconnectAfterDisconnect(c, ok)
    ELSE [DisconnectClient([c EXCEPT !.is_reconnect = FALSE]) EXCEPT
             !.state = "ErrorRetrying", !.retry_time = "armed",
             !.retry_count = IF c.retry_count < RetryClamp
                             THEN c.retry_count + 1 ELSE c.retry_count]

(* Slip: the disconnect is not noted as part of a reconnect. *)
FaultyHandleMqttReconnect(c, ok) ==
    IF c.state \in {"Idle", "ErrorRetrying"} \/ ~SockOpen(c)
    THEN EnableMqttClient(UseNextParams(c), ok) ELSE DisconnectClient(c)

HandleMqttReconnect(c, ok) ==
    CASE c.state \in {"Idle", "ErrorRetrying"} -> EnableMqttClient(UseNextParams(c), ok)
      [] c.state = "AwaitingDisconnect" -> [c EXCEPT !.is_reconnect = TRUE]
      [] OTHER -> IF SockOpen(c)
                  THEN DisconnectClient([c EXCEPT !.is_reconnect = TRUE])
                  ELSE EnableMqttClient(UseNextParams(c), ok)

HandleMqttClose(c) ==
    CASE c.state = "AwaitingDisconnect" -> [c EXCEPT !.is_reconnect = FALSE]
      [] c.state \in {"SendingConnect", "Idle", "ErrorRetrying"} -> CleanMqttClient(c, FALSE)
      [] OTHER -> IF c.queue = <<>>
                  THEN DisconnectClient([c EXCEPT !.is_reconnect = FALSE])
                  ELSE c

(* Slip: the disconnect is acted upon only when it was asked for. *)
FaultyHandleMqttDisconnect(c, ok) ==
    LET d == [c EXCEPT !.is_disconnected = FALSE]
    IN  IF d.state = "AwaitingDisconnect" THEN HandleMqttReconnectAfterDisconnect(d, ok) ELSE d

HandleMqttDisconnect(c, ok) ==
    LET d == [c EXCEPT !.is_disconnected = FALSE]
    IN  CASE d.state \in {"ErrorRetrying", "Idle"} -> d
          [] d.state = "AwaitingDisconnect" -> HandleMqttReconnectAfterDisconnect(d, ok)
          [] OTHER -> HandleMqttError(d, ok)

(* The three tests at the end of MQTT_ProcessAllSocketActivity, in order. *)
ReconnectIfScheduled(c, ok) ==
    IF c.schedule_reconnect = "Activated" /\ c.queue = <<>> THEN HandleMqttReconnect(c, ok) ELSE c
CloseIfScheduled(c) ==
    IF c.schedule_close = "Activated" THEN HandleMqttClose(c) ELSE c
DisconnectIfDisconnected(c, ok) ==
    IF c.is_disconnected THEN HandleMqttDisconnect(c, ok) ELSE c
HandleScheduled(c, ok1, ok2) ==
    DisconnectIfDisconnected(CloseIfScheduled(ReconnectIfScheduled(c, ok1)), ok2)

-----------------------------------------------------------------------------
(* libmosquitto, as mqtt.c uses it. *)

Outstanding(c) == {c.out[i] : i \in 1..Len(c.out)} \cup c.unacked
FreeMids(c) == Mids \ ({p.mid : p \in Outstanding(c)} \cup {c.disconnect_mid})

(* The socket closes and libmosquitto calls DisconnectCallback. *)
SocketClosed(c) ==
    [c EXCEPT !.mosq = "closed", !.out = <<>>, !.unacked = {}, !.connack = "none",
              !.is_disconnected = TRUE]

(* PublishCallback.  HandleMqttError may destroy the context it runs in.   *)
PublishCallback(c, mid, ok) ==
    IF mid = c.disconnect_mid THEN HandleMqttError(c, ok) ELSE c

(* SubscribeToAll when "failed" of its mosquitto_subscribe calls fail: it  *)
(* carries on with the other subscriptions after each HandleMqttError.     *)
SubscribeToAll(c, failed) ==
    IF failed = 0 THEN c
    ELSE [HandleMqttError(c, TRUE) EXCEPT
             !.retry_count = IF c.retry_count + failed < RetryClamp
                             THEN c.retry_count + failed ELSE RetryClamp]

Established(c) == [ResetRetryCount(c) EXCEPT !.state = "Running"]

ExpectsConnack(c) == c.state \in {"AwaitingConnect", "ErrorRetrying"}

(* What ConnectCallback and ConnectV5Callback do not choose: whether the   *)
(* broker refuses, whether a response topic is known, and how many         *)
(* subscriptions fail.                                                     *)
ConnackOutcomes == {"refused", "no_topic", "accepted"}

ConnectCallback(c, outcome, failed, ok) ==
    IF ~ExpectsConnack(c)
    THEN IF IsV5(c) THEN HandleMqttError(c, ok) ELSE c
    ELSE CASE outcome = "refused"  -> HandleMqttError(c, ok)
           [] outcome = "no_topic" -> HandleMqttError(Established(c), ok)
           [] outcome = "accepted" -> SubscribeToAll(Established(c), failed)

-----------------------------------------------------------------------------
(* The MTP thread. *)

MtpReturns(next) ==
    /\ pc' = next
    /\ UNCHANGED <<mtp_exit, dmVars, dm_queue>>

(* DM_EXEC_Post...: the message is discarded if the queue is full. *)
FaultyPostToDm(msg) ==              \* Slip: off by one
    dm_queue' = IF Len(dm_queue) <= DmQueueMax THEN Append(dm_queue, msg) ELSE dm_queue

PostToDm(msg) ==
    dm_queue' = IF Len(dm_queue) < DmQueueMax THEN Append(dm_queue, msg) ELSE dm_queue

(* MQTT_UpdateAllSockSet: Running, with a record to send. *)
(* Slip: the record is not removed from the send queue. *)
FaultyPublishHead(c, mid) ==
    [c EXCEPT !.out = Append(c.out, [type |-> "PUBLISH", mid |-> mid, rec |-> Head(c.queue)])]

PublishHead(c, mid) ==
    LET r == Head(c.queue)
    IN  [c EXCEPT !.out = Append(c.out, [type |-> "PUBLISH", mid |-> mid, rec |-> r]),
                  !.disconnect_mid = IF r \in DisconnectRecords THEN mid
                                     ELSE INVALID_MOSQUITTO_MID,
                  !.queue = Tail(c.queue)]

CanPublish(c) == SockOpen(c) /\ Len(c.out) < MaxOut /\ FreeMids(c) # {}

UpdateSend ==
    /\ pc = "update" /\ InUse(client)
    /\ client.state = "Running" /\ client.queue # <<>>
    /\ client' = IF CanPublish(client)
                 THEN PublishHead(client, CHOOSE m \in FreeMids(client) : TRUE)
                 ELSE client
    /\ MtpReturns("process") /\ UNCHANGED misused

(* MQTT_UpdateAllSockSet: ErrorRetrying. *)
ReconnectNow(c) ==
    IF c.schedule_reconnect = "Activated"
    THEN [ResetRetryCount(UseNextParams(c)) EXCEPT !.retry_time = "due"]
    ELSE c

RetryConnection(c, ok) ==
    CASE c.retry_time = "zero"  -> HandleMqttError(c, ok)
      [] c.retry_time = "due"   -> EnableMqttClient(c, ok)
      [] c.retry_time = "armed" -> c

UpdateRetry(ok) ==
    /\ pc = "update" /\ InUse(client) /\ client.state = "ErrorRetrying"
    /\ client' = RetryConnection(ReconnectNow(client), ok)
    /\ MtpReturns("process") /\ UNCHANGED misused

UpdateNothing ==
    /\ pc = "update"
    /\ ~ /\ InUse(client)
         /\ \/ client.state = "ErrorRetrying"
            \/ client.state = "Running" /\ client.queue # <<>>
    /\ UNCHANGED <<client, misused>>
    /\ MtpReturns("process")

(* MQTT_ProcessAllSocketActivity, up to the libmosquitto loop functions. *)
ProcessUnused ==
    /\ pc = "process" /\ ~InUse(client)
    /\ UNCHANGED <<client, misused>>
    /\ MtpReturns("exit_check")

ProcessConnected ==
    /\ pc = "process" /\ InUse(client) /\ client.state # "SendingConnect"
    /\ UNCHANGED <<client, misused>>
    /\ MtpReturns("write")

(* Connect, PerformMqttClientConnect.  A failure to set the credentials or *)
(* the encryption is handled as an error twice, by callee and by caller.   *)
ConnectSetupFails(twice) ==
    /\ pc = "process" /\ InUse(client) /\ client.state = "SendingConnect"
    /\ client' = IF twice THEN HandleMqttError(HandleMqttError(client, TRUE), TRUE)
                 ELSE HandleMqttError(client, TRUE)
    /\ MtpReturns("misc") /\ UNCHANGED misused

ConnectStarts ==                                    \* releases the mutex
    /\ pc = "process" /\ InUse(client) /\ client.state = "SendingConnect"
    /\ UNCHANGED <<client, misused>>
    /\ MtpReturns("connecting")

(* Slip: the TCP connection is taken for the MQTT connection. *)
FaultyConnectReturns(connected) ==
    /\ pc = "connecting"
    /\ client' = IF connected
                 THEN [client EXCEPT !.mosq = "open", !.out = <<CONNECT>>, !.state = "Running"]
                 ELSE HandleMqttError(client, TRUE)
    /\ MtpReturns("misc") /\ UNCHANGED misused

ConnectReturns(connected) ==                        \* takes the mutex again
    /\ pc = "connecting"
    /\ client' = IF connected
                 THEN [client EXCEPT !.mosq = "open", !.out = <<CONNECT>>,
                                     !.state = "AwaitingConnect"]
                 ELSE HandleMqttError(client, TRUE)
    /\ MtpReturns("misc") /\ UNCHANGED misused

(* mosquitto_loop_write *)
Writing(type) ==
    /\ pc = "write" /\ SockOpen(client)
    /\ client.out # <<>> /\ Head(client.out).type = type
Written(c) == [c EXCEPT !.out = Tail(c.out)]

WriteConnect ==
    /\ Writing("CONNECT")
    /\ client' = [Written(client) EXCEPT !.connack = "awaited"]
    /\ MtpReturns("write") /\ UNCHANGED misused

(* The QoS is that of the configuration the record was queued under. *)
WritePublish(qos, ok) ==
    /\ Writing("PUBLISH")
    /\ LET p == Head(client.out)
       IN  IF qos = 0
           THEN /\ client' = PublishCallback(Written(client), p.mid, ok)
                /\ misused' = (misused \/ (p.mid = client.disconnect_mid /\ Reconnecting(client)))
           ELSE /\ client' = [Written(client) EXCEPT !.unacked = client.unacked \cup {p}]
                /\ UNCHANGED misused
    /\ MtpReturns("write")

WriteDisconnect ==
    /\ Writing("DISCONNECT")
    /\ client' = SocketClosed(client)
    /\ MtpReturns("write") /\ UNCHANGED misused

(* mosquitto_loop_read *)
ReadPuback(p, ok) ==
    /\ pc = "read" /\ SockOpen(client)
    /\ client' = PublishCallback([client EXCEPT !.unacked = client.unacked \ {p}], p.mid, ok)
    /\ misused' = (misused \/ (p.mid = client.disconnect_mid /\ Reconnecting(client)))
    /\ MtpReturns("read")

ReadConnack(outcome, failed, ok) ==
    /\ pc = "read" /\ SockOpen(client) /\ client.connack = "awaited"
    /\ LET c == [client EXCEPT !.connack = IF outcome = "refused" THEN "none" ELSE "accepted"]
           d == ConnectCallback(c, outcome, failed, ok)
       IN  client' = IF outcome = "refused" /\ SockOpen(d) THEN SocketClosed(d) ELSE d
    /\ misused' = (misused \/ (IsV5(client) /\ Reconnecting(client)))
    /\ IF ExpectsConnack(client) /\ outcome = "accepted"
       THEN PostToDm("handshake") ELSE UNCHANGED dm_queue
    /\ pc' = pc /\ UNCHANGED <<mtp_exit, dmVars>>

(* MessageCallback, MessageV5Callback, ReceiveMqttMessage *)
ReadMessage ==
    /\ pc = "read" /\ SockOpen(client) /\ client.connack = "accepted"
    /\ IF client.state = "Running" THEN PostToDm("record") ELSE UNCHANGED dm_queue
    /\ UNCHANGED <<pc, client, mtp_exit, dmVars, misused>>

(* mosquitto_loop_write or mosquitto_loop_read fails on the socket. *)
ConnectionLost ==
    /\ pc \in {"write", "read"} /\ SockOpen(client)
    /\ client' = SocketClosed(client)
    /\ MtpReturns(pc) /\ UNCHANGED misused

(* mosquitto_loop_misc finds the keep alive time exceeded. *)
KeepaliveTimeout ==
    /\ pc = "misc" /\ SockOpen(client)
    /\ client' = SocketClosed(client)
    /\ MtpReturns("handle") /\ UNCHANGED misused

LoopReturns ==
    /\ pc \in {"write", "read", "misc"}
    /\ pc' = [write |-> "read", read |-> "misc", misc |-> "handle"][pc]
    /\ UNCHANGED <<client, mtp_exit, dmVars, dm_queue, misused>>

ProcessScheduled(ok1, ok2) ==
    /\ pc = "handle"
    /\ client' = HandleScheduled(client, ok1, ok2)
    /\ MtpReturns("exit_check") /\ UNCHANGED misused

(* The end of the loop in MTP_EXEC_MqttMain. *)
AreAllResponsesSent(c) == InUse(c) => c.queue = <<>>

ExitCheck ==
    /\ pc = "exit_check"
    /\ MtpReturns(IF mtp_exit = "Activated" /\ AreAllResponsesSent(client)
                  THEN "destroy" ELSE "update")
    /\ UNCHANGED <<client, misused>>

Destroy ==
    /\ pc = "destroy"
    /\ client' = InitClient
    /\ MtpReturns("exited") /\ UNCHANGED misused

(* What a destroyed context leads to is undefined: the agent may carry on, *)
(* or stop at any later point.                                             *)
Crash ==
    /\ misused /\ pc \notin {"exited", "crashed"}
    /\ pc' = "crashed"
    /\ UNCHANGED <<client, mtp_exit, dmVars, dm_queue, misused>>

MtpThread ==
    \/ UpdateSend \/ UpdateNothing
    \/ ProcessUnused \/ ProcessConnected \/ ConnectStarts
    \/ \E b \in BOOLEAN : ConnectSetupFails(b) \/ ConnectReturns(b)
    \/ WriteConnect \/ WriteDisconnect \/ ReadMessage
    \/ ConnectionLost \/ KeepaliveTimeout \/ LoopReturns
    \/ \E ok \in NewOutcomes :
          \/ UpdateRetry(ok)
          \/ \E qos \in PublishQos : WritePublish(qos, ok)
          \/ \E p \in client.unacked : ReadPuback(p, ok)
          \/ \E outcome \in ConnackOutcomes, failed \in 0..MaxFailedSubs :
                ReadConnack(outcome, failed, ok)
          \/ \E ok2 \in NewOutcomes : ProcessScheduled(ok, ok2)
    \/ ExitCheck \/ Destroy

(* cur_time reaches retry_time; it is only looked at in "update". *)
RetryTimeReached ==
    /\ pc = "update" /\ client.retry_time = "armed"
    /\ client' = [client EXCEPT !.retry_time = "due"]
    /\ UNCHANGED <<pc, mtp_exit, dmVars, dm_queue, misused>>

-----------------------------------------------------------------------------
(* The DM thread: each call to mqtt.c waits for the mutex.  Once the MTP   *)
(* thread has exited the calls no longer reach the slot.                   *)

MutexFree == pc \in {"update", "process", "connecting", "exit_check", "destroy"}
DmCalls == MutexFree /\ connect_todo = {}
DmCallsOnly == UNCHANGED <<pc, misused>>

Busy(c) == InUse(c) /\ c.state \notin {"Idle", "ErrorRetrying"}

(* Slips: next_params is not set; a connect under way is not respected. *)
FaultyEnableClient_Params(c, version, enable, ok) ==
    LET d == ResetRetryCount([c EXCEPT !.conn_params = version])
    IN  IF Busy(c) THEN c ELSE IF enable THEN EnableMqttClient(d, ok) ELSE d
FaultyEnableClient_State(c, version, enable, ok) ==
    LET d == ResetRetryCount([c EXCEPT !.conn_params = version, !.next_params = version])
    IN  IF enable THEN EnableMqttClient(d, ok) ELSE d

MQTT_EnableClient(c, version, enable, ok) ==
    LET d == ResetRetryCount([c EXCEPT !.conn_params = version, !.next_params = version])
    IN  IF Busy(c) THEN c                                   \* an error is returned
        ELSE IF enable THEN EnableMqttClient(d, ok) ELSE d

MQTT_DisableClient(c) ==
    IF InUse(c) THEN [c EXCEPT !.schedule_close = "Signalled"] ELSE c

MQTT_ScheduleReconnect(c, version) ==
    IF InUse(c) THEN [c EXCEPT !.next_params = version, !.schedule_reconnect = "Signalled"]
    ELSE c

Activate(s) == IF s = "Signalled" THEN "Activated" ELSE s

(* Notify_MQTTClientAdded, and DEVICE_MQTT_StartAllClients when enabled. *)
ClientAdded(enable, ok) ==
    /\ DmCalls /\ dm = "absent"
    /\ client' = MQTT_EnableClient(client, dm_version, enable, ok)
    /\ dm' = IF enable THEN "enabled" ELSE "disabled"
    /\ UNCHANGED <<mtp_exit, dm_version, dm_queue, connect_todo>> /\ DmCallsOnly

(* NotifyChange_MQTTEnable *)
EnableSet(ok) ==
    /\ DmCalls /\ dm = "disabled"
    /\ client' = MQTT_EnableClient(client, dm_version, TRUE, ok)
    /\ dm' = "enabled"
    /\ UNCHANGED <<mtp_exit, dm_version, dm_queue, connect_todo>> /\ DmCallsOnly

EnableCleared ==
    /\ DmCalls /\ dm = "enabled"
    /\ client' = MQTT_DisableClient(client)
    /\ dm' = "disabled"
    /\ UNCHANGED <<mtp_exit, dm_version, dm_queue, connect_todo>> /\ DmCallsOnly

(* Notify_MqttClientDeleted, DestroyMQTTClient *)
ClientDeleted ==
    /\ DmCalls /\ dm # "absent"
    /\ client' = MQTT_DisableClient(client)
    /\ dm' = "absent"
    /\ UNCHANGED <<mtp_exit, dm_version, dm_queue, connect_todo>> /\ DmCallsOnly

(* NotifyChange_ of any other parameter, ScheduleMqttReconnect *)
ParameterSet ==
    /\ DmCalls /\ dm # "absent" /\ dm_version < MaxVersion
    /\ dm_version' = dm_version + 1
    /\ client' = IF dm = "enabled" THEN MQTT_ScheduleReconnect(client, dm_version + 1)
                 ELSE client
    /\ UNCHANGED <<mtp_exit, dm, dm_queue, connect_todo>> /\ DmCallsOnly

(* MTP_EXEC_ScheduleExit *)
ScheduleExit ==
    /\ DmCalls
    /\ mtp_exit' = "Signalled"
    /\ UNCHANGED <<client, dmVars, dm_queue>> /\ DmCallsOnly

(* MTP_EXEC_ActivateScheduledActions, MQTT_ActivateScheduledActions *)
ActivateScheduledActions ==
    /\ DmCalls
    /\ mtp_exit' = Activate(mtp_exit)
    /\ client' = [client EXCEPT !.schedule_reconnect = Activate(client.schedule_reconnect),
                                !.schedule_close = Activate(client.schedule_close)]
    /\ UNCHANGED <<dmVars, dm_queue>> /\ DmCallsOnly

(* MQTT_QueueBinaryMessage of anything but a connect record. *)
InQueue(c, r) == \E i \in 1..Len(c.queue) : c.queue[i] = r

FaultyQueueRecord(c, r) ==          \* Slip: at the head of the queue
    IF InUse(c) /\ ~InQueue(c, r) THEN [c EXCEPT !.queue = <<r>> \o c.queue] ELSE c

QueueRecord(c, r) ==
    IF InUse(c) /\ ~InQueue(c, r) THEN [c EXCEPT !.queue = Append(c.queue, r)] ELSE c

QueueResponse(r) ==
    /\ DmCalls /\ r \in Responses
    /\ client' = QueueRecord(client, r)
    /\ UNCHANGED <<mtp_exit, dmVars, dm_queue>> /\ DmCallsOnly

DmReceives(msg) ==
    /\ DmCalls /\ dm_queue # <<>> /\ Head(dm_queue) = msg
    /\ dm_queue' = Tail(dm_queue)
    /\ UNCHANGED <<mtp_exit, dm, dm_version>> /\ DmCallsOnly

(* A valid record: what it makes the DM thread do are the actions above. *)
RecordAccepted == DmReceives("record") /\ UNCHANGED <<client, connect_todo>>

(* ValidateUspRecord refuses the record: MSG_HANDLER_QueueUspDisconnectRecord. *)
RecordRefused(r) ==
    /\ DmReceives("record") /\ r \in DisconnectRecords
    /\ client' = QueueRecord(client, r)
    /\ UNCHANGED connect_todo

(* kDmExecMsg_MqttHandshakeComplete: DEVICE_CONTROLLER_QueueMqttConnectRecord *)
HandshakeComplete ==
    /\ DmReceives("handshake")
    /\ connect_todo' = Controllers
    /\ UNCHANGED client

(* QueueUspConnectRecord_MQTT: the connect and disconnect records in the   *)
(* queue are stale; the others keep their order behind the new record.     *)
Kept(q) == {i \in 1..Len(q) : q[i] \in Responses}
Increasing(f, n) == \A i, j \in 1..n : i < j => f[i] < f[j]
ResponsesIn(q) ==
    LET n == Cardinality(Kept(q))
        f == CHOOSE f \in [1..n -> Kept(q)] : Increasing(f, n)
    IN  [i \in 1..n |-> q[f[i]]]

FaultyQueueConnectRecord(k) ==          \* Slip: stale records stay
    /\ MutexFree /\ k \in connect_todo
    /\ connect_todo' = connect_todo \ {k}
    /\ client' = IF InUse(client)
                 THEN [client EXCEPT !.queue = <<ConnectRecord(k)>> \o @]
                 ELSE client
    /\ UNCHANGED <<mtp_exit, dm, dm_version, dm_queue>> /\ DmCallsOnly
QueueConnectRecord(k) ==
    /\ MutexFree /\ k \in connect_todo
    /\ connect_todo' = connect_todo \ {k}
    /\ client' = IF InUse(client)
                 THEN [client EXCEPT !.queue = <<ConnectRecord(k)>> \o ResponsesIn(client.queue)]
                 ELSE client
    /\ UNCHANGED <<mtp_exit, dm, dm_version, dm_queue>> /\ DmCallsOnly

DmThread ==
    \/ \E ok \in NewOutcomes :
          \/ \E b \in BOOLEAN : ClientAdded(b, ok)
          \/ EnableSet(ok)
    \/ EnableCleared \/ ClientDeleted \/ ParameterSet
    \/ ScheduleExit \/ ActivateScheduledActions
    \/ \E r \in Responses : QueueResponse(r)
    \/ RecordAccepted \/ HandshakeComplete
    \/ \E r \in DisconnectRecords : RecordRefused(r)
    \/ \E k \in Controllers : QueueConnectRecord(k)

Init ==
    /\ pc = "update" /\ client = InitClient /\ mtp_exit = "Off"
    /\ dm = "absent" /\ dm_version = 1
    /\ dm_queue = <<>> /\ connect_todo = {} /\ misused = FALSE

Stopped == pc \in {"exited", "crashed"} /\ UNCHANGED vars

Next == MtpThread \/ RetryTimeReached \/ Crash \/ DmThread \/ Stopped

Spec == Init /\ [][Next]_vars
-----------------------------------------------------------------------------
(* Safety. *)

(* The slot, the MTP thread and the DM thread's tables have their types,   *)
(* and the bounded queue of the DM thread is never longer than it holds:   *)
(* DM_EXEC_PostMqttHandshakeComplete drops what does not fit.              *)
TypeOK ==
    /\ pc \in {"update", "process", "connecting", "write", "read", "misc", "handle",
               "exit_check", "destroy", "exited", "crashed"}
    /\ client \in Client
    /\ mtp_exit \in Scheduled
    /\ dm \in {"absent", "disabled", "enabled"}
    /\ dm_version \in Nat \ {INVALID}
    /\ dm_queue \in Seq({"handshake", "record"}) /\ Len(dm_queue) <= DmQueueMax
    /\ connect_todo \subseteq Controllers
    /\ misused \in BOOLEAN

(* The broker may close the connection at any time, and libmosquitto says  *)
(* so only through DisconnectCallback.  Whatever reconnects and closes are *)
(* under way, a slot that counts on a socket has one, or has the loss      *)
(* noted in is_disconnected; once the MTP thread releases the mutex it has *)
(* one.  Otherwise the slot would wait for ever for an answer.             *)
LossIsNoticed ==
    client.state \in {"AwaitingConnect", "Running", "AwaitingDisconnect"} =>
        \/ SockOpen(client)
        \/ client.is_disconnected /\ ~MutexFree

(* A slot is Running only on a connection whose CONNECT the broker has     *)
(* accepted: records are never published before the handshake, however     *)
(* many connections came before.                                           *)
RunningIsConnected ==
    client.state = "Running" /\ SockOpen(client) => client.connack = "accepted"

(* mosquitto_connect is called without the mutex.  Meanwhile the DM thread *)
(* must not replace the libmosquitto context or the parameters in use.     *)
ConnectUndisturbed ==
    pc = "connecting" =>
        InUse(client) /\ client.state = "SendingConnect" /\ client.mosq = "new"

(* A slot in use always has next_params to reconnect with: ParamReplace    *)
(* from freed parameters would take the slot out of use.                   *)
NextParamsHeld == InUse(client) => client.next_params # INVALID

(* A closed slot leaves nothing behind for the client that gets it next:   *)
(* no records, no scheduled action, no pending reconnect.                  *)
UnusedSlotIsClean ==
    ~InUse(client) =>
        /\ client.state = "Idle" /\ client.queue = <<>>
        /\ client.next_params = INVALID /\ ~client.is_reconnect
        /\ client.schedule_reconnect = "Off" /\ client.schedule_close = "Off"
        /\ ~client.is_disconnected

(* Nothing is published behind a DISCONNECT: it would never be sent, but   *)
(* would be gone from the queue.                                           *)
NothingBehindDisconnect ==
    \A i, j \in 1..Len(client.out) : i < j => client.out[i] # DISCONNECT

(* "ensuring that there is only one connect record in the queue"           *)
(* (QueueUspConnectRecord_MQTT), and it is the first; no record is queued  *)
(* twice (IsUspRecordInMqttQueue).                                         *)
ConnectRecordFirst ==
    \A i, j \in 1..Len(client.queue) :
        i < j => client.queue[i] # client.queue[j] /\ client.queue[j] \notin ConnectRecords

-----------------------------------------------------------------------------
(* What a step may do to the queue. *)

RecordsOf(out) == [i \in 1..Len(out) |-> out[i].rec]

(* The slot implements RecordChannel: responses are not reordered,         *)
(* duplicated or, while the slot stays open, lost from the queue, whatever *)
(* reconnects, retries and connect records come in between.                *)
Channel == INSTANCE RecordChannel WITH
               queued <- ResponsesIn(client.queue),
               sending <- ResponsesIn(RecordsOf(client.out))
ChannelSpec == Channel!Spec

(* CleanMqttClient purges the queue only for a close that was asked for,   *)
(* never as part of a reconnect or a retry.                                *)
PurgedOnlyByClose ==
    [][ client.queue # <<>> /\ client'.queue = <<>> /\ client'.out = client.out =>
            client.schedule_close # "Off" \/ pc = "destroy" ]_vars

-----------------------------------------------------------------------------
(* Liveness.  The MTP thread keeps running and time passes.  A packet is   *)
(* written and a CONNACK arrives, or else, while it is due, the keep alive *)
(* time, which is never zero (PerformMqttClientConnect), closes the        *)
(* socket.  A broker that stays connected acknowledges what it is sent.    *)
(* Controllers reconfigure the client only finitely often.                 *)

WritePacket == WriteConnect \/ WriteDisconnect \/ \E qos \in PublishQos : WritePublish(qos, TRUE)
ConnackArrives ==
    \E outcome \in ConnackOutcomes, failed \in 0..MaxFailedSubs : ReadConnack(outcome, failed, TRUE)
PubackArrives == \E p \in client.unacked : ReadPuback(p, TRUE)

Fairness ==
    /\ WF_vars(MtpThread)
    /\ SF_vars(RetryTimeReached)
    /\ SF_vars(WritePacket \/ (client.out # <<>> /\ KeepaliveTimeout))
    /\ SF_vars(ConnackArrives \/ (client.connack = "awaited" /\ KeepaliveTimeout))
    /\ SF_vars(PubackArrives)
    /\ <>[][UNCHANGED <<dm, dm_version>>]_vars

FairSpec == Spec /\ Fairness

(* No state in which the slot waits for something lasts for ever: the      *)
(* connect, the CONNACK, the disconnect and the retry all come to an end.  *)
NoWaitLastsForever ==
    \A s \in {"SendingConnect", "AwaitingConnect", "AwaitingDisconnect", "ErrorRetrying"} :
        client.state = s ~> (client.state # s \/ pc \in {"exited", "crashed"})

(* On a connection that stays up, the record at the head of the queue is   *)
(* handed over sooner or later (MQTT_UpdateAllSockSet).                    *)
HeadIsPublished ==
    \A r \in Responses :
        (client.state = "Running" /\ client.queue # <<>> /\ Head(client.queue) = r)
            ~> (\/ client.state # "Running" \/ pc \in {"exited", "crashed"}
                \/ client.queue = <<>> \/ Head(client.queue) # r)

-----------------------------------------------------------------------------
(* What comments in the code say and the code does not keep. *)

(* mqtt.c, MQTT_DisableClient: "Schedule the disable to occur after it has *)
(* been activated, and all queued messages sent out".  A client that is    *)
(* disabled or deleted is idle, or still has its close ahead of it.        *)
DisableIsNotForgotten ==
    dm # "enabled" /\ MutexFree => client.state = "Idle" \/ client.schedule_close # "Off"

(* mqtt.c, HandleMqttError: "This case should never be allowed to be       *)
(* called from a libmosquitto callback".                                   *)
NoContextDestroyedInCallback == ~misused

(* mqtt.c, MQTT_UpdateAllSockSet: "If this is a USP disconnect record,     *)
(* then save the (libmosquitto allocated) message id, so that when we get  *)
(* the publish callback, we can then shutdown the connection".  As long as *)
(* a disconnect record is on its way, its message id is the saved one.     *)
DisconnectRecordIsAwaited ==
    \A p \in Outstanding(client) :
        p.rec \in DisconnectRecords => p.mid = client.disconnect_mid
=============================================================================
