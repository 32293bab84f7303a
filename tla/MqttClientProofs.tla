-------------------------- MODULE MqttClientProofs --------------------------
(***************************************************************************)
(* Proofs about MqttClient, for every number of controllers, records,      *)
(* configurations and message ids.                                         *)
(***************************************************************************)
EXTENDS MqttQueueProofs

(***************************************************************************)
(* The inductive invariant.  The properties speak of the slot when nobody  *)
(* works on it; their induction needs what holds in the middle of the loop *)
(* of the MTP thread: a slot that is being processed is in use (callbacks  *)
(* never free it), a loss is noted until the end of the loop, and a slot   *)
(* that a callback has put back to SendingConnect has no reconnect left to *)
(* do, so its fresh libmosquitto context is not replaced once more.  A     *)
(* CONNECT is written before anything else, so that a slot that is Running *)
(* never starts a handshake.                                               *)
(***************************************************************************)
ConnectIsFirst(c) ==
    \A i \in 1..Len(c.out) : c.out[i].type = "CONNECT" => i = 1 /\ c.connack = "none"

SlotBase(c) ==
    /\ InUse(c) => c.next_params # INVALID
    /\ ~InUse(c) =>
        /\ c.state = "Idle" /\ c.queue = <<>>
        /\ c.next_params = INVALID /\ ~c.is_reconnect
        /\ c.schedule_reconnect = "Off" /\ c.schedule_close = "Off"
    /\ c.state = "SendingConnect" => c.mosq = "new" /\ c.connack = "none"
    /\ c.state = "Running" /\ SockOpen(c) => c.connack = "accepted"
    /\ ConnectIsFirst(c)

CountsOnSocket(c) == c.state \in {"AwaitingConnect", "Running", "AwaitingDisconnect"}

SlotOK(c) ==
    /\ SlotBase(c)
    /\ CountsOnSocket(c) => SockOpen(c) \/ c.is_disconnected

Looping == {"write", "read", "misc", "handle"}

IInv ==
    /\ TypeOK
    /\ SlotOK(client)
    /\ client.is_disconnected => InUse(client) /\ pc \in Looping \cup {"crashed"}
    /\ pc \in Looping \cup {"connecting"} => InUse(client)
    /\ pc = "connecting" => client.state = "SendingConnect"
    /\ pc \in Looping /\ client.state = "SendingConnect" => client.schedule_reconnect = "Off"

-----------------------------------------------------------------------------
(* Every function of mqtt.c maps slots to slots, and keeps the slot sound. *)

LEMMA InitClientType == InitClient \in Client
  BY DEF InitClient, Client, States, Scheduled, INVALID, INVALID_MOSQUITTO_MID

LEMMA DisconnectPacket == DISCONNECT \in Packet /\ CONNECT \in Packet
  BY DEF DISCONNECT, CONNECT, Packet, INVALID_MOSQUITTO_MID

LEMMA EnableMosquittoType ==
  ASSUME NEW c \in Client, NEW ok \in BOOLEAN
  PROVE  EnableMosquitto(c, ok) \in Client
<1>1. (IF ok THEN "new" ELSE "null") \in {"null", "new", "open", "closed"}
  OBVIOUS
<1>2. <<>> \in Seq(Packet) /\ {} \in SUBSET Packet
  OBVIOUS
<1> QED
  BY <1>1, <1>2 DEF EnableMosquitto, Client

LEMMA EnableType ==
  ASSUME NEW c \in Client, NEW ok \in BOOLEAN
  PROVE  EnableMqttClient(c, ok) \in Client
<1> DEFINE d == EnableMosquitto(c, ok)
<1>1. d \in Client
  BY EnableMosquittoType
<1>2. (IF ok THEN "SendingConnect" ELSE c.state) \in States
  BY DEF Client, States
<1> HIDE DEF d
<1>3. [d EXCEPT !.schedule_reconnect = "Off", !.schedule_close = "Off",
               !.disconnect_mid = INVALID_MOSQUITTO_MID, !.retry_time = "zero",
               !.state = IF ok THEN "SendingConnect" ELSE c.state] \in Client
  BY <1>1, <1>2 DEF Client, Scheduled, INVALID_MOSQUITTO_MID
<1> QED
  BY <1>3 DEF EnableMqttClient, d

LEMMA CleanType ==
  ASSUME NEW c \in Client, NEW b \in BOOLEAN
  PROVE  CleanMqttClient(c, b) \in Client
<1> DEFINE freed == [c EXCEPT !.conn_params = INVALID,
                           !.schedule_reconnect = "Off", !.schedule_close = "Off",
                           !.disconnect_mid = INVALID_MOSQUITTO_MID,
                           !.retry_time = "zero", !.state = "Idle"]
<1>1. freed \in Client
  BY DEF Client, States, Scheduled, INVALID, INVALID_MOSQUITTO_MID
<1> HIDE DEF freed
<1>2. <<>> \in Seq(Records)
  OBVIOUS
<1>3. [freed EXCEPT !.queue = <<>>, !.next_params = INVALID, !.is_reconnect = FALSE] \in Client
  BY <1>1, <1>2 DEF Client, INVALID
<1> QED
  BY <1>1, <1>3 DEF CleanMqttClient, freed

LEMMA UseNextType ==
  ASSUME NEW c \in Client
  PROVE  UseNextParams(c) \in Client
  BY DEF UseNextParams, Client

LEMMA ReconnectAfterDisconnectType ==
  ASSUME NEW c \in Client, NEW ok \in BOOLEAN
  PROVE  HandleMqttReconnectAfterDisconnect(c, ok) \in Client
<1> DEFINE d == CleanMqttClient(c, c.is_reconnect)
<1> DEFINE e == [UseNextParams(d) EXCEPT !.is_reconnect = FALSE]
<1>0. c.is_reconnect \in BOOLEAN
  BY DEF Client
<1>1. d \in Client
  BY <1>0, CleanType
<1>2. UseNextParams(d) \in Client
  BY <1>1, UseNextType
<1>3. e \in Client
  <2> HIDE DEF d
  <2> QED BY <1>2 DEF Client
<1>4. EnableMqttClient(e, ok) \in Client
  <2> HIDE DEF e
  <2> QED BY <1>3, EnableType
<1> QED
  BY <1>1, <1>4 DEF HandleMqttReconnectAfterDisconnect

LEMMA DisconnectClientType ==
  ASSUME NEW c \in Client
  PROVE  DisconnectClient(c) \in Client
<1>1. c.out \in Seq(Packet)
  BY DEF Client
<1>2. QueueDisconnect(c.out) \in Seq(Packet)
  BY <1>1, DisconnectPacket DEF QueueDisconnect
<1> QED
  BY <1>2 DEF DisconnectClient, Client, States

LEMMA EnableFields ==
  ASSUME NEW c \in Client, NEW ok \in BOOLEAN
  PROVE  LET e == EnableMqttClient(c, ok)
         IN  /\ e.conn_params = c.conn_params /\ e.next_params = c.next_params
             /\ e.is_disconnected = c.is_disconnected
             /\ e.schedule_reconnect = "Off"
             /\ e.mosq = IF ok THEN "new" ELSE "null"
             /\ e.state = IF ok THEN "SendingConnect" ELSE c.state
             /\ e.out = <<>> /\ e.connack = "none"
  BY DEF EnableMqttClient, EnableMosquitto, Client

(* Starting a connection, from any state that survives a failure to start. *)
LEMMA EnableSound ==
  ASSUME NEW c \in Client, NEW ok \in BOOLEAN,
         InUse(c), c.next_params # INVALID,
         \/ c.state \in {"Idle", "ErrorRetrying"}
         \/ c.state # "SendingConnect" /\ c.is_disconnected
  PROVE  LET e == EnableMqttClient(c, ok)
         IN  /\ e \in Client /\ SlotOK(e) /\ InUse(e)
             /\ e.is_disconnected = c.is_disconnected
             /\ e.schedule_reconnect = "Off"
<1> DEFINE e == EnableMqttClient(c, ok)
<1>1. e \in Client
  BY EnableType
<1>2. /\ e.conn_params = c.conn_params /\ e.next_params = c.next_params
      /\ e.is_disconnected = c.is_disconnected
      /\ e.schedule_reconnect = "Off"
      /\ e.mosq = IF ok THEN "new" ELSE "null"
      /\ e.state = IF ok THEN "SendingConnect" ELSE c.state
      /\ e.out = <<>> /\ e.connack = "none"
  BY EnableFields
<1> HIDE DEF e
<1>3. ConnectIsFirst(e)
  BY <1>2 DEF ConnectIsFirst
<1>4. SlotOK(e) /\ InUse(e)
  BY <1>2, <1>3 DEF SlotOK, SlotBase, CountsOnSocket, SockOpen, InUse
<1> QED
  BY <1>1, <1>2, <1>4 DEF e

LEMMA CleanFields ==
  ASSUME NEW c \in Client, NEW b \in BOOLEAN
  PROVE  LET d == CleanMqttClient(c, b)
         IN  /\ d.state = "Idle" /\ d.conn_params = INVALID
             /\ d.schedule_reconnect = "Off" /\ d.schedule_close = "Off"
             /\ d.is_disconnected = c.is_disconnected
             /\ d.out = c.out /\ d.connack = c.connack
             /\ b => d.next_params = c.next_params
             /\ ~b => d.queue = <<>> /\ d.next_params = INVALID /\ ~d.is_reconnect
  BY DEF CleanMqttClient, Client

LEMMA CleanSound ==
  ASSUME NEW c \in Client, ConnectIsFirst(c)
  PROVE  LET d == CleanMqttClient(c, FALSE)
         IN  d \in Client /\ SlotOK(d) /\ d.is_disconnected = c.is_disconnected
<1> DEFINE d == CleanMqttClient(c, FALSE)
<1>1. d \in Client
  BY CleanType
<1>2. /\ d.state = "Idle" /\ d.conn_params = INVALID
      /\ d.schedule_reconnect = "Off" /\ d.schedule_close = "Off"
      /\ d.is_disconnected = c.is_disconnected
      /\ d.queue = <<>> /\ d.next_params = INVALID /\ ~d.is_reconnect
      /\ d.out = c.out /\ d.connack = c.connack
  BY CleanFields
<1> HIDE DEF d
<1>3. ConnectIsFirst(d)
  BY <1>2 DEF ConnectIsFirst
<1>4. SlotOK(d)
  BY <1>2, <1>3 DEF SlotOK, SlotBase, CountsOnSocket, InUse
<1> QED
  BY <1>1, <1>2, <1>4 DEF d

LEMMA ReconnectAfterDisconnectSound ==
  ASSUME NEW c \in Client, NEW ok \in BOOLEAN, SlotBase(c), InUse(c)
  PROVE  LET h == HandleMqttReconnectAfterDisconnect(c, ok)
         IN  /\ h \in Client /\ SlotOK(h)
             /\ h.is_disconnected = c.is_disconnected
             /\ c.is_reconnect => InUse(h) /\ h.schedule_reconnect = "Off"
<1> DEFINE d == CleanMqttClient(c, TRUE)
<1> DEFINE e == [UseNextParams(d) EXCEPT !.is_reconnect = FALSE]
<1>1. CASE ~c.is_reconnect
  <2>1. c.is_reconnect = FALSE
    BY <1>1 DEF Client
  <2> QED
    BY <2>1, CleanSound DEF HandleMqttReconnectAfterDisconnect, SlotBase
<1>2. CASE c.is_reconnect
  <2>1. c.is_reconnect = TRUE
    BY <1>2 DEF Client
  <2>2. /\ d \in Client /\ d.state = "Idle"
        /\ d.next_params = c.next_params /\ d.is_disconnected = c.is_disconnected
    BY CleanType, CleanFields
  <2>3. c.next_params # INVALID
    BY DEF SlotBase
  <2>4. HandleMqttReconnectAfterDisconnect(c, ok) = EnableMqttClient(e, ok)
    BY <2>1 DEF HandleMqttReconnectAfterDisconnect
  <2> HIDE DEF d
  <2>5. /\ e \in Client /\ e.state = "Idle" /\ e.conn_params = c.next_params
        /\ e.next_params = c.next_params /\ e.is_disconnected = c.is_disconnected
    BY <2>2 DEF UseNextParams, Client
  <2> HIDE DEF e
  <2>6. InUse(e) /\ e.next_params # INVALID
    BY <2>3, <2>5 DEF InUse
  <2> QED
    BY <2>1, <2>4, <2>5, <2>6, EnableSound
<1> QED
  BY <1>1, <1>2

LEMMA DisconnectClientFields ==
  ASSUME NEW c \in Client
  PROVE  LET d == DisconnectClient(c)
         IN  /\ d \in Client
             /\ d.conn_params = c.conn_params /\ d.next_params = c.next_params
             /\ d.is_disconnected = c.is_disconnected /\ d.mosq = c.mosq
             /\ d.schedule_reconnect = c.schedule_reconnect
             /\ SockOpen(c) => d.state = "AwaitingDisconnect"
             /\ ~SockOpen(c) => d = c
             /\ ConnectIsFirst(c) => ConnectIsFirst(d)
<1> DEFINE d == DisconnectClient(c)
<1>1. /\ d.conn_params = c.conn_params /\ d.next_params = c.next_params
      /\ d.is_disconnected = c.is_disconnected /\ d.mosq = c.mosq
      /\ d.schedule_reconnect = c.schedule_reconnect
      /\ d.connack = c.connack
      /\ SockOpen(c) => d.state = "AwaitingDisconnect" /\ d.out = QueueDisconnect(c.out)
      /\ ~SockOpen(c) => d = c
  BY DEF DisconnectClient, Client
<1>2. c.out \in Seq(Packet)
  BY DEF Client
<1>3. ASSUME ConnectIsFirst(c), SockOpen(c) PROVE ConnectIsFirst(d)
  <2>1. CASE QueueDisconnect(c.out) = c.out
    BY <1>1, <1>3, <2>1 DEF ConnectIsFirst
  <2>2. CASE QueueDisconnect(c.out) = Append(c.out, DISCONNECT)
    <3>1. d.out = Append(c.out, DISCONNECT)
      BY <1>1, <1>3, <2>2
    <3> HIDE DEF d
    <3> QED
      BY <1>1, <1>2, <1>3, <3>1 DEF ConnectIsFirst, DISCONNECT
  <2> QED
    BY <2>1, <2>2 DEF QueueDisconnect
<1> QED
  BY <1>1, <1>3, DisconnectClientType

LEMMA ErrorSound ==
  ASSUME NEW c \in Client, NEW ok \in BOOLEAN, SlotBase(c), InUse(c)
  PROVE  LET h == HandleMqttError(c, ok)
         IN  /\ h \in Client /\ SlotOK(h) /\ InUse(h)
             /\ h.is_disconnected = c.is_disconnected
             /\ h.state = "SendingConnect" => h.schedule_reconnect = "Off"
<1>1. CASE Reconnecting(c)
  BY <1>1, ReconnectAfterDisconnectSound DEF HandleMqttError, Reconnecting
<1>2. CASE ~Reconnecting(c)
  <2> DEFINE b == [c EXCEPT !.is_reconnect = FALSE]
  <2> DEFINE d == DisconnectClient(b)
  <2> DEFINE n == IF c.retry_count < RetryClamp THEN c.retry_count + 1 ELSE c.retry_count
  <2> DEFINE h == [d EXCEPT !.state = "ErrorRetrying", !.retry_time = "armed",
                            !.retry_count = n]
  <2>1. /\ b \in Client /\ b.conn_params = c.conn_params /\ b.next_params = c.next_params
        /\ b.is_disconnected = c.is_disconnected /\ b.out = c.out /\ b.connack = c.connack
    BY DEF Client
  <2>2. n \in Nat
    BY DEF Client
  <2>3. HandleMqttError(c, ok) = h
    BY <1>2 DEF HandleMqttError
  <2> HIDE DEF b, n
  <2>4. ConnectIsFirst(b)
    BY <2>1 DEF SlotBase, ConnectIsFirst
  <2>5. /\ d \in Client /\ d.conn_params = c.conn_params /\ d.next_params = c.next_params
        /\ d.is_disconnected = c.is_disconnected /\ ConnectIsFirst(d)
    BY <2>1, <2>4, DisconnectClientFields
  <2> HIDE DEF d
  <2>6. /\ h \in Client /\ h.conn_params = c.conn_params /\ h.next_params = c.next_params
        /\ h.is_disconnected = c.is_disconnected /\ h.state = "ErrorRetrying"
        /\ h.out = d.out /\ h.connack = d.connack
    BY <2>2, <2>5 DEF Client, States
  <2> HIDE DEF h
  <2>7. ConnectIsFirst(h)
    BY <2>5, <2>6 DEF ConnectIsFirst
  <2>8. SlotOK(h) /\ InUse(h)
    BY <2>6, <2>7 DEF SlotOK, SlotBase, CountsOnSocket, InUse
  <2> QED
    BY <2>3, <2>6, <2>8
<1> QED
  BY <1>1, <1>2

(* The slot in the middle of the three tests that end a loop. *)
LEMMA ReconnectSound ==
  ASSUME NEW c \in Client, NEW ok \in BOOLEAN, SlotOK(c), InUse(c),
         c.state # "SendingConnect"
  PROVE  LET h == HandleMqttReconnect(c, ok)
         IN  h \in Client /\ SlotOK(h) /\ InUse(h) /\ h.is_disconnected = c.is_disconnected
<1> DEFINE u == UseNextParams(c)
<1> DEFINE b == [c EXCEPT !.is_reconnect = TRUE]
<1> DEFINE d == DisconnectClient(b)
<1>1. c.next_params # INVALID
  BY DEF SlotOK, SlotBase
<1>2. /\ u \in Client /\ u.state = c.state /\ u.conn_params = c.next_params
      /\ u.next_params = c.next_params /\ u.is_disconnected = c.is_disconnected
  BY DEF UseNextParams, Client
<1>3. /\ b \in Client /\ b.conn_params = c.conn_params /\ b.next_params = c.next_params
      /\ b.state = c.state /\ b.mosq = c.mosq /\ b.is_disconnected = c.is_disconnected
      /\ b.out = c.out /\ b.connack = c.connack
  BY DEF Client
<1> HIDE DEF u, b
<1>0. ConnectIsFirst(b)
  BY <1>3 DEF SlotOK, SlotBase, ConnectIsFirst
<1>4. /\ ConnectIsFirst(d)
      /\ d \in Client /\ d.conn_params = c.conn_params /\ d.next_params = c.next_params
      /\ d.is_disconnected = c.is_disconnected /\ d.mosq = c.mosq
      /\ SockOpen(c) => d.state = "AwaitingDisconnect"
  BY <1>0, <1>3, DisconnectClientFields DEF SockOpen
<1> HIDE DEF d
<1>5. InUse(u) /\ u.next_params # INVALID
  BY <1>1, <1>2 DEF InUse
<1>6. CASE c.state \in {"Idle", "ErrorRetrying"}
  <2>1. HandleMqttReconnect(c, ok) = EnableMqttClient(u, ok)
    BY <1>6 DEF HandleMqttReconnect, u
  <2> QED
    BY <1>2, <1>5, <1>6, <2>1, EnableSound
<1>7. CASE c.state = "AwaitingDisconnect"
  <2>1. HandleMqttReconnect(c, ok) = b
    BY <1>7 DEF HandleMqttReconnect, b
  <2>2. SlotOK(b) /\ InUse(b)
    BY <1>0, <1>1, <1>3, <1>7 DEF SlotOK, SlotBase, CountsOnSocket, SockOpen, InUse
  <2> QED
    BY <1>3, <2>1, <2>2
<1>8. CASE c.state \in {"AwaitingConnect", "Running"} /\ SockOpen(c)
  <2>1. HandleMqttReconnect(c, ok) = d
    BY <1>8 DEF HandleMqttReconnect, d, b
  <2>2. SlotOK(d) /\ InUse(d)
    BY <1>1, <1>4, <1>8 DEF SlotOK, SlotBase, CountsOnSocket, SockOpen, InUse
  <2> QED
    BY <1>4, <2>1, <2>2
<1>9. CASE c.state \in {"AwaitingConnect", "Running"} /\ ~SockOpen(c)
  <2>1. HandleMqttReconnect(c, ok) = EnableMqttClient(u, ok)
    BY <1>9 DEF HandleMqttReconnect, u
  <2>2. u.state # "SendingConnect" /\ u.is_disconnected
    BY <1>2, <1>9 DEF SlotOK, CountsOnSocket
  <2> QED
    BY <1>2, <1>5, <2>1, <2>2, EnableSound
<1> QED
  BY <1>6, <1>7, <1>8, <1>9 DEF Client, States

LEMMA CloseSound ==
  ASSUME NEW c \in Client, SlotOK(c), InUse(c)
  PROVE  LET h == HandleMqttClose(c)
         IN  h \in Client /\ SlotOK(h) /\ h.is_disconnected = c.is_disconnected
<1> DEFINE b == [c EXCEPT !.is_reconnect = FALSE]
<1> DEFINE d == DisconnectClient(b)
<1>1. /\ b \in Client /\ b.conn_params = c.conn_params /\ b.next_params = c.next_params
      /\ b.state = c.state /\ b.mosq = c.mosq /\ b.is_disconnected = c.is_disconnected
      /\ b.connack = c.connack /\ b.out = c.out
  BY DEF Client
<1> HIDE DEF b
<1>0. ConnectIsFirst(c) /\ ConnectIsFirst(b)
  BY <1>1 DEF SlotOK, SlotBase, ConnectIsFirst
<1>2. SlotOK(b)
  BY <1>0, <1>1 DEF SlotOK, SlotBase, CountsOnSocket, SockOpen, InUse
<1>3. /\ d \in Client /\ d.conn_params = c.conn_params /\ d.next_params = c.next_params
      /\ d.is_disconnected = c.is_disconnected /\ d.mosq = c.mosq
      /\ SockOpen(c) => d.state = "AwaitingDisconnect"
      /\ ~SockOpen(c) => d = b
      /\ ConnectIsFirst(d)
  BY <1>0, <1>1, DisconnectClientFields DEF SockOpen
<1> HIDE DEF d
<1>4. SlotOK(d)
  BY <1>2, <1>3 DEF SlotOK, SlotBase, CountsOnSocket, SockOpen, InUse
<1>5. HandleMqttClose(c) \in {b, CleanMqttClient(c, FALSE), d, c}
  BY DEF HandleMqttClose, b, d
<1> QED
  BY <1>0, <1>1, <1>2, <1>3, <1>4, <1>5, CleanSound

LEMMA HandleDisconnectSound ==
  ASSUME NEW c \in Client, NEW ok \in BOOLEAN, SlotOK(c)
  PROVE  LET h == HandleMqttDisconnect(c, ok)
         IN  h \in Client /\ SlotOK(h) /\ ~h.is_disconnected
<1> DEFINE d == [c EXCEPT !.is_disconnected = FALSE]
<1>1. /\ d \in Client /\ d.conn_params = c.conn_params /\ d.next_params = c.next_params
      /\ d.state = c.state /\ d.mosq = c.mosq /\ d.is_disconnected = FALSE
      /\ d.connack = c.connack /\ d.queue = c.queue /\ d.is_reconnect = c.is_reconnect
      /\ d.schedule_reconnect = c.schedule_reconnect /\ d.schedule_close = c.schedule_close
      /\ d.out = c.out
  BY DEF Client
<1>2. HandleMqttDisconnect(c, ok) =
         CASE d.state \in {"ErrorRetrying", "Idle"} -> d
           [] d.state = "AwaitingDisconnect" -> HandleMqttReconnectAfterDisconnect(d, ok)
           [] OTHER -> HandleMqttError(d, ok)
  BY DEF HandleMqttDisconnect
<1> HIDE DEF d
<1>0. ConnectIsFirst(d)
  BY <1>1 DEF SlotOK, SlotBase, ConnectIsFirst
<1>3. SlotBase(d)
  BY <1>0, <1>1 DEF SlotOK, SlotBase, SockOpen, InUse
<1>4. CASE d.state \in {"ErrorRetrying", "Idle"}
  <2>1. SlotOK(d)
    BY <1>3, <1>4 DEF SlotOK, CountsOnSocket
  <2> QED
    BY <1>1, <1>2, <1>4, <2>1
<1>5. CASE d.state \notin {"ErrorRetrying", "Idle"}
  <2>1. InUse(d)
    BY <1>3, <1>5 DEF SlotBase
  <2>2. CASE d.state = "AwaitingDisconnect"
    BY <1>1, <1>2, <1>3, <1>5, <2>1, <2>2, ReconnectAfterDisconnectSound
  <2>3. CASE d.state # "AwaitingDisconnect"
    BY <1>1, <1>2, <1>3, <1>5, <2>1, <2>3, ErrorSound
  <2> QED
    BY <2>2, <2>3
<1> QED
  BY <1>4, <1>5

LEMMA ScheduledSound ==
  ASSUME NEW c \in Client, NEW ok1 \in BOOLEAN, NEW ok2 \in BOOLEAN,
         SlotOK(c), InUse(c),
         c.state = "SendingConnect" => c.schedule_reconnect = "Off"
  PROVE  LET h == HandleScheduled(c, ok1, ok2)
         IN  h \in Client /\ SlotOK(h) /\ ~h.is_disconnected
<1> DEFINE r == ReconnectIfScheduled(c, ok1)
<1> DEFINE s == CloseIfScheduled(r)
<1>1. r \in Client /\ SlotOK(r) /\ InUse(r)
  BY ReconnectSound DEF ReconnectIfScheduled
<1> HIDE DEF r
<1>2. s \in Client /\ SlotOK(s)
  BY <1>1, CloseSound DEF CloseIfScheduled
<1> HIDE DEF s
<1>3. LET h == DisconnectIfDisconnected(s, ok2)
      IN  h \in Client /\ SlotOK(h) /\ ~h.is_disconnected
  BY <1>2, HandleDisconnectSound DEF DisconnectIfDisconnected
<1> QED
  BY <1>3 DEF HandleScheduled, r, s

LEMMA SocketClosedSound ==
  ASSUME NEW c \in Client, SlotOK(c), SockOpen(c), InUse(c)
  PROVE  LET d == SocketClosed(c)
         IN  /\ d \in Client /\ SlotOK(d) /\ InUse(d)
             /\ d.state # "SendingConnect" /\ d.state = c.state
<1> DEFINE d == SocketClosed(c)
<1>1. <<>> \in Seq(Packet) /\ {} \in SUBSET Packet
  OBVIOUS
<1>2. d \in Client
  BY <1>1 DEF SocketClosed, Client
<1>3. /\ d.conn_params = c.conn_params /\ d.next_params = c.next_params
      /\ d.state = c.state /\ d.mosq = "closed" /\ d.is_disconnected
      /\ d.out = <<>>
  BY DEF SocketClosed, Client
<1>4. c.state # "SendingConnect"
  BY DEF SlotOK, SlotBase, SockOpen
<1> HIDE DEF d
<1>5. ConnectIsFirst(d)
  BY <1>3 DEF ConnectIsFirst
<1>6. SlotOK(d) /\ InUse(d)
  BY <1>3, <1>4, <1>5 DEF SlotOK, SlotBase, CountsOnSocket, SockOpen, InUse
<1> QED
  BY <1>2, <1>3, <1>4, <1>6 DEF d

LEMMA EstablishedSound ==
  ASSUME NEW c \in Client, SlotOK(c), SockOpen(c), InUse(c), c.connack = "accepted"
  PROVE  LET d == Established(c)
         IN  d \in Client /\ SlotOK(d) /\ InUse(d) /\ d.state = "Running"
<1> DEFINE d == Established(c)
<1>1. ResetRetryCount(c) \in Client
  BY DEF ResetRetryCount, Client
<1>2. d \in Client
  BY <1>1 DEF Established, Client, States
<1>3. /\ d.conn_params = c.conn_params /\ d.next_params = c.next_params
      /\ d.state = "Running" /\ d.mosq = c.mosq /\ d.connack = c.connack
      /\ d.out = c.out
  BY DEF Established, ResetRetryCount, Client
<1> HIDE DEF d
<1>0. ConnectIsFirst(d)
  BY <1>3 DEF SlotOK, SlotBase, ConnectIsFirst
<1>4. SlotOK(d) /\ InUse(d)
  BY <1>0, <1>3 DEF SlotOK, SlotBase, CountsOnSocket, SockOpen, InUse
<1> QED
  BY <1>2, <1>3, <1>4 DEF d

LEMMA SubscribeSound ==
  ASSUME NEW c \in Client, SlotOK(c), InUse(c), c.state = "Running", NEW failed \in Nat
  PROVE  LET d == SubscribeToAll(c, failed)
         IN  /\ d \in Client /\ SlotOK(d) /\ InUse(d)
             /\ d.state = "SendingConnect" => d.schedule_reconnect = "Off"
<1> DEFINE h == HandleMqttError(c, TRUE)
<1> DEFINE n == IF c.retry_count + failed < RetryClamp
                THEN c.retry_count + failed ELSE RetryClamp
<1> DEFINE d == [h EXCEPT !.retry_count = n]
<1>1. /\ h \in Client /\ SlotOK(h) /\ InUse(h)
      /\ h.state = "SendingConnect" => h.schedule_reconnect = "Off"
  BY ErrorSound DEF SlotOK
<1>2. n \in Nat
  BY ConstantsAssumption DEF Client
<1>3. SubscribeToAll(c, failed) = IF failed = 0 THEN c ELSE d
  BY DEF SubscribeToAll
<1> HIDE DEF h, n
<1>4. /\ d \in Client /\ d.conn_params = h.conn_params /\ d.next_params = h.next_params
      /\ d.state = h.state /\ d.mosq = h.mosq /\ d.is_disconnected = h.is_disconnected
      /\ d.connack = h.connack /\ d.queue = h.queue /\ d.is_reconnect = h.is_reconnect
      /\ d.schedule_reconnect = h.schedule_reconnect /\ d.schedule_close = h.schedule_close
      /\ d.out = h.out
  BY <1>1, <1>2 DEF Client
<1> HIDE DEF d
<1>0. ConnectIsFirst(d)
  BY <1>1, <1>4 DEF SlotOK, SlotBase, ConnectIsFirst
<1>5. SlotOK(d) /\ InUse(d)
  BY <1>0, <1>1, <1>4 DEF SlotOK, SlotBase, CountsOnSocket, SockOpen, InUse
<1> QED
  BY <1>1, <1>3, <1>4, <1>5

LEMMA ConnectCallbackSound ==
  ASSUME NEW c \in Client, SlotOK(c), SockOpen(c), InUse(c),
         NEW outcome \in ConnackOutcomes, NEW failed \in Nat, NEW ok \in BOOLEAN,
         outcome # "refused" => c.connack = "accepted",
         outcome = "refused" => c.state # "Running"
  PROVE  LET d == ConnectCallback(c, outcome, failed, ok)
         IN  /\ d \in Client /\ SlotOK(d) /\ InUse(d)
             /\ d.state = "SendingConnect" => d.schedule_reconnect = "Off"
<1> DEFINE h == HandleMqttError(c, ok)
<1> DEFINE e == Established(c)
<1> DEFINE Good(d) == /\ d \in Client /\ SlotOK(d) /\ InUse(d)
                      /\ d.state = "SendingConnect" => d.schedule_reconnect = "Off"
<1>1. Good(h)
  BY ErrorSound DEF SlotOK
<1>2. c.state # "SendingConnect"
  BY DEF SlotOK, SlotBase, SockOpen
<1>3. outcome # "refused" => e \in Client /\ SlotOK(e) /\ InUse(e) /\ e.state = "Running"
  BY EstablishedSound
<1> HIDE DEF e
<1>4. outcome # "refused" => Good(HandleMqttError(e, ok)) /\ Good(SubscribeToAll(e, failed))
  BY <1>3, ErrorSound, SubscribeSound DEF SlotOK
<1>5. \/ ConnectCallback(c, outcome, failed, ok) \in {h, c}
      \/ /\ outcome # "refused"
         /\ ConnectCallback(c, outcome, failed, ok) \in
               {HandleMqttError(e, ok), SubscribeToAll(e, failed)}
  BY DEF ConnectCallback, ConnackOutcomes, e
<1> QED
  BY <1>1, <1>2, <1>4, <1>5

LEMMA EnableClientSound ==
  ASSUME NEW c \in Client, NEW version \in Nat \ {INVALID}, NEW enable \in BOOLEAN,
         NEW ok \in BOOLEAN, SlotOK(c)
  PROVE  LET d == MQTT_EnableClient(c, version, enable, ok)
         IN  /\ d \in Client /\ SlotOK(d) /\ d.is_disconnected = c.is_disconnected
             /\ InUse(c) => InUse(d)
             /\ InUse(c) /\ c.state = "SendingConnect" => d = c
<1> DEFINE b == [c EXCEPT !.conn_params = version, !.next_params = version]
<1> DEFINE d == ResetRetryCount(b)
<1>1. /\ d \in Client /\ d.conn_params = version /\ d.next_params = version
      /\ d.state = c.state /\ d.is_disconnected = c.is_disconnected
      /\ d.out = c.out /\ d.connack = c.connack
  BY DEF ResetRetryCount, Client
<1>2. CASE Busy(c)
  <2>1. MQTT_EnableClient(c, version, enable, ok) = c
    BY <1>2 DEF MQTT_EnableClient
  <2> QED
    BY <2>1
<1>3. CASE ~Busy(c)
  <2>1. c.state \in {"Idle", "ErrorRetrying"}
    BY <1>3 DEF Busy, SlotOK, SlotBase
  <2>2. MQTT_EnableClient(c, version, enable, ok) =
           IF enable THEN EnableMqttClient(d, ok) ELSE d
    BY <1>3 DEF MQTT_EnableClient
  <2> HIDE DEF d
  <2>0. ConnectIsFirst(d)
    BY <1>1 DEF SlotOK, SlotBase, ConnectIsFirst
  <2>3. InUse(d) /\ d.next_params # INVALID /\ SlotOK(d)
    BY <1>1, <2>0, <2>1 DEF InUse, SlotOK, SlotBase, CountsOnSocket
  <2> QED
    BY <1>1, <2>1, <2>2, <2>3, EnableSound
<1> QED
  BY <1>2, <1>3

-----------------------------------------------------------------------------
(* The invariant is inductive: one step per action. *)

LEMMA NewOutcomesType == NewOutcomes \subseteq BOOLEAN
  BY DEF NewOutcomes

LEMMA InitInv == Init => IInv
<1> SUFFICES ASSUME Init PROVE IInv
  OBVIOUS
<1>1. client = InitClient /\ client \in Client
  BY InitClientType DEF Init
<1>2. /\ client.conn_params = INVALID /\ client.next_params = INVALID
      /\ client.state = "Idle" /\ client.queue = <<>> /\ ~client.is_reconnect
      /\ client.schedule_reconnect = "Off" /\ client.schedule_close = "Off"
      /\ ~client.is_disconnected /\ client.out = <<>>
  BY <1>1 DEF InitClient
<1>0. ConnectIsFirst(client)
  BY <1>2 DEF ConnectIsFirst
<1>3. SlotOK(client)
  BY <1>0, <1>2 DEF SlotOK, SlotBase, CountsOnSocket, InUse
<1>4. TypeOK
  <2>1. dm_queue \in Seq({"handshake", "record"}) /\ Len(dm_queue) <= DmQueueMax
    BY ConstantsAssumption DEF Init
  <2>2. pc = "update" /\ mtp_exit \in Scheduled /\ dm = "absent" /\ dm_version \in Nat \ {INVALID}
        /\ connect_todo \subseteq Controllers
    BY DEF Init, Scheduled, INVALID
  <2>3. misused \in BOOLEAN
    BY DEF Init
  <2> QED
    BY <1>1, <2>1, <2>2, <2>3 DEF TypeOK
<1> QED
  BY <1>2, <1>3, <1>4 DEF IInv, Looping, Init

(* What the rest of the state needs, once the new slot is known sound. *)
LEMMA MtpStepInv ==
  ASSUME IInv, NEW next, MtpReturns(next), misused' \in BOOLEAN,
         next \in {"update", "process", "connecting", "write", "read", "misc",
                   "handle", "exit_check", "destroy", "exited"},
         client' \in Client, SlotOK(client'),
         client'.is_disconnected => InUse(client') /\ next \in Looping,
         next \in Looping \cup {"connecting"} => InUse(client'),
         next = "connecting" => client'.state = "SendingConnect",
         next \in Looping /\ client'.state = "SendingConnect" =>
            client'.schedule_reconnect = "Off"
  PROVE  IInv'
<1>1. TypeOK'
  BY DEF IInv, TypeOK, MtpReturns, dmVars
<1> QED
  BY <1>1 DEF IInv, MtpReturns

(* A step of the DM thread on the slot. *)
LEMMA DmStepInv ==
  ASSUME IInv, MutexFree, UNCHANGED <<pc, misused>>, TypeOK',
         SlotOK(client'), client'.is_disconnected = client.is_disconnected,
         InUse(client) => InUse(client'),
         InUse(client) /\ client.state = "SendingConnect" => client'.state = "SendingConnect"
  PROVE  IInv'
  BY DEF IInv, MutexFree, Looping

LEMMA MtpThreadInv == IInv /\ MtpThread => IInv'
<1> SUFFICES ASSUME IInv, MtpThread PROVE IInv'
  OBVIOUS
<1>0. /\ client \in Client /\ SlotOK(client) /\ misused \in BOOLEAN
      /\ pc \in Looping => InUse(client)
  BY DEF IInv, TypeOK
<1>1. CASE UpdateSend
  <2> DEFINE mid == CHOOSE m \in FreeMids(client) : TRUE
  <2> DEFINE q == PublishHead(client, mid)
  <2>1. MtpReturns("process") /\ misused' \in BOOLEAN /\ InUse(client)
        /\ client.state = "Running" /\ client.queue # <<>> /\ ~client.is_disconnected
    BY <1>0, <1>1 DEF UpdateSend, IInv, Looping
  <2>2. CASE CanPublish(client)
    <3>1. mid \in Nat
      BY <2>2, ConstantsAssumption DEF CanPublish, FreeMids
    <3> HIDE DEF mid
    <3>2. client.queue \in Seq(Records) /\ client.out \in Seq(Packet)
      BY <1>0 DEF Client
    <3>3. Head(client.queue) \in Records /\ Tail(client.queue) \in Seq(Records)
      BY <2>1, <3>2
    <3>4. [type |-> "PUBLISH", mid |-> mid, rec |-> Head(client.queue)] \in Packet
      BY <3>1, <3>3 DEF Packet
    <3>5. (IF Head(client.queue) \in DisconnectRecords THEN mid ELSE INVALID_MOSQUITTO_MID) \in Nat
      BY <3>1 DEF INVALID_MOSQUITTO_MID
    <3>6. Append(client.out, [type |-> "PUBLISH", mid |-> mid, rec |-> Head(client.queue)])
             \in Seq(Packet)
      BY <3>2, <3>4
    <3>7. q \in Client
      BY <1>0, <3>3, <3>5, <3>6 DEF PublishHead, Client
    <3>8. /\ q.conn_params = client.conn_params /\ q.next_params = client.next_params
          /\ q.state = client.state /\ q.mosq = client.mosq /\ q.connack = client.connack
          /\ q.is_disconnected = client.is_disconnected
          /\ q.out = Append(client.out, [type |-> "PUBLISH", mid |-> mid,
                                         rec |-> Head(client.queue)])
      BY <1>0 DEF PublishHead, Client
    <3>9. client' = q
      BY <1>1, <2>2 DEF UpdateSend, mid
    <3> HIDE DEF q
    <3>11. ConnectIsFirst(q)
      BY <1>0, <3>2, <3>8 DEF SlotOK, SlotBase, ConnectIsFirst
    <3>10. SlotOK(q)
      BY <1>0, <2>1, <3>8, <3>11 DEF SlotOK, SlotBase, CountsOnSocket, SockOpen, InUse
    <3> QED
      BY <2>1, <3>7, <3>8, <3>9, <3>10, MtpStepInv DEF Looping
  <2>3. CASE ~CanPublish(client)
    <3>1. client' = client
      BY <1>1, <2>3 DEF UpdateSend
    <3> QED
      BY <1>0, <2>1, <3>1, MtpStepInv DEF Looping
  <2> QED
    BY <2>2, <2>3
<1>2. CASE UpdateNothing \/ ProcessUnused \/ ProcessConnected \/ ConnectStarts
  <2>1. client' = client /\ misused' \in BOOLEAN /\ ~client.is_disconnected
    BY <1>0, <1>2 DEF UpdateNothing, ProcessUnused, ProcessConnected, ConnectStarts,
                      IInv, Looping
  <2>2. CASE UpdateNothing
    BY <1>0, <2>1, <2>2, MtpStepInv DEF UpdateNothing, Looping
  <2>3. CASE ProcessUnused
    BY <1>0, <2>1, <2>3, MtpStepInv DEF ProcessUnused, Looping
  <2>4. CASE ProcessConnected
    BY <1>0, <2>1, <2>4, MtpStepInv DEF ProcessConnected, Looping
  <2>5. CASE ConnectStarts
    BY <1>0, <2>1, <2>5, MtpStepInv DEF ConnectStarts, Looping
  <2> QED
    BY <1>2, <2>2, <2>3, <2>4, <2>5
<1>3. ASSUME NEW b \in BOOLEAN, ConnectSetupFails(b) PROVE IInv'
  <2> DEFINE h == HandleMqttError(client, TRUE)
  <2>1. MtpReturns("misc") /\ misused' \in BOOLEAN /\ InUse(client)
        /\ client' = IF b THEN HandleMqttError(h, TRUE) ELSE h
    BY <1>0, <1>3 DEF ConnectSetupFails
  <2>2. /\ h \in Client /\ SlotOK(h) /\ InUse(h)
        /\ h.state = "SendingConnect" => h.schedule_reconnect = "Off"
    BY <1>0, <2>1, ErrorSound DEF SlotOK
  <2> HIDE DEF h
  <2>3. /\ client' \in Client /\ SlotOK(client') /\ InUse(client')
        /\ client'.state = "SendingConnect" => client'.schedule_reconnect = "Off"
    BY <2>1, <2>2, ErrorSound DEF SlotOK
  <2> QED
    BY <2>1, <2>3, MtpStepInv DEF Looping
<1>4. ASSUME NEW b \in BOOLEAN, ConnectReturns(b) PROVE IInv'
  <2> DEFINE o == [client EXCEPT !.mosq = "open", !.out = <<CONNECT>>,
                                 !.state = "AwaitingConnect"]
  <2>1. MtpReturns("misc") /\ misused' \in BOOLEAN /\ InUse(client)
        /\ client' = IF b THEN o ELSE HandleMqttError(client, TRUE)
    BY <1>0, <1>4 DEF ConnectReturns, IInv
  <2>2. <<CONNECT>> \in Seq(Packet)
    BY DisconnectPacket
  <2>3. o \in Client
    BY <1>0, <2>2 DEF Client, States
  <2>4. /\ o.conn_params = client.conn_params /\ o.next_params = client.next_params
        /\ o.state = "AwaitingConnect" /\ o.mosq = "open"
        /\ o.out = <<CONNECT>> /\ o.connack = client.connack
    BY <1>0 DEF Client
  <2> HIDE DEF o
  <2>7. client.connack = "none"
    BY <1>4 DEF ConnectReturns, IInv, SlotOK, SlotBase
  <2>8. ConnectIsFirst(o)
    BY <2>4, <2>7 DEF ConnectIsFirst
  <2>5. SlotOK(o) /\ InUse(o)
    BY <1>0, <2>1, <2>4, <2>8 DEF SlotOK, SlotBase, CountsOnSocket, SockOpen, InUse
  <2>6. /\ client' \in Client /\ SlotOK(client') /\ InUse(client')
        /\ client'.state = "SendingConnect" => client'.schedule_reconnect = "Off"
    BY <1>0, <2>1, <2>3, <2>4, <2>5, ErrorSound DEF SlotOK
  <2> QED
    BY <2>1, <2>6, MtpStepInv DEF Looping
<1>5. CASE WriteConnect
  <2> DEFINE d == [Written(client) EXCEPT !.connack = "awaited"]
  <2>1. /\ MtpReturns("write") /\ misused' \in BOOLEAN /\ InUse(client) /\ client' = d
        /\ SockOpen(client) /\ client.out # <<>> /\ Head(client.out).type = "CONNECT"
    BY <1>0, <1>5 DEF WriteConnect, Writing, Looping
  <2>2. client.out \in Seq(Packet)
    BY <1>0 DEF Client
  <2>3. Tail(client.out) \in Seq(Packet)
    BY <2>1, <2>2
  <2>4. /\ d \in Client /\ d.conn_params = client.conn_params
        /\ d.next_params = client.next_params /\ d.state = client.state
        /\ d.mosq = client.mosq /\ d.is_disconnected = client.is_disconnected
        /\ d.out = Tail(client.out)
    BY <1>0, <2>3 DEF Written, Client
  <2> HIDE DEF d
  <2>5. client.connack = "none"
    BY <1>0, <2>1, <2>2 DEF SlotOK, SlotBase, ConnectIsFirst
  <2>6. client.state # "Running" /\ client.state # "SendingConnect"
    BY <1>0, <2>1, <2>5 DEF SlotOK, SlotBase, SockOpen
  <2>7. ConnectIsFirst(d)
    BY <1>0, <2>1, <2>2, <2>4 DEF SlotOK, SlotBase, ConnectIsFirst
  <2>8. SlotOK(d) /\ InUse(d)
    BY <1>0, <2>1, <2>4, <2>6, <2>7 DEF SlotOK, SlotBase, CountsOnSocket, SockOpen, InUse
  <2> QED
    BY <2>1, <2>4, <2>6, <2>8, MtpStepInv DEF Looping
<1>6. ASSUME NEW qos \in PublishQos, NEW ok \in NewOutcomes, WritePublish(qos, ok)
      PROVE  IInv'
  <2> DEFINE p == Head(client.out)
  <2> DEFINE w == Written(client)
  <2> DEFINE a == [w EXCEPT !.unacked = client.unacked \cup {p}]
  <2>1. /\ MtpReturns("write") /\ misused' \in BOOLEAN /\ InUse(client)
        /\ SockOpen(client) /\ client.out # <<>>
        /\ client' \in {PublishCallback(w, p.mid, ok), a}
    BY <1>0, <1>6 DEF WritePublish, Writing, Looping
  <2>2. client.out \in Seq(Packet) /\ client.unacked \in SUBSET Packet
    BY <1>0 DEF Client
  <2>3. Tail(client.out) \in Seq(Packet) /\ p \in Packet
    BY <2>1, <2>2
  <2>4. /\ w \in Client /\ w.conn_params = client.conn_params
        /\ w.next_params = client.next_params /\ w.state = client.state
        /\ w.mosq = client.mosq /\ w.is_disconnected = client.is_disconnected
        /\ w.out = Tail(client.out) /\ w.connack = client.connack
        /\ w.schedule_reconnect = client.schedule_reconnect
    BY <1>0, <2>3 DEF Written, Client
  <2> HIDE DEF p, w
  <2>5. client.unacked \cup {p} \in SUBSET Packet
    BY <2>2, <2>3
  <2>6. /\ a \in Client /\ a.conn_params = client.conn_params
        /\ a.next_params = client.next_params /\ a.state = client.state
        /\ a.mosq = client.mosq /\ a.is_disconnected = client.is_disconnected
        /\ a.out = Tail(client.out) /\ a.connack = client.connack
        /\ a.schedule_reconnect = client.schedule_reconnect
    BY <2>4, <2>5 DEF Client
  <2> HIDE DEF a
  <2>7. ConnectIsFirst(w) /\ ConnectIsFirst(a)
    BY <1>0, <2>1, <2>2, <2>4, <2>6 DEF SlotOK, SlotBase, ConnectIsFirst
  <2>8. SlotOK(w) /\ InUse(w) /\ SlotOK(a) /\ InUse(a)
    BY <1>0, <2>1, <2>4, <2>6, <2>7 DEF SlotOK, SlotBase, CountsOnSocket, SockOpen, InUse
  <2>9. client.state # "SendingConnect"
    BY <1>0, <2>1 DEF SlotOK, SlotBase, SockOpen
  <2>10. /\ client' \in Client /\ SlotOK(client') /\ InUse(client')
         /\ client'.state = "SendingConnect" => client'.schedule_reconnect = "Off"
    BY <2>1, <2>4, <2>6, <2>8, <2>9, NewOutcomesType, ErrorSound DEF PublishCallback, SlotOK
  <2> QED
    BY <2>1, <2>10, MtpStepInv DEF Looping
<1>7. CASE WriteDisconnect \/ ConnectionLost \/ KeepaliveTimeout
  <2>1. /\ misused' \in BOOLEAN /\ InUse(client) /\ SockOpen(client)
        /\ client' = SocketClosed(client)
        /\ \E next \in Looping : MtpReturns(next)
    BY <1>0, <1>7 DEF WriteDisconnect, Writing, ConnectionLost, KeepaliveTimeout, Looping
  <2>2. /\ client' \in Client /\ SlotOK(client') /\ InUse(client')
        /\ client'.state # "SendingConnect"
    BY <1>0, <2>1, SocketClosedSound
  <2>3. PICK next \in Looping : MtpReturns(next)
    BY <2>1
  <2> QED
    BY <2>1, <2>2, <2>3, MtpStepInv DEF Looping
<1>8. ASSUME NEW p \in client.unacked, NEW ok \in NewOutcomes, ReadPuback(p, ok)
      PROVE  IInv'
  <2> DEFINE w == [client EXCEPT !.unacked = client.unacked \ {p}]
  <2>1. /\ MtpReturns("read") /\ misused' \in BOOLEAN /\ InUse(client) /\ SockOpen(client)
        /\ client' = PublishCallback(w, p.mid, ok)
    BY <1>0, <1>8 DEF ReadPuback, Looping
  <2>2. client.unacked \ {p} \in SUBSET Packet
    BY <1>0 DEF Client
  <2>3. /\ w \in Client /\ w.conn_params = client.conn_params
        /\ w.next_params = client.next_params /\ w.state = client.state
        /\ w.mosq = client.mosq /\ w.is_disconnected = client.is_disconnected
        /\ w.out = client.out /\ w.connack = client.connack
    BY <1>0, <2>2 DEF Client
  <2> HIDE DEF w
  <2>4. ConnectIsFirst(w)
    BY <1>0, <2>3 DEF SlotOK, SlotBase, ConnectIsFirst
  <2>5. SlotOK(w) /\ InUse(w) /\ w.state # "SendingConnect"
    BY <1>0, <2>1, <2>3, <2>4 DEF SlotOK, SlotBase, CountsOnSocket, SockOpen, InUse
  <2>6. /\ client' \in Client /\ SlotOK(client') /\ InUse(client')
        /\ client'.state = "SendingConnect" => client'.schedule_reconnect = "Off"
    BY <2>1, <2>3, <2>5, NewOutcomesType, ErrorSound DEF PublishCallback, SlotOK
  <2> QED
    BY <2>1, <2>6, MtpStepInv DEF Looping
<1>9. ASSUME NEW outcome \in ConnackOutcomes, NEW failed \in 0..MaxFailedSubs,
             NEW ok \in NewOutcomes, ReadConnack(outcome, failed, ok)
      PROVE  IInv'
  <2> DEFINE c == [client EXCEPT !.connack = IF outcome = "refused" THEN "none" ELSE "accepted"]
  <2> DEFINE d == ConnectCallback(c, outcome, failed, ok)
  <2>1. /\ pc' = pc /\ pc = "read" /\ InUse(client) /\ SockOpen(client)
        /\ client.connack = "awaited"
        /\ client' = IF outcome = "refused" /\ SockOpen(d) THEN SocketClosed(d) ELSE d
        /\ misused' \in BOOLEAN /\ UNCHANGED <<mtp_exit, dm, dm_version, connect_todo>>
    BY <1>0, <1>9 DEF ReadConnack, Looping, dmVars
  <2>2. dm_queue' \in Seq({"handshake", "record"}) /\ Len(dm_queue') <= DmQueueMax
    <3>1. dm_queue' = dm_queue \/ (Len(dm_queue) < DmQueueMax /\ dm_queue' = Append(dm_queue, "handshake"))
      BY <1>9 DEF ReadConnack, PostToDm
    <3>2. dm_queue \in Seq({"handshake", "record"}) /\ Len(dm_queue) <= DmQueueMax
      BY DEF IInv, TypeOK
    <3> QED
      BY <3>1, <3>2, ConstantsAssumption
  <2>3. /\ c \in Client /\ c.conn_params = client.conn_params
        /\ c.next_params = client.next_params /\ c.state = client.state
        /\ c.mosq = client.mosq /\ c.is_disconnected = client.is_disconnected
        /\ c.out = client.out
        /\ c.connack = IF outcome = "refused" THEN "none" ELSE "accepted"
    BY <1>0 DEF Client
  <2> HIDE DEF c
  <2>4. client.state # "SendingConnect" /\ client.state # "Running"
    BY <1>0, <2>1 DEF SlotOK, SlotBase, SockOpen
  <2>5. ConnectIsFirst(c)
    BY <1>0, <2>1, <2>3 DEF SlotOK, SlotBase, ConnectIsFirst
  <2>6. SlotOK(c) /\ InUse(c) /\ SockOpen(c)
    BY <1>0, <2>1, <2>3, <2>4, <2>5 DEF SlotOK, SlotBase, CountsOnSocket, SockOpen, InUse
  <2>7. failed \in Nat /\ ok \in BOOLEAN
    BY ConstantsAssumption, NewOutcomesType
  <2>8. /\ d \in Client /\ SlotOK(d) /\ InUse(d)
        /\ d.state = "SendingConnect" => d.schedule_reconnect = "Off"
    BY <2>3, <2>4, <2>6, <2>7, ConnectCallbackSound
  <2> HIDE DEF d
  <2>9. /\ client' \in Client /\ SlotOK(client') /\ InUse(client')
        /\ client'.state = "SendingConnect" => client'.schedule_reconnect = "Off"
    BY <2>1, <2>8, SocketClosedSound
  <2>10. TypeOK'
    BY <2>1, <2>2, <2>9 DEF IInv, TypeOK
  <2> QED
    BY <2>1, <2>9, <2>10 DEF IInv, Looping
<1>10. CASE ReadMessage
  <2>1. /\ UNCHANGED <<pc, client, mtp_exit, dm, dm_version, connect_todo, misused>>
        /\ dm_queue' = dm_queue \/ (Len(dm_queue) < DmQueueMax /\ dm_queue' = Append(dm_queue, "record"))
    BY <1>10 DEF ReadMessage, PostToDm, dmVars
  <2>2. dm_queue \in Seq({"handshake", "record"}) /\ Len(dm_queue) <= DmQueueMax
    BY DEF IInv, TypeOK
  <2>3. dm_queue' \in Seq({"handshake", "record"}) /\ Len(dm_queue') <= DmQueueMax
    BY <2>1, <2>2, ConstantsAssumption
  <2> QED
    BY <2>1, <2>3 DEF IInv, TypeOK
<1>11. CASE LoopReturns
  <2>1. /\ UNCHANGED <<client, mtp_exit, dm, dm_version, dm_queue, connect_todo, misused>>
        /\ pc \in Looping /\ pc' \in Looping
    BY <1>11 DEF LoopReturns, Looping, dmVars
  <2> QED
    BY <2>1 DEF IInv, TypeOK, Looping
<1>12. ASSUME NEW ok \in NewOutcomes, UpdateRetry(ok) PROVE IInv'
  <2> DEFINE r == ReconnectNow(client)
  <2>1. /\ MtpReturns("process") /\ misused' \in BOOLEAN /\ InUse(client)
        /\ client.state = "ErrorRetrying" /\ ~client.is_disconnected
        /\ client' = RetryConnection(r, ok)
    BY <1>0, <1>12 DEF UpdateRetry, IInv, Looping
  <2>2. client.next_params # INVALID
    BY <1>0, <2>1 DEF SlotOK, SlotBase
  <2>3. /\ r \in Client /\ r.state = "ErrorRetrying" /\ r.next_params = client.next_params
        /\ r.conn_params \in {client.conn_params, client.next_params}
        /\ r.is_disconnected = client.is_disconnected /\ r.out = client.out
        /\ r.connack = client.connack
    BY <1>0, <2>1 DEF ReconnectNow, ResetRetryCount, UseNextParams, Client
  <2> HIDE DEF r
  <2>4. ConnectIsFirst(r)
    BY <1>0, <2>3 DEF SlotOK, SlotBase, ConnectIsFirst
  <2>5. SlotOK(r) /\ InUse(r) /\ r.next_params # INVALID
    BY <2>1, <2>2, <2>3, <2>4 DEF SlotOK, SlotBase, CountsOnSocket, InUse
  <2>6. RetryConnection(r, ok) \in {HandleMqttError(r, ok), EnableMqttClient(r, ok), r}
    BY <2>3 DEF RetryConnection, Client
  <2>7. /\ client' \in Client /\ SlotOK(client') /\ ~client'.is_disconnected
    BY <2>1, <2>3, <2>5, <2>6, ErrorSound, EnableSound, NewOutcomesType DEF SlotOK
  <2> QED
    BY <2>1, <2>7, MtpStepInv DEF Looping
<1>13. ASSUME NEW ok1 \in NewOutcomes, NEW ok2 \in NewOutcomes, ProcessScheduled(ok1, ok2)
       PROVE  IInv'
  <2>1. /\ MtpReturns("exit_check") /\ misused' \in BOOLEAN /\ InUse(client)
        /\ client.state = "SendingConnect" => client.schedule_reconnect = "Off"
        /\ client' = HandleScheduled(client, ok1, ok2)
    BY <1>0, <1>13 DEF ProcessScheduled, IInv, Looping
  <2>2. client' \in Client /\ SlotOK(client') /\ ~client'.is_disconnected
    BY <1>0, <2>1, ScheduledSound, NewOutcomesType
  <2> QED
    BY <2>1, <2>2, MtpStepInv DEF Looping
<1>14. CASE ExitCheck
  <2>1. /\ UNCHANGED <<client, misused>> /\ ~client.is_disconnected
        /\ MtpReturns("destroy") \/ MtpReturns("update")
    BY <1>14 DEF ExitCheck, IInv, Looping
  <2> QED
    BY <1>0, <2>1, MtpStepInv DEF Looping
<1>15. CASE Destroy
  <2>1. MtpReturns("exited") /\ misused' \in BOOLEAN /\ client' = InitClient
    BY <1>0, <1>15 DEF Destroy
  <2>2. /\ client'.conn_params = INVALID /\ client'.next_params = INVALID
        /\ client'.state = "Idle" /\ client'.queue = <<>> /\ ~client'.is_reconnect
        /\ client'.schedule_reconnect = "Off" /\ client'.schedule_close = "Off"
        /\ ~client'.is_disconnected /\ client'.out = <<>>
    BY <2>1 DEF InitClient
  <2>3. ConnectIsFirst(client')
    BY <2>2 DEF ConnectIsFirst
  <2>4. SlotOK(client')
    BY <2>2, <2>3 DEF SlotOK, SlotBase, CountsOnSocket, InUse
  <2> QED
    BY <2>1, <2>2, <2>4, InitClientType, MtpStepInv DEF Looping
<1> QED
  BY <1>1, <1>2, <1>3, <1>4, <1>5, <1>6, <1>7, <1>8, <1>9, <1>10, <1>11, <1>12, <1>13,
     <1>14, <1>15 DEF MtpThread

LEMMA DmThreadInv == IInv /\ DmThread => IInv'
<1> SUFFICES ASSUME IInv, DmThread PROVE IInv'
  OBVIOUS
<1>0. /\ client \in Client /\ SlotOK(client) /\ TypeOK /\ ConnectIsFirst(client)
  BY DEF IInv, TypeOK, SlotOK, SlotBase
<1>1. ASSUME NEW enable \in BOOLEAN, NEW ok \in NewOutcomes,
             ClientAdded(enable, ok) \/ EnableSet(ok)
      PROVE  IInv'
  <2>1. /\ MutexFree /\ UNCHANGED <<pc, misused, mtp_exit, dm_version, dm_queue, connect_todo>>
        /\ dm' \in {"absent", "disabled", "enabled"}
        /\ \E e \in BOOLEAN : client' = MQTT_EnableClient(client, dm_version, e, ok)
    BY <1>1 DEF ClientAdded, EnableSet, DmCalls, DmCallsOnly
  <2>2. PICK e \in BOOLEAN : client' = MQTT_EnableClient(client, dm_version, e, ok)
    BY <2>1
  <2>3. /\ client' \in Client /\ SlotOK(client')
        /\ client'.is_disconnected = client.is_disconnected
        /\ InUse(client) => InUse(client')
        /\ InUse(client) /\ client.state = "SendingConnect" => client' = client
    <3>1. client \in Client /\ SlotOK(client) /\ dm_version \in Nat \ {INVALID} /\ ok \in BOOLEAN
      BY <1>0, NewOutcomesType DEF TypeOK
    <3> DEFINE d == MQTT_EnableClient(client, dm_version, e, ok)
    <3>2. /\ d \in Client /\ SlotOK(d) /\ d.is_disconnected = client.is_disconnected
          /\ InUse(client) => InUse(d)
          /\ InUse(client) /\ client.state = "SendingConnect" => d = client
      BY <3>1, EnableClientSound
    <3>3. client' = d
      BY <2>2
    <3> HIDE DEF d
    <3> QED
      BY <3>2, <3>3
  <2>4. TypeOK'
    BY <1>0, <2>1, <2>3 DEF TypeOK
  <2> QED
    BY <2>1, <2>3, <2>4, DmStepInv
<1>2. CASE EnableCleared \/ ClientDeleted
  <2> DEFINE d == [client EXCEPT !.schedule_close = "Signalled"]
  <2>1. /\ MutexFree /\ UNCHANGED <<pc, misused, mtp_exit, dm_version, dm_queue, connect_todo>>
        /\ dm' \in {"absent", "disabled", "enabled"}
        /\ client' = IF InUse(client) THEN d ELSE client
    BY <1>2 DEF EnableCleared, ClientDeleted, DmCalls, DmCallsOnly, MQTT_DisableClient
  <2>2. /\ d \in Client /\ d.conn_params = client.conn_params
        /\ d.next_params = client.next_params /\ d.state = client.state
        /\ d.mosq = client.mosq /\ d.is_disconnected = client.is_disconnected
        /\ d.out = client.out /\ d.connack = client.connack
    BY <1>0 DEF Client, Scheduled
  <2> HIDE DEF d
  <2>3. ConnectIsFirst(d)
    BY <1>0, <2>2 DEF ConnectIsFirst
  <2>4. InUse(client) => SlotOK(d) /\ InUse(d)
    BY <1>0, <2>2, <2>3 DEF SlotOK, SlotBase, CountsOnSocket, SockOpen, InUse
  <2>5. TypeOK'
    BY <1>0, <2>1, <2>2 DEF TypeOK
  <2> QED
    BY <1>0, <2>1, <2>2, <2>4, <2>5, DmStepInv
<1>3. CASE ParameterSet
  <2> DEFINE d == [client EXCEPT !.next_params = dm_version + 1,
                                 !.schedule_reconnect = "Signalled"]
  <2>1. /\ MutexFree /\ UNCHANGED <<pc, misused, mtp_exit, dm, dm_queue, connect_todo>>
        /\ dm_version' = dm_version + 1
        /\ client' \in {client, d} /\ (client' = d => InUse(client) \/ client = d)
    BY <1>3 DEF ParameterSet, DmCalls, DmCallsOnly, MQTT_ScheduleReconnect
  <2>2. dm_version + 1 \in Nat \ {INVALID}
    BY <1>0 DEF TypeOK, INVALID
  <2>3. /\ d \in Client /\ d.conn_params = client.conn_params
        /\ d.next_params # INVALID /\ d.state = client.state
        /\ d.mosq = client.mosq /\ d.is_disconnected = client.is_disconnected
        /\ d.out = client.out /\ d.connack = client.connack
    BY <1>0, <2>2 DEF Client, Scheduled
  <2> HIDE DEF d
  <2>4. ConnectIsFirst(d)
    BY <1>0, <2>3 DEF ConnectIsFirst
  <2>5. InUse(client) => SlotOK(d) /\ InUse(d)
    BY <1>0, <2>3, <2>4 DEF SlotOK, SlotBase, CountsOnSocket, SockOpen, InUse
  <2>6. TypeOK'
    BY <1>0, <2>1, <2>2, <2>3 DEF TypeOK
  <2>7. CASE client' = client
    BY <1>0, <2>1, <2>6, <2>7, DmStepInv
  <2>8. CASE client' = d /\ InUse(client)
    BY <2>1, <2>3, <2>5, <2>6, <2>8, DmStepInv
  <2> QED
    BY <2>1, <2>7, <2>8
<1>4. CASE ScheduleExit
  <2>1. /\ MutexFree /\ UNCHANGED <<pc, misused, client, dm, dm_version, dm_queue, connect_todo>>
        /\ mtp_exit' \in Scheduled
    BY <1>4 DEF ScheduleExit, DmCalls, DmCallsOnly, dmVars, Scheduled
  <2>2. TypeOK'
    BY <1>0, <2>1 DEF TypeOK
  <2> QED
    BY <1>0, <2>1, <2>2, DmStepInv
<1>5. CASE ActivateScheduledActions
  <2> DEFINE d == [client EXCEPT !.schedule_reconnect = Activate(client.schedule_reconnect),
                                 !.schedule_close = Activate(client.schedule_close)]
  <2>1. /\ MutexFree /\ UNCHANGED <<pc, misused, dm, dm_version, dm_queue, connect_todo>>
        /\ mtp_exit' = Activate(mtp_exit) /\ client' = d
    BY <1>5 DEF ActivateScheduledActions, DmCalls, DmCallsOnly, dmVars
  <2>2. \A s \in Scheduled : Activate(s) \in Scheduled /\ (s = "Off" => Activate(s) = "Off")
    BY DEF Activate, Scheduled
  <2>3. client.schedule_reconnect \in Scheduled /\ client.schedule_close \in Scheduled
    BY <1>0 DEF Client
  <2>4. /\ Activate(client.schedule_reconnect) \in Scheduled
        /\ Activate(client.schedule_close) \in Scheduled
    BY <2>2, <2>3
  <2>5. /\ d \in Client /\ d.conn_params = client.conn_params
        /\ d.next_params = client.next_params /\ d.state = client.state
        /\ d.mosq = client.mosq /\ d.is_disconnected = client.is_disconnected
        /\ d.out = client.out /\ d.connack = client.connack
        /\ d.queue = client.queue /\ d.is_reconnect = client.is_reconnect
        /\ d.schedule_reconnect = Activate(client.schedule_reconnect)
        /\ d.schedule_close = Activate(client.schedule_close)
    BY <1>0, <2>4 DEF Client
  <2> HIDE DEF d
  <2>6. ConnectIsFirst(d)
    BY <1>0, <2>5 DEF ConnectIsFirst
  <2>7. SlotOK(d)
    BY <1>0, <2>2, <2>3, <2>5, <2>6 DEF SlotOK, SlotBase, CountsOnSocket, SockOpen, InUse
  <2>8. TypeOK'
    BY <1>0, <2>1, <2>2, <2>5 DEF TypeOK
  <2> QED
    BY <2>1, <2>5, <2>7, <2>8, DmStepInv DEF InUse
<1>6. ASSUME NEW q \in Seq(Records),
             /\ MutexFree /\ UNCHANGED <<pc, misused, mtp_exit, dm, dm_version>>
             /\ client' \in {client, [client EXCEPT !.queue = q]}
             /\ client' = client \/ InUse(client)
             /\ dm_queue' \in {dm_queue, Tail(dm_queue)} /\ (dm_queue' = dm_queue \/ dm_queue # <<>>)
             /\ connect_todo' \subseteq Controllers
      PROVE  IInv'
  <2> DEFINE d == [client EXCEPT !.queue = q]
  <2>1. /\ d \in Client /\ d.conn_params = client.conn_params
        /\ d.next_params = client.next_params /\ d.state = client.state
        /\ d.mosq = client.mosq /\ d.is_disconnected = client.is_disconnected
        /\ d.out = client.out /\ d.connack = client.connack
    BY <1>0 DEF Client
  <2>2. client' \in {client, d}
    BY <1>6
  <2> HIDE DEF d
  <2>3. ConnectIsFirst(d)
    BY <1>0, <2>1 DEF ConnectIsFirst
  <2>4. InUse(client) => SlotOK(d) /\ InUse(d)
    BY <1>0, <2>1, <2>3 DEF SlotOK, SlotBase, CountsOnSocket, SockOpen, InUse
  <2>5. dm_queue' \in Seq({"handshake", "record"}) /\ Len(dm_queue') <= DmQueueMax
    <3>1. dm_queue \in Seq({"handshake", "record"}) /\ Len(dm_queue) <= DmQueueMax /\ DmQueueMax \in Nat
      BY <1>0, ConstantsAssumption DEF TypeOK
    <3>2. CASE dm_queue' = dm_queue
      BY <3>1, <3>2
    <3>3. CASE dm_queue' = Tail(dm_queue) /\ dm_queue # <<>>
      <4>1. Tail(dm_queue) \in Seq({"handshake", "record"}) /\ Len(Tail(dm_queue)) = Len(dm_queue) - 1
        BY <3>1, <3>3
      <4> QED
        BY <3>1, <3>3, <4>1
    <3> QED
      BY <1>6, <3>2, <3>3
  <2>6. TypeOK'
    BY <1>0, <1>6, <2>1, <2>2, <2>5 DEF TypeOK
  <2>7. CASE client' = client
    BY <1>0, <1>6, <2>6, <2>7, DmStepInv
  <2>8. CASE client' = d /\ InUse(client)
    BY <1>6, <2>1, <2>4, <2>6, <2>8, DmStepInv
  <2> QED
    BY <1>6, <2>2, <2>7, <2>8
<1>7. client.queue \in Seq(Records) /\ connect_todo \subseteq Controllers
  BY <1>0 DEF Client, TypeOK
<1>8. ASSUME NEW r \in Records PROVE Append(client.queue, r) \in Seq(Records)
  BY <1>7
<1>9. ASSUME NEW r \in Responses, QueueResponse(r) PROVE IInv'
  <2>1. r \in Records /\ Append(client.queue, r) \in Seq(Records)
    BY <1>8 DEF Records
  <2> QED
    BY <1>6, <1>7, <1>9, <2>1 DEF QueueResponse, QueueRecord, DmCalls, DmCallsOnly, dmVars
<1>10. CASE RecordAccepted \/ HandshakeComplete
  BY <1>6, <1>7, <1>10 DEF RecordAccepted, HandshakeComplete, DmReceives, DmCalls, DmCallsOnly
<1>11. ASSUME NEW r \in DisconnectRecords, RecordRefused(r) PROVE IInv'
  <2>1. r \in Records /\ Append(client.queue, r) \in Seq(Records)
    BY <1>8 DEF Records
  <2> QED
    BY <1>6, <1>7, <1>11, <2>1 DEF RecordRefused, QueueRecord, DmReceives, DmCalls, DmCallsOnly
<1>12. ASSUME NEW k \in Controllers, QueueConnectRecord(k) PROVE IInv'
  <2>1. CASE ~InUse(client)
    BY <1>6, <1>7, <1>12, <2>1 DEF QueueConnectRecord, DmCallsOnly
  <2>2. CASE InUse(client)
    <3>1. client.queue \in Seq(Entries)
      BY <1>7 DEF Entries
    <3>2. ResponsesIn(client.queue) \in Seq(Records)
      BY <3>1, ResponsesInType DEF Records
    <3>3. ConnectRecord(k) \in Records
      BY DEF Records, ConnectRecords
    <3>4. <<ConnectRecord(k)>> \o ResponsesIn(client.queue) \in Seq(Records)
      BY <3>2, <3>3
    <3> QED
      BY <1>6, <1>7, <1>12, <2>2, <3>4 DEF QueueConnectRecord, DmCallsOnly
  <2> QED
    BY <2>1, <2>2
<1> QED
  BY <1>1, <1>2, <1>3, <1>4, <1>5, <1>9, <1>10, <1>11, <1>12 DEF DmThread

LEMMA StepInv == IInv /\ [Next]_vars => IInv'
<1> SUFFICES ASSUME IInv, [Next]_vars PROVE IInv'
  OBVIOUS
<1>1. CASE MtpThread
  BY <1>1, MtpThreadInv
<1>2. CASE DmThread
  BY <1>2, DmThreadInv
<1>3. CASE RetryTimeReached
  <2> DEFINE d == [client EXCEPT !.retry_time = "due"]
  <2>1. /\ UNCHANGED <<pc, mtp_exit, dm, dm_version, connect_todo, dm_queue, misused>>
        /\ client' = d
    BY <1>3 DEF RetryTimeReached, dmVars
  <2>2. client \in Client
    BY DEF IInv, TypeOK
  <2>3. /\ d \in Client /\ d.conn_params = client.conn_params
        /\ d.next_params = client.next_params /\ d.state = client.state
        /\ d.mosq = client.mosq /\ d.is_disconnected = client.is_disconnected
        /\ d.out = client.out /\ d.connack = client.connack
        /\ d.queue = client.queue /\ d.is_reconnect = client.is_reconnect
        /\ d.schedule_reconnect = client.schedule_reconnect
        /\ d.schedule_close = client.schedule_close
    BY <2>2 DEF Client
  <2> HIDE DEF d
  <2>4. ConnectIsFirst(d)
    BY <2>3 DEF IInv, SlotOK, SlotBase, ConnectIsFirst
  <2>5. SlotOK(d)
    BY <2>3, <2>4 DEF IInv, SlotOK, SlotBase, CountsOnSocket, SockOpen, InUse
  <2>6. TypeOK'
    BY <2>1, <2>3 DEF IInv, TypeOK
  <2> QED
    BY <2>1, <2>3, <2>5, <2>6 DEF IInv, InUse
<1>4. CASE Crash
  <2>1. /\ UNCHANGED <<client, mtp_exit, dm, dm_version, connect_todo, dm_queue, misused>>
        /\ pc' = "crashed"
    BY <1>4 DEF Crash, dmVars
  <2> QED
    BY <2>1 DEF IInv, TypeOK, Looping
<1>5. CASE Stopped \/ UNCHANGED vars
  <2>1. UNCHANGED <<pc, client, mtp_exit, dm, dm_version, connect_todo, dm_queue, misused>>
    BY <1>5 DEF Stopped, vars
  <2> QED
    BY <2>1 DEF IInv, TypeOK
<1> QED
  BY <1>1, <1>2, <1>3, <1>4, <1>5 DEF Next

-----------------------------------------------------------------------------
(* The theorems. *)

(* The inductive invariant holds of every behaviour. *)
THEOREM Invariance == Spec => []IInv
  BY InitInv, StepInv, PTL DEF Spec

(* Every variable keeps its type; the DM thread's message queue stays      *)
(* within its bound.                                                       *)
THEOREM TypeCorrect == Spec => []TypeOK
<1>1. IInv => TypeOK
  BY DEF IInv
<1> QED
  BY <1>1, Invariance, PTL

(* A connection loss is noted as long as the MTP thread holds the mutex,   *)
(* and has been dealt with when it releases it (HandleMqttDisconnect).     *)
THEOREM LossNoticed == Spec => []LossIsNoticed
<1>1. IInv => LossIsNoticed
  BY DEF IInv, SlotOK, CountsOnSocket, LossIsNoticed, MutexFree, Looping
<1> QED
  BY <1>1, Invariance, PTL

(* Records are published on accepted connections only (ConnectCallback,    *)
(* MQTT_UpdateAllSockSet).                                                 *)
THEOREM RunningConnected == Spec => []RunningIsConnected
<1>1. IInv => RunningIsConnected
  BY DEF IInv, SlotOK, SlotBase, RunningIsConnected
<1> QED
  BY <1>1, Invariance, PTL

(* While mosquitto_connect runs without the mutex, the context and the     *)
(* parameters it works with stay in place (PerformMqttClientConnect).      *)
THEOREM ConnectSafe == Spec => []ConnectUndisturbed
<1>1. IInv => ConnectUndisturbed
  BY DEF IInv, SlotOK, SlotBase, ConnectUndisturbed
<1> QED
  BY <1>1, Invariance, PTL

(* A slot in use has parameters to reconnect with (MQTT_EnableClient,      *)
(* QueueMqttReconnect).                                                    *)
THEOREM ParamsHeld == Spec => []NextParamsHeld
<1>1. IInv => NextParamsHeld
  BY DEF IInv, SlotOK, SlotBase, NextParamsHeld
<1> QED
  BY <1>1, Invariance, PTL

(* An unused slot is clean for its next owner (CleanMqttClient,            *)
(* MQTT_EnableClient).                                                     *)
THEOREM SlotReusable == Spec => []UnusedSlotIsClean
<1>1. IInv => UnusedSlotIsClean
  BY DEF IInv, SlotOK, SlotBase, UnusedSlotIsClean
<1> QED
  BY <1>1, Invariance, PTL
=============================================================================
