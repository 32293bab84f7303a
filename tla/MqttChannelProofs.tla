------------------------- MODULE MqttChannelProofs --------------------------
(***************************************************************************)
(* What a connection makes of the records it is given: proofs of           *)
(* NothingBehindDisconnect, ConnectRecordFirst and PurgedOnlyByClose, and  *)
(* that MqttClient implements RecordChannel.                               *)
(***************************************************************************)
EXTENDS MqttClientProofs

(* Without a socket libmosquitto holds nothing, and a loss leaves none.    *)
NothingHeld(c) == c.out = <<>> /\ c.unacked = {} /\ c.connack = "none"
ClosedIsEmpty(c) == ~SockOpen(c) => NothingHeld(c)
LossCloses(c) == c.is_disconnected => ~SockOpen(c)

(* No CONNACK is awaited on a socket that is kept open in one of these     *)
(* states: the callback would make a slot with a DISCONNECT under way      *)
(* Running again.  Only an accepted connection has publishes.              *)
Answered(c) ==
    c.state \in {"ErrorRetrying", "Idle", "Running"} /\ SockOpen(c) => c.connack = "accepted"
Publishes(c) == c.unacked # {} \/ \E i \in 1..Len(c.out) : c.out[i].type = "PUBLISH"
PublishesAccepted(c) == Publishes(c) => c.connack = "accepted"

Disconnects(c) == \E i \in 1..Len(c.out) : c.out[i] = DISCONNECT
DisconnectLast(c) == \A i, j \in 1..Len(c.out) : i < j => c.out[i] # DISCONNECT
DisconnectUnderWay(c) ==
    Disconnects(c) => c.state \in {"AwaitingDisconnect", "ErrorRetrying", "Idle"}

(* A CONNECT carries no record. *)
ConnectIsBare(c) == \A i \in 1..Len(c.out) : c.out[i].type = "CONNECT" => c.out[i].rec = NoRecord

(* A disconnect is awaited for a reconnect, or for a close asked for. *)
DisconnectAsked(c) ==
    c.state = "AwaitingDisconnect" => c.is_reconnect \/ c.schedule_close # "Off"

OutOK(c) ==
    /\ ClosedIsEmpty(c) /\ LossCloses(c)
    /\ Answered(c) /\ PublishesAccepted(c)
    /\ DisconnectLast(c) /\ DisconnectUnderWay(c)
    /\ ConnectIsBare(c) /\ DisconnectAsked(c)

OutInv == OutOK(client)

-----------------------------------------------------------------------------
(* What libmosquitto still has to send of the responses, and what handling *)
(* a slot may do to its records: keep them, lose what libmosquitto holds,  *)
(* or, if a close was asked for, purge the queue.                          *)

Sending(c) == ResponsesIn(RecordsOf(c.out))

Handled(c, d) ==
    /\ d.queue \in {c.queue, <<>>}
    /\ d.queue # c.queue => c.schedule_close # "Off"
    /\ d.schedule_close \in {c.schedule_close, "Off"}
    /\ Sending(d) \in {Sending(c), <<>>}

LEMMA HandledSteps ==
  ASSUME NEW b, NEW c, NEW d, Handled(b, c), Handled(c, d)
  PROVE  Handled(b, d)
  BY DEF Handled

LEMMA RecordsOfType ==
  ASSUME NEW out \in Seq(Packet)
  PROVE  RecordsOf(out) \in Seq(Entries) /\ Len(RecordsOf(out)) = Len(out)
<1>1. \A p \in Packet : p.rec \in Entries
  BY DEF Packet, Entries
<1>2. \A i \in 1..Len(out) : out[i] \in Packet
  OBVIOUS
<1>3. \A i \in 1..Len(out) : out[i].rec \in Entries
  BY <1>1, <1>2
<1> QED
  BY <1>3 DEF RecordsOf

LEMMA RecordsOfAppend ==
  ASSUME NEW out \in Seq(Packet), NEW p \in Packet
  PROVE  RecordsOf(Append(out, p)) = Append(RecordsOf(out), p.rec)
<1>1. Append(out, p) \in Seq(Packet) /\ Len(Append(out, p)) = Len(out) + 1
  OBVIOUS
<1>2. p.rec \in Entries
  BY DEF Packet, Entries
<1>3. RecordsOf(out) \in Seq(Entries) /\ Len(RecordsOf(out)) = Len(out)
  BY RecordsOfType
<1>4. \A i \in 1..(Len(out) + 1) : Append(RecordsOf(out), p.rec)[i] = Append(out, p)[i].rec
  BY <1>3 DEF RecordsOf
<1>5. /\ Append(RecordsOf(out), p.rec) \in Seq(Entries)
      /\ Len(Append(RecordsOf(out), p.rec)) = Len(out) + 1
  BY <1>2, <1>3
<1> DEFINE a == Append(RecordsOf(out), p.rec)
<1> DEFINE b == RecordsOf(Append(out, p))
<1>6. b \in Seq(Entries) /\ Len(b) = Len(out) + 1 /\ \A i \in 1..(Len(out) + 1) : b[i] = Append(out, p)[i].rec
  BY <1>1, RecordsOfType DEF RecordsOf
<1>7. a \in Seq(Entries) /\ Len(a) = Len(b) /\ \A i \in 1..Len(b) : a[i] = b[i]
  BY <1>4, <1>5, <1>6
<1> HIDE DEF a, b
<1>8. a = b
  BY <1>6, <1>7
<1> QED BY <1>8 DEF a, b

LEMMA RecordsOfTail ==
  ASSUME NEW out \in Seq(Packet), out # <<>>
  PROVE  RecordsOf(Tail(out)) = Tail(RecordsOf(out)) /\ Head(RecordsOf(out)) = Head(out).rec
         /\ RecordsOf(out) # <<>>
<1>1. Tail(out) \in Seq(Packet) /\ Len(Tail(out)) = Len(out) - 1 /\ Len(out) # 0
  OBVIOUS
<1>2. RecordsOf(out) \in Seq(Entries) /\ Len(RecordsOf(out)) = Len(out)
  BY RecordsOfType
<1>3. RecordsOf(out) # <<>>
  BY <1>1, <1>2
<1>4. \A i \in 1..(Len(out) - 1) : Tail(RecordsOf(out))[i] = Tail(out)[i].rec
  BY <1>2, <1>3 DEF RecordsOf
<1> DEFINE a == Tail(RecordsOf(out))
<1> DEFINE b == RecordsOf(Tail(out))
<1>5. a \in Seq(Entries) /\ Len(a) = Len(out) - 1
  BY <1>2, <1>3
<1>6. /\ b \in Seq(Entries) /\ Len(b) = Len(out) - 1
      /\ \A i \in 1..(Len(out) - 1) : b[i] = Tail(out)[i].rec
  BY <1>1, RecordsOfType DEF RecordsOf
<1>7. Len(a) = Len(b) /\ \A i \in 1..Len(b) : a[i] = b[i]
  BY <1>4, <1>5, <1>6
<1>8. Head(RecordsOf(out)) = Head(out).rec
  BY <1>1, <1>2 DEF RecordsOf
<1> HIDE DEF a, b
<1>9. a = b
  BY <1>5, <1>6, <1>7
<1> QED BY <1>3, <1>8, <1>9 DEF a, b

LEMMA SendingEmpty ==
  ASSUME NEW c, c.out = <<>>
  PROVE  Sending(c) = <<>>
<1>1. RecordsOf(<<>>) = <<>>
  BY DEF RecordsOf
<1> QED
  BY <1>1, ResponsesInEmpty DEF Sending

LEMMA SendingAppend ==
  ASSUME NEW out \in Seq(Packet), NEW p \in Packet
  PROVE  ResponsesIn(RecordsOf(Append(out, p))) =
            IF p.rec \in Responses THEN Append(ResponsesIn(RecordsOf(out)), p.rec)
            ELSE ResponsesIn(RecordsOf(out))
<1>1. RecordsOf(out) \in Seq(Entries) /\ p.rec \in Entries
  BY RecordsOfType DEF Packet, Entries
<1> QED
  BY <1>1, RecordsOfAppend, ResponsesInAppend

LEMMA SendingTail ==
  ASSUME NEW out \in Seq(Packet), out # <<>>
  PROVE  LET s == ResponsesIn(RecordsOf(out))
             t == ResponsesIn(RecordsOf(Tail(out)))
         IN  \/ Head(out).rec \notin Responses /\ t = s
             \/ Head(out).rec \in Responses /\ s # <<>> /\ t = Tail(s)
<1>1. RecordsOf(out) \in Seq(Entries) /\ RecordsOf(out) # <<>>
      /\ Head(RecordsOf(out)) = Head(out).rec /\ RecordsOf(Tail(out)) = Tail(RecordsOf(out))
  BY RecordsOfType, RecordsOfTail
<1> QED
  BY <1>1, ResponsesInTail

-----------------------------------------------------------------------------
(* When the packets held stay sound. *)

LEMMA EmptyOutOK ==
  ASSUME NEW c \in Client, NothingHeld(c), ~SockOpen(c), DisconnectAsked(c)
  PROVE  OutOK(c)
<1>1. c.out = <<>> /\ Len(c.out) = 0
  BY DEF NothingHeld
<1> QED
  BY <1>1 DEF OutOK, NothingHeld, ClosedIsEmpty, LossCloses, Answered, Publishes,
              PublishesAccepted, Disconnects, DisconnectLast, DisconnectUnderWay,
              ConnectIsBare

(* The packets are left alone. *)
OutKept(c, d) ==
    /\ d.out = c.out /\ d.unacked \subseteq c.unacked /\ d.mosq = c.mosq
    /\ d.connack = c.connack \/ (SockOpen(c) /\ d.connack = "accepted")
    /\ d.is_disconnected \in {c.is_disconnected, FALSE}
    /\ Disconnects(c) => d.state \in {"AwaitingDisconnect", "ErrorRetrying", "Idle"}

LEMMA SameOutOK ==
  ASSUME NEW c \in Client, NEW d \in Client, OutOK(c), OutKept(c, d),
         Answered(d), DisconnectAsked(d)
  PROVE  OutOK(d) /\ Sending(d) = Sending(c)
  BY DEF OutKept, OutOK, NothingHeld, ClosedIsEmpty, LossCloses, Publishes, PublishesAccepted,
         Disconnects, DisconnectLast, DisconnectUnderWay, ConnectIsBare, SockOpen, Sending

(* A DISCONNECT is queued behind them. *)
LEMMA QueueDisconnectKeeps ==
  ASSUME NEW out \in Seq(Packet)
  PROVE  LET o == QueueDisconnect(out)
         IN  /\ o \in Seq(Packet)
             /\ ResponsesIn(RecordsOf(o)) = ResponsesIn(RecordsOf(out))
             /\ (\A i, j \in 1..Len(out) : i < j => out[i] # DISCONNECT)
                   => \A i, j \in 1..Len(o) : i < j => o[i] # DISCONNECT
             /\ \A i \in 1..Len(o) : o[i].type # "DISCONNECT" => i \in 1..Len(out) /\ o[i] = out[i]
<1>1. CASE \E i \in 1..Len(out) : out[i] = DISCONNECT
  <2>1. QueueDisconnect(out) = out
    BY <1>1 DEF QueueDisconnect
  <2> QED BY <2>1
<1>2. CASE ~ \E i \in 1..Len(out) : out[i] = DISCONNECT
  <2> DEFINE o == Append(out, DISCONNECT)
  <2>1. QueueDisconnect(out) = o
    BY <1>2 DEF QueueDisconnect
  <2>2. /\ DISCONNECT \in Packet /\ DISCONNECT.rec \notin Responses
        /\ DISCONNECT.type = "DISCONNECT"
    BY DisconnectPacket, NoRecordAssumption DEF DISCONNECT
  <2>3. o \in Seq(Packet) /\ ResponsesIn(RecordsOf(o)) = ResponsesIn(RecordsOf(out))
    BY <2>2, SendingAppend
  <2>4. /\ Len(o) = Len(out) + 1 /\ Len(out) \in Nat /\ o[Len(out) + 1] = DISCONNECT
        /\ \A i \in 1..Len(out) : o[i] = out[i]
    BY <2>2
  <2> HIDE DEF o
  <2>5. \A i, j \in 1..Len(o) : i < j => o[i] # DISCONNECT
    <3> SUFFICES ASSUME NEW i \in 1..Len(o), NEW j \in 1..Len(o), i < j
                 PROVE  o[i] # DISCONNECT
      OBVIOUS
    <3>1. i \in 1..Len(out)
      BY <2>4
    <3> QED BY <1>2, <2>4, <3>1
  <2>6. \A i \in 1..Len(o) : o[i].type # "DISCONNECT" => i \in 1..Len(out) /\ o[i] = out[i]
    <3> SUFFICES ASSUME NEW i \in 1..Len(o), o[i].type # "DISCONNECT"
                 PROVE  i \in 1..Len(out) /\ o[i] = out[i]
      OBVIOUS
    <3>1. i # Len(out) + 1
      BY <2>2, <2>4
    <3> QED BY <2>4, <3>1
  <2> QED BY <2>1, <2>3, <2>5, <2>6
<1> QED BY <1>1, <1>2

LEMMA DisconnectOutOK ==
  ASSUME NEW c \in Client, NEW d \in Client, OutOK(c), SockOpen(c),
         d.out = QueueDisconnect(c.out), d.unacked = c.unacked, d.mosq = c.mosq,
         d.connack = c.connack, d.is_disconnected = c.is_disconnected,
         d.state \in {"AwaitingDisconnect", "ErrorRetrying"},
         Answered(d), DisconnectAsked(d)
  PROVE  OutOK(d) /\ Sending(d) = Sending(c)
<1> DEFINE o == QueueDisconnect(c.out)
<1>0. c.out \in Seq(Packet)
  BY DEF Client
<1>1. /\ o \in Seq(Packet)
      /\ ResponsesIn(RecordsOf(o)) = ResponsesIn(RecordsOf(c.out))
      /\ (\A i, j \in 1..Len(c.out) : i < j => c.out[i] # DISCONNECT)
            => \A i, j \in 1..Len(o) : i < j => o[i] # DISCONNECT
      /\ \A i \in 1..Len(o) : o[i].type # "DISCONNECT"
            => i \in 1..Len(c.out) /\ o[i] = c.out[i]
  BY <1>0, QueueDisconnectKeeps
<1>2. d.out = o
  OBVIOUS
<1> HIDE DEF o
<1>3. Sending(d) = Sending(c)
  BY <1>1, <1>2 DEF Sending
<1>4. DisconnectLast(d)
  BY <1>1, <1>2 DEF DisconnectLast, OutOK
<1>5. ConnectIsBare(d)
  BY <1>1, <1>2 DEF ConnectIsBare, OutOK
<1>6. PublishesAccepted(d)
  <2>1. Publishes(d) => Publishes(c)
    BY <1>1, <1>2 DEF Publishes
  <2> QED BY <2>1 DEF PublishesAccepted, OutOK
<1>7. ClosedIsEmpty(d) /\ LossCloses(d) /\ DisconnectUnderWay(d)
  BY DEF ClosedIsEmpty, LossCloses, DisconnectUnderWay, OutOK, SockOpen
<1> QED
  BY <1>3, <1>4, <1>5, <1>6, <1>7 DEF OutOK

LEMMA SocketClosedOut ==
  ASSUME NEW c \in Client, DisconnectAsked(c)
  PROVE  LET d == SocketClosed(c)
         IN  OutOK(d) /\ Handled(c, d) /\ d.queue = c.queue
<1> DEFINE d == SocketClosed(c)
<1>1. <<>> \in Seq(Packet) /\ {} \in SUBSET Packet
  OBVIOUS
<1>2. d \in Client
  BY <1>1 DEF SocketClosed, Client
<1>3. /\ d.state = c.state /\ d.mosq = "closed" /\ d.is_reconnect = c.is_reconnect
      /\ d.schedule_close = c.schedule_close /\ d.queue = c.queue
      /\ d.out = <<>> /\ d.unacked = {} /\ d.connack = "none"
  BY DEF SocketClosed, Client
<1> HIDE DEF d
<1>4. NothingHeld(d) /\ ~SockOpen(d) /\ DisconnectAsked(d)
  BY <1>3 DEF NothingHeld, SockOpen, DisconnectAsked
<1>5. OutOK(d)
  BY <1>2, <1>4, EmptyOutOK
<1>6. Sending(d) = <<>>
  BY <1>3, SendingEmpty
<1>7. Handled(c, d)
  BY <1>3, <1>6 DEF Handled
<1> QED
  BY <1>3, <1>5, <1>7 DEF d

-----------------------------------------------------------------------------
(* The functions of mqtt.c. *)

(* Starting a connection drops what an earlier one held. *)
LEMMA EnableOut ==
  ASSUME NEW c \in Client, NEW ok \in BOOLEAN, c.state # "AwaitingDisconnect"
  PROVE  LET e == EnableMqttClient(c, ok)
         IN  /\ OutOK(e) /\ Handled(c, e) /\ e.queue = c.queue
             /\ NothingHeld(e) /\ ~SockOpen(e)
<1> DEFINE e == EnableMqttClient(c, ok)
<1>1. e \in Client
  BY EnableType
<1>2. /\ e.out = <<>> /\ e.unacked = {} /\ e.connack = "none"
      /\ e.mosq = (IF ok THEN "new" ELSE "null")
      /\ e.state = (IF ok THEN "SendingConnect" ELSE c.state)
      /\ e.queue = c.queue /\ e.schedule_close = "Off"
  BY DEF EnableMqttClient, EnableMosquitto, Client
<1> HIDE DEF e
<1>3. NothingHeld(e) /\ ~SockOpen(e) /\ DisconnectAsked(e)
  BY <1>2 DEF NothingHeld, SockOpen, DisconnectAsked
<1>4. OutOK(e)
  BY <1>1, <1>3, EmptyOutOK
<1>5. Sending(e) = <<>>
  BY <1>2, SendingEmpty
<1>6. Handled(c, e)
  BY <1>2, <1>5 DEF Handled
<1> QED
  BY <1>2, <1>3, <1>4, <1>6 DEF e

LEMMA CleanOut ==
  ASSUME NEW c \in Client, OutOK(c), SockOpen(c) => c.connack = "accepted",
         c.schedule_close # "Off"
  PROVE  LET d == CleanMqttClient(c, FALSE)
         IN  OutOK(d) /\ Handled(c, d)
<1> DEFINE d == CleanMqttClient(c, FALSE)
<1>1. d \in Client
  BY CleanType
<1>2. /\ d.out = c.out /\ d.unacked = c.unacked /\ d.connack = c.connack /\ d.mosq = c.mosq
      /\ d.is_disconnected = c.is_disconnected /\ d.state = "Idle"
      /\ d.queue = <<>> /\ d.schedule_close = "Off"
  BY DEF CleanMqttClient, Client
<1> HIDE DEF d
<1>3. Answered(d) /\ DisconnectAsked(d)
  BY <1>2 DEF Answered, DisconnectAsked, SockOpen
<1>6. OutKept(c, d)
  BY <1>2 DEF OutKept
<1>4. OutOK(d) /\ Sending(d) = Sending(c)
  BY <1>1, <1>3, <1>6, SameOutOK
<1>5. Handled(c, d)
  BY <1>2, <1>4 DEF Handled
<1> QED
  BY <1>4, <1>5 DEF d

LEMMA ReconnectAfterDisconnectOut ==
  ASSUME NEW c \in Client, NEW ok \in BOOLEAN, c.is_reconnect
  PROVE  LET h == HandleMqttReconnectAfterDisconnect(c, ok)
         IN  /\ OutOK(h) /\ Handled(c, h) /\ h.queue = c.queue
             /\ NothingHeld(h) /\ ~SockOpen(h)
<1> DEFINE d == CleanMqttClient(c, TRUE)
<1> DEFINE e == [UseNextParams(d) EXCEPT !.is_reconnect = FALSE]
<1> DEFINE h == EnableMqttClient(e, ok)
<1>1. c.is_reconnect = TRUE
  BY DEF Client
<1>2. d \in Client /\ d.state = "Idle" /\ d.queue = c.queue /\ d.schedule_close = "Off"
      /\ d.out = c.out
  BY CleanType DEF CleanMqttClient, Client
<1>3. HandleMqttReconnectAfterDisconnect(c, ok) = h
  BY <1>1 DEF HandleMqttReconnectAfterDisconnect
<1> HIDE DEF d
<1>4. /\ e \in Client /\ e.state = "Idle" /\ e.queue = c.queue /\ e.schedule_close = "Off"
      /\ e.out = c.out
  BY <1>2 DEF UseNextParams, Client
<1> HIDE DEF e
<1>5. /\ OutOK(h) /\ Handled(e, h) /\ h.queue = e.queue
      /\ NothingHeld(h) /\ ~SockOpen(h)
  BY <1>4, EnableOut
<1>6. Handled(c, e)
  BY <1>4 DEF Handled, Sending
<1> HIDE DEF h
<1>7. Handled(c, h)
  BY <1>5, <1>6, HandledSteps
<1> QED
  BY <1>3, <1>4, <1>5, <1>7

LEMMA DisconnectClientOut ==
  ASSUME NEW c \in Client
  PROVE  LET d == DisconnectClient(c)
         IN  /\ d.queue = c.queue /\ d.schedule_close = c.schedule_close
             /\ d.is_reconnect = c.is_reconnect /\ d.unacked = c.unacked
             /\ d.connack = c.connack /\ d.mosq = c.mosq
             /\ d.is_disconnected = c.is_disconnected
             /\ SockOpen(c) => d.state = "AwaitingDisconnect" /\ d.out = QueueDisconnect(c.out)
             /\ ~SockOpen(c) => d = c
  BY DEF DisconnectClient, Client

(* What HandleMqttError does, whatever the handshake has come to. *)
LEMMA ErrorFields ==
  ASSUME NEW c \in Client, NEW ok \in BOOLEAN, ~Reconnecting(c)
  PROVE  LET h == HandleMqttError(c, ok)
         IN  /\ h \in Client /\ h.state = "ErrorRetrying"
             /\ h.queue = c.queue /\ h.schedule_close = c.schedule_close
             /\ h.unacked = c.unacked /\ h.connack = c.connack /\ h.mosq = c.mosq
             /\ h.is_disconnected = c.is_disconnected
             /\ h.out = IF SockOpen(c) THEN QueueDisconnect(c.out) ELSE c.out
<1> DEFINE b == [c EXCEPT !.is_reconnect = FALSE]
<1> DEFINE d == DisconnectClient(b)
<1> DEFINE n == IF c.retry_count < RetryClamp THEN c.retry_count + 1 ELSE c.retry_count
<1> DEFINE h == [d EXCEPT !.state = "ErrorRetrying", !.retry_time = "armed", !.retry_count = n]
<1>1. /\ b \in Client /\ b.queue = c.queue /\ b.schedule_close = c.schedule_close
      /\ b.unacked = c.unacked /\ b.connack = c.connack /\ b.mosq = c.mosq
      /\ b.is_disconnected = c.is_disconnected /\ b.out = c.out
  BY DEF Client
<1>2. n \in Nat
  BY DEF Client
<1>3. HandleMqttError(c, ok) = h
  BY DEF HandleMqttError
<1> HIDE DEF b, n
<1>4. /\ d \in Client /\ d.queue = c.queue /\ d.schedule_close = c.schedule_close
      /\ d.unacked = c.unacked /\ d.connack = c.connack /\ d.mosq = c.mosq
      /\ d.is_disconnected = c.is_disconnected
      /\ d.out = IF SockOpen(c) THEN QueueDisconnect(c.out) ELSE c.out
  BY <1>1, DisconnectClientType, DisconnectClientOut DEF SockOpen
<1> HIDE DEF d
<1>5. /\ h \in Client /\ h.state = "ErrorRetrying"
      /\ h.queue = d.queue /\ h.schedule_close = d.schedule_close
      /\ h.unacked = d.unacked /\ h.connack = d.connack /\ h.mosq = d.mosq
      /\ h.is_disconnected = d.is_disconnected /\ h.out = d.out
  BY <1>2, <1>4 DEF Client, States
<1> QED
  BY <1>3, <1>4, <1>5

(* An error keeps the queue; on an open socket it needs the handshake over. *)
LEMMA ErrorOut ==
  ASSUME NEW c \in Client, NEW ok \in BOOLEAN, OutOK(c),
         SockOpen(c) /\ ~Reconnecting(c) => c.connack = "accepted"
  PROVE  LET h == HandleMqttError(c, ok)
         IN  OutOK(h) /\ Handled(c, h) /\ h.queue = c.queue
<1>1. CASE Reconnecting(c)
  BY <1>1, ReconnectAfterDisconnectOut DEF HandleMqttError, Reconnecting
<1>2. CASE ~Reconnecting(c)
  <2> DEFINE h == HandleMqttError(c, ok)
  <2>1. /\ h \in Client /\ h.state = "ErrorRetrying"
        /\ h.queue = c.queue /\ h.schedule_close = c.schedule_close
        /\ h.unacked = c.unacked /\ h.connack = c.connack /\ h.mosq = c.mosq
        /\ h.is_disconnected = c.is_disconnected
        /\ h.out = IF SockOpen(c) THEN QueueDisconnect(c.out) ELSE c.out
    BY <1>2, ErrorFields
  <2> HIDE DEF h
  <2>2. Answered(h) /\ DisconnectAsked(h)
    BY <1>2, <2>1 DEF Answered, DisconnectAsked, SockOpen
  <2>3. OutOK(h) /\ Sending(h) = Sending(c)
    <3>1. CASE SockOpen(c)
      BY <2>1, <2>2, <3>1, DisconnectOutOK
    <3>2. CASE ~SockOpen(c)
      <4>1. OutKept(c, h)
        BY <2>1, <3>2 DEF OutKept
      <4> QED BY <2>1, <2>2, <4>1, SameOutOK
    <3> QED BY <3>1, <3>2
  <2>4. Handled(c, h)
    BY <2>1, <2>3 DEF Handled
  <2> QED
    BY <2>1, <2>3, <2>4 DEF h
<1> QED
  BY <1>1, <1>2

(* A refused connection: the error, then libmosquitto closes the socket. *)
LEMMA RefusedOut ==
  ASSUME NEW c \in Client, NEW ok \in BOOLEAN
  PROVE  LET d == HandleMqttError(c, ok)
             h == IF SockOpen(d) THEN SocketClosed(d) ELSE d
         IN  SockOpen(c) => OutOK(h) /\ Handled(c, h) /\ h.queue = c.queue
<1> SUFFICES ASSUME SockOpen(c)
             PROVE  LET d == HandleMqttError(c, ok)
                        h == IF SockOpen(d) THEN SocketClosed(d) ELSE d
                    IN  OutOK(h) /\ Handled(c, h) /\ h.queue = c.queue
  OBVIOUS
<1> DEFINE d == HandleMqttError(c, ok)
<1>1. CASE Reconnecting(c)
  <2>1. OutOK(d) /\ Handled(c, d) /\ d.queue = c.queue /\ ~SockOpen(d)
    BY <1>1, ReconnectAfterDisconnectOut DEF HandleMqttError, Reconnecting
  <2> QED BY <2>1
<1>2. CASE ~Reconnecting(c)
  <2>1. /\ d \in Client /\ d.state = "ErrorRetrying"
        /\ d.queue = c.queue /\ d.schedule_close = c.schedule_close
        /\ d.mosq = c.mosq /\ d.out = QueueDisconnect(c.out)
    BY <1>2, ErrorFields
  <2> HIDE DEF d
  <2>2. DisconnectAsked(d) /\ SockOpen(d)
    BY <2>1 DEF DisconnectAsked, SockOpen
  <2>3. LET h == SocketClosed(d) IN OutOK(h) /\ Handled(d, h) /\ h.queue = d.queue
    BY <2>1, <2>2, SocketClosedOut
  <2>4. c.out \in Seq(Packet)
    BY DEF Client
  <2>5. Sending(d) = Sending(c)
    BY <2>1, <2>4, QueueDisconnectKeeps DEF Sending
  <2>6. Handled(c, d)
    BY <2>1, <2>5 DEF Handled
  <2>7. Handled(c, SocketClosed(d))
    BY <2>3, <2>6, HandledSteps
  <2> QED
    BY <2>1, <2>2, <2>3, <2>7 DEF d
<1> QED
  BY <1>1, <1>2

LEMMA ReconnectOut ==
  ASSUME NEW c \in Client, NEW ok \in BOOLEAN, OutOK(c)
  PROVE  LET h == HandleMqttReconnect(c, ok)
         IN  OutOK(h) /\ Handled(c, h)
<1> DEFINE u == UseNextParams(c)
<1> DEFINE b == [c EXCEPT !.is_reconnect = TRUE]
<1> DEFINE d == DisconnectClient(b)
<1>1. /\ u \in Client /\ u.state = c.state /\ u.queue = c.queue /\ u.out = c.out
      /\ u.schedule_close = c.schedule_close
  BY DEF UseNextParams, Client
<1>2. /\ b \in Client /\ b.state = c.state /\ b.is_reconnect = TRUE /\ b.queue = c.queue
      /\ b.schedule_close = c.schedule_close /\ b.out = c.out /\ b.unacked = c.unacked
      /\ b.connack = c.connack /\ b.mosq = c.mosq /\ b.is_disconnected = c.is_disconnected
  BY DEF Client
<1>3. \/ HandleMqttReconnect(c, ok) = EnableMqttClient(u, ok) /\ c.state # "AwaitingDisconnect"
      \/ HandleMqttReconnect(c, ok) = b /\ c.state = "AwaitingDisconnect"
      \/ HandleMqttReconnect(c, ok) = d /\ SockOpen(c)
  BY DEF HandleMqttReconnect
<1> HIDE DEF u, b
<1>4. ASSUME c.state # "AwaitingDisconnect"
      PROVE  LET e == EnableMqttClient(u, ok) IN OutOK(e) /\ Handled(c, e)
  <2>1. LET e == EnableMqttClient(u, ok) IN OutOK(e) /\ Handled(u, e)
    BY <1>1, <1>4, EnableOut
  <2>2. Handled(c, u)
    BY <1>1 DEF Handled, Sending
  <2> QED BY <2>1, <2>2, HandledSteps
<1>5. ASSUME c.state = "AwaitingDisconnect" PROVE OutOK(b) /\ Handled(c, b)
  <2>1. OutKept(c, b) /\ Answered(b) /\ DisconnectAsked(b)
    BY <1>2, <1>5 DEF OutKept, Answered, DisconnectAsked
  <2>2. OutOK(b) /\ Sending(b) = Sending(c)
    BY <1>2, <2>1, SameOutOK
  <2> QED BY <1>2, <2>2 DEF Handled
<1>6. ASSUME SockOpen(c) PROVE OutOK(d) /\ Handled(c, d)
  <2>1. /\ d \in Client /\ d.state = "AwaitingDisconnect" /\ d.is_reconnect = TRUE
        /\ d.queue = c.queue /\ d.schedule_close = c.schedule_close
        /\ d.out = QueueDisconnect(c.out) /\ d.unacked = c.unacked
        /\ d.connack = c.connack /\ d.mosq = c.mosq /\ d.is_disconnected = c.is_disconnected
    BY <1>2, <1>6, DisconnectClientType, DisconnectClientOut DEF SockOpen
  <2> HIDE DEF d
  <2>2. Answered(d) /\ DisconnectAsked(d)
    BY <2>1 DEF Answered, DisconnectAsked
  <2>3. OutOK(d) /\ Sending(d) = Sending(c)
    BY <1>6, <2>1, <2>2, DisconnectOutOK
  <2> QED BY <2>1, <2>3 DEF Handled
<1> HIDE DEF d
<1> QED
  BY <1>3, <1>4, <1>5, <1>6

LEMMA CloseOut ==
  ASSUME NEW c \in Client, OutOK(c), SlotBase(c), c.schedule_close = "Activated"
  PROVE  LET h == HandleMqttClose(c)
         IN  OutOK(h) /\ Handled(c, h)
<1> DEFINE b == [c EXCEPT !.is_reconnect = FALSE]
<1> DEFINE d == DisconnectClient(b)
<1>1. /\ b \in Client /\ b.state = c.state /\ b.queue = c.queue
      /\ b.schedule_close = c.schedule_close /\ b.out = c.out /\ b.unacked = c.unacked
      /\ b.connack = c.connack /\ b.mosq = c.mosq /\ b.is_disconnected = c.is_disconnected
  BY DEF Client
<1>2. \/ HandleMqttClose(c) = b
      \/ /\ HandleMqttClose(c) = CleanMqttClient(c, FALSE)
         /\ c.state \in {"SendingConnect", "Idle", "ErrorRetrying"}
      \/ HandleMqttClose(c) = d
      \/ HandleMqttClose(c) = c
  BY DEF HandleMqttClose
<1> HIDE DEF b
<1>3. OutOK(b) /\ Handled(c, b)
  <2>1. OutKept(c, b)
    BY <1>1 DEF OutKept, OutOK, DisconnectUnderWay
  <2>2. Answered(b) /\ DisconnectAsked(b)
    BY <1>1 DEF Answered, DisconnectAsked, OutOK, SockOpen
  <2>3. OutOK(b) /\ Sending(b) = Sending(c)
    BY <1>1, <2>1, <2>2, SameOutOK
  <2> QED BY <1>1, <2>3 DEF Handled
<1>4. ASSUME c.state \in {"SendingConnect", "Idle", "ErrorRetrying"}
      PROVE  LET h == CleanMqttClient(c, FALSE) IN OutOK(h) /\ Handled(c, h)
  <2>1. SockOpen(c) => c.connack = "accepted"
    BY <1>4 DEF SlotBase, OutOK, Answered, SockOpen
  <2> QED BY <2>1, CleanOut
<1>5. OutOK(d) /\ Handled(c, d)
  <2>1. CASE ~SockOpen(c)
    <3>1. d = b
      BY <1>1, <2>1, DisconnectClientOut DEF SockOpen
    <3> QED BY <1>3, <3>1
  <2>2. CASE SockOpen(c)
    <3>1. /\ d \in Client /\ d.state = "AwaitingDisconnect"
          /\ d.queue = c.queue /\ d.schedule_close = "Activated"
          /\ d.out = QueueDisconnect(c.out) /\ d.unacked = c.unacked
          /\ d.connack = c.connack /\ d.mosq = c.mosq /\ d.is_disconnected = c.is_disconnected
      BY <1>1, <2>2, DisconnectClientType, DisconnectClientOut DEF SockOpen
    <3> HIDE DEF d
    <3>2. Answered(d) /\ DisconnectAsked(d)
      BY <3>1 DEF Answered, DisconnectAsked
    <3>3. OutOK(d) /\ Sending(d) = Sending(c)
      BY <2>2, <3>1, <3>2, DisconnectOutOK
    <3> QED BY <3>1, <3>3 DEF Handled
  <2> QED BY <2>1, <2>2
<1> HIDE DEF d
<1>6. Handled(c, c)
  BY DEF Handled
<1> QED
  BY <1>2, <1>3, <1>4, <1>5, <1>6

LEMMA HandleDisconnectOut ==
  ASSUME NEW c \in Client, NEW ok \in BOOLEAN, OutOK(c), c.is_disconnected
  PROVE  LET h == HandleMqttDisconnect(c, ok)
         IN  OutOK(h) /\ Handled(c, h)
<1> DEFINE d == [c EXCEPT !.is_disconnected = FALSE]
<1>1. /\ d \in Client /\ d.state = c.state /\ d.queue = c.queue
      /\ d.schedule_close = c.schedule_close /\ d.out = c.out /\ d.unacked = c.unacked
      /\ d.connack = c.connack /\ d.mosq = c.mosq /\ d.is_disconnected = FALSE
      /\ d.is_reconnect = c.is_reconnect
  BY DEF Client
<1>2. \/ HandleMqttDisconnect(c, ok) = d
      \/ /\ HandleMqttDisconnect(c, ok) = HandleMqttReconnectAfterDisconnect(d, ok)
         /\ d.state = "AwaitingDisconnect"
      \/ HandleMqttDisconnect(c, ok) = HandleMqttError(d, ok)
  BY DEF HandleMqttDisconnect
<1> HIDE DEF d
<1>3. ~SockOpen(c) /\ ~SockOpen(d)
  BY <1>1 DEF OutOK, LossCloses, SockOpen
<1>4. OutKept(c, d)
  BY <1>1 DEF OutKept, OutOK, DisconnectUnderWay
<1>5. Answered(d) /\ DisconnectAsked(d)
  BY <1>1, <1>3 DEF Answered, DisconnectAsked, OutOK
<1>6. OutOK(d) /\ Handled(c, d)
  <2>1. OutOK(d) /\ Sending(d) = Sending(c)
    BY <1>1, <1>4, <1>5, SameOutOK
  <2> QED BY <1>1, <2>1 DEF Handled
<1>7. ASSUME d.state = "AwaitingDisconnect"
      PROVE  LET h == HandleMqttReconnectAfterDisconnect(d, ok) IN OutOK(h) /\ Handled(d, h)
  <2>1. CASE d.is_reconnect
    BY <1>1, <2>1, ReconnectAfterDisconnectOut
  <2>2. CASE ~d.is_reconnect
    <3>1. d.is_reconnect = FALSE
      BY <1>1, <2>2 DEF Client
    <3>2. HandleMqttReconnectAfterDisconnect(d, ok) = CleanMqttClient(d, FALSE)
      BY <3>1 DEF HandleMqttReconnectAfterDisconnect
    <3>3. d.schedule_close # "Off"
      BY <1>5, <1>7, <2>2 DEF DisconnectAsked
    <3> QED BY <1>1, <1>3, <1>6, <3>2, <3>3, CleanOut
  <2> QED BY <2>1, <2>2
<1>8. LET h == HandleMqttError(d, ok) IN OutOK(h) /\ Handled(d, h)
  BY <1>1, <1>3, <1>6, ErrorOut
<1> QED
  BY <1>2, <1>6, <1>7, <1>8, HandledSteps

(* The three tests at the end of the loop, one after the other. *)
LEMMA ScheduledOut ==
  ASSUME NEW c \in Client, NEW ok1 \in BOOLEAN, NEW ok2 \in BOOLEAN,
         SlotOK(c), InUse(c), c.state = "SendingConnect" => c.schedule_reconnect = "Off",
         OutOK(c)
  PROVE  LET h == HandleScheduled(c, ok1, ok2)
         IN  OutOK(h) /\ Handled(c, h)
<1> DEFINE r == ReconnectIfScheduled(c, ok1)
<1> DEFINE s == CloseIfScheduled(r)
<1> DEFINE t == DisconnectIfDisconnected(s, ok2)
<1>0. Handled(c, c)
  BY DEF Handled
<1>1. r \in Client /\ SlotOK(r) /\ InUse(r)
  BY ReconnectSound DEF ReconnectIfScheduled
<1>2. OutOK(r) /\ Handled(c, r)
  BY <1>0, ReconnectOut DEF ReconnectIfScheduled
<1> HIDE DEF r
<1>3. s \in Client
  BY <1>1, CloseSound DEF CloseIfScheduled
<1>4. OutOK(s) /\ Handled(c, s)
  <2>1. CASE r.schedule_close = "Activated"
    <3>1. OutOK(s) /\ Handled(r, s)
      BY <1>1, <1>2, <2>1, CloseOut DEF CloseIfScheduled, SlotOK
    <3> HIDE DEF s
    <3> QED BY <1>2, <3>1, HandledSteps
  <2>2. CASE r.schedule_close # "Activated"
    BY <1>2, <2>2 DEF CloseIfScheduled
  <2> QED BY <2>1, <2>2
<1> HIDE DEF s
<1>5. OutOK(t) /\ Handled(c, t)
  <2>1. CASE s.is_disconnected
    <3>1. OutOK(t) /\ Handled(s, t)
      BY <1>3, <1>4, <2>1, HandleDisconnectOut DEF DisconnectIfDisconnected
    <3> HIDE DEF t
    <3> QED BY <1>4, <3>1, HandledSteps
  <2>2. CASE ~s.is_disconnected
    BY <1>4, <2>2 DEF DisconnectIfDisconnected
  <2> QED BY <2>1, <2>2
<1> QED
  BY <1>5 DEF HandleScheduled, r, s, t

LEMMA EstablishedOut ==
  ASSUME NEW c \in Client, OutOK(c), c.connack = "accepted", c.state = "AwaitingConnect"
  PROVE  LET e == Established(c)
         IN  /\ e \in Client /\ OutOK(e) /\ Handled(c, e) /\ e.connack = "accepted"
             /\ e.state = "Running"
<1> DEFINE e == Established(c)
<1>1. ResetRetryCount(c) \in Client
  BY DEF ResetRetryCount, Client
<1>2. e \in Client
  BY <1>1 DEF Established, Client, States
<1>3. /\ e.state = "Running" /\ e.queue = c.queue
      /\ e.schedule_close = c.schedule_close /\ e.out = c.out /\ e.unacked = c.unacked
      /\ e.connack = c.connack /\ e.mosq = c.mosq /\ e.is_disconnected = c.is_disconnected
  BY DEF Established, ResetRetryCount, Client
<1> HIDE DEF e
<1>4. OutKept(c, e)
  BY <1>3 DEF OutKept, OutOK, DisconnectUnderWay
<1>5. Answered(e) /\ DisconnectAsked(e)
  BY <1>3 DEF Answered, DisconnectAsked
<1>6. OutOK(e) /\ Sending(e) = Sending(c)
  BY <1>2, <1>4, <1>5, SameOutOK
<1>7. Handled(c, e)
  BY <1>3, <1>6 DEF Handled
<1> QED
  BY <1>2, <1>3, <1>6, <1>7 DEF e

LEMMA SubscribeOut ==
  ASSUME NEW c \in Client, OutOK(c), SlotOK(c), InUse(c), c.connack = "accepted",
         c.state = "Running", NEW failed \in Nat
  PROVE  LET d == SubscribeToAll(c, failed)
         IN  OutOK(d) /\ Handled(c, d)
<1> DEFINE h == HandleMqttError(c, TRUE)
<1> DEFINE n == IF c.retry_count + failed < RetryClamp
                THEN c.retry_count + failed ELSE RetryClamp
<1> DEFINE d == [h EXCEPT !.retry_count = n]
<1>1. h \in Client /\ OutOK(h) /\ Handled(c, h)
  BY ErrorSound, ErrorOut DEF SlotOK
<1>2. n \in Nat
  BY ConstantsAssumption DEF Client
<1>3. SubscribeToAll(c, failed) = IF failed = 0 THEN c ELSE d
  BY DEF SubscribeToAll
<1> HIDE DEF h, n
<1>4. /\ d \in Client /\ d.state = h.state /\ d.queue = h.queue
      /\ d.schedule_close = h.schedule_close /\ d.out = h.out /\ d.unacked = h.unacked
      /\ d.connack = h.connack /\ d.mosq = h.mosq /\ d.is_disconnected = h.is_disconnected
      /\ d.is_reconnect = h.is_reconnect
  BY <1>1, <1>2 DEF Client
<1> HIDE DEF d
<1>5. OutKept(h, d)
  BY <1>1, <1>4 DEF OutKept, OutOK, DisconnectUnderWay
<1>6. Answered(d) /\ DisconnectAsked(d)
  BY <1>1, <1>4 DEF Answered, DisconnectAsked, OutOK, SockOpen
<1>7. OutOK(d) /\ Sending(d) = Sending(h)
  BY <1>1, <1>4, <1>5, <1>6, SameOutOK
<1>8. Handled(h, d)
  BY <1>4, <1>7 DEF Handled
<1>9. Handled(c, d) /\ Handled(c, c)
  BY <1>1, <1>8, HandledSteps DEF Handled
<1> QED
  BY <1>3, <1>7, <1>9

(* A CONNACK: only a slot that waits for it, or that disconnects, has it   *)
(* still to come.                                                          *)
LEMMA ConnackOut ==
  ASSUME NEW b \in Client, OutOK(b), SlotOK(b), InUse(b), SockOpen(b), b.connack = "awaited",
         NEW outcome \in ConnackOutcomes, NEW failed \in Nat, NEW ok \in BOOLEAN
  PROVE  LET c == [b EXCEPT !.connack = IF outcome = "refused" THEN "none" ELSE "accepted"]
             d == ConnectCallback(c, outcome, failed, ok)
             h == IF outcome = "refused" /\ SockOpen(d) THEN SocketClosed(d) ELSE d
         IN  OutOK(h) /\ Handled(b, h)
<1> DEFINE c == [b EXCEPT !.connack = IF outcome = "refused" THEN "none" ELSE "accepted"]
<1> DEFINE d == ConnectCallback(c, outcome, failed, ok)
<1> DEFINE h == IF outcome = "refused" /\ SockOpen(d) THEN SocketClosed(d) ELSE d
<1> SUFFICES OutOK(h) /\ Handled(b, h)
  OBVIOUS
<1>1. /\ c \in Client /\ c.state = b.state /\ c.queue = b.queue
      /\ c.schedule_close = b.schedule_close /\ c.out = b.out /\ c.unacked = b.unacked
      /\ c.mosq = b.mosq /\ c.is_disconnected = b.is_disconnected
      /\ c.is_reconnect = b.is_reconnect
      /\ c.connack = IF outcome = "refused" THEN "none" ELSE "accepted"
      /\ c.conn_params = b.conn_params /\ c.next_params = b.next_params
  BY DEF Client
<1>2. b.state \in {"AwaitingConnect", "AwaitingDisconnect"}
  BY DEF Client, States, OutOK, Answered, SlotOK, SlotBase, SockOpen
<1> HIDE DEF c
<1>3. SockOpen(c) /\ DisconnectAsked(c) /\ Handled(b, c)
  BY <1>1 DEF SockOpen, DisconnectAsked, OutOK, Handled, Sending
<1>4. CASE outcome = "refused"
  <2>1. d \in {c, HandleMqttError(c, ok)}
    BY <1>4 DEF ConnectCallback
  <2>2. CASE d = c
    <3>1. OutOK(SocketClosed(c)) /\ Handled(c, SocketClosed(c))
      BY <1>1, <1>3, SocketClosedOut
    <3>2. h = SocketClosed(c)
      BY <1>3, <1>4, <2>2
    <3> QED BY <1>3, <3>1, <3>2, HandledSteps
  <2>3. CASE d = HandleMqttError(c, ok)
    <3> DEFINE e == HandleMqttError(c, ok)
    <3> DEFINE g == IF SockOpen(e) THEN SocketClosed(e) ELSE e
    <3>1. OutOK(g) /\ Handled(c, g)
      BY <1>1, <1>3, RefusedOut
    <3>2. h = g
      BY <1>4, <2>3
    <3> HIDE DEF g, h
    <3>3. Handled(b, h)
      BY <1>3, <3>1, <3>2, HandledSteps
    <3> QED BY <3>1, <3>2, <3>3 DEF h
  <2> QED BY <2>1, <2>2, <2>3
<1>5. CASE outcome # "refused"
  <2>0. h = d /\ c.connack = "accepted"
    BY <1>1, <1>5
  <2>1. OutOK(c) /\ SlotOK(c) /\ InUse(c)
    <3>1. OutKept(b, c)
      BY <1>1, <1>2, <2>0 DEF OutKept, OutOK, DisconnectUnderWay
    <3>2. Answered(c)
      BY <2>0 DEF Answered
    <3>3. ConnectIsFirst(c)
      <4>1. \A i \in 1..Len(b.out) : b.out[i].type # "CONNECT"
        BY DEF SlotOK, SlotBase, ConnectIsFirst
      <4> QED BY <1>1, <4>1 DEF ConnectIsFirst
    <3>4. SlotOK(c) /\ InUse(c)
      BY <1>1, <1>2, <1>3, <3>3 DEF SlotOK, SlotBase, CountsOnSocket, InUse
    <3> QED BY <1>1, <1>3, <3>1, <3>2, <3>4, SameOutOK
  <2>2. ASSUME c.state = "AwaitingConnect"
        PROVE  LET e == Established(c)
               IN  /\ e \in Client /\ OutOK(e) /\ Handled(c, e) /\ e.connack = "accepted"
                   /\ e.state = "Running" /\ SlotOK(e) /\ InUse(e)
    BY <1>1, <1>3, <2>0, <2>1, <2>2, EstablishedOut, EstablishedSound
  <2> DEFINE e == Established(c)
  <2>3. \/ d = c \/ d = HandleMqttError(c, ok)
        \/ c.state = "AwaitingConnect" /\ d \in {HandleMqttError(e, ok), SubscribeToAll(e, failed)}
    BY <1>1, <1>2, <1>5 DEF ConnectCallback, ConnackOutcomes, ExpectsConnack
  <2> HIDE DEF d, e
  <2>4. CASE d = c
    BY <1>3, <2>0, <2>1, <2>4
  <2>5. CASE d = HandleMqttError(c, ok)
    <3>1. OutOK(d) /\ Handled(c, d)
      BY <1>1, <2>0, <2>1, <2>5, ErrorOut
    <3> QED BY <1>3, <2>0, <3>1, HandledSteps
  <2>6. CASE c.state = "AwaitingConnect" /\ d \in {HandleMqttError(e, ok), SubscribeToAll(e, failed)}
    <3>1. /\ e \in Client /\ OutOK(e) /\ Handled(c, e) /\ e.connack = "accepted"
          /\ e.state = "Running" /\ SlotOK(e) /\ InUse(e)
      BY <2>2, <2>6 DEF e
    <3>2. OutOK(d) /\ Handled(e, d)
      BY <2>6, <3>1, ErrorOut, SubscribeOut
    <3>3. Handled(c, d)
      BY <3>1, <3>2, HandledSteps
    <3> QED BY <1>3, <2>0, <3>2, <3>3, HandledSteps
  <2> QED BY <2>3, <2>4, <2>5, <2>6
<1> QED
  BY <1>4, <1>5

LEMMA EnableClientOut ==
  ASSUME NEW c \in Client, NEW version \in Nat \ {INVALID}, NEW enable \in BOOLEAN,
         NEW ok \in BOOLEAN, SlotOK(c), OutOK(c)
  PROVE  LET d == MQTT_EnableClient(c, version, enable, ok)
         IN  OutOK(d) /\ Handled(c, d)
<1> DEFINE b == [c EXCEPT !.conn_params = version, !.next_params = version]
<1> DEFINE d == ResetRetryCount(b)
<1>1. /\ d \in Client /\ d.state = c.state /\ d.queue = c.queue
      /\ d.schedule_close = c.schedule_close /\ d.out = c.out /\ d.unacked = c.unacked
      /\ d.connack = c.connack /\ d.mosq = c.mosq /\ d.is_disconnected = c.is_disconnected
      /\ d.is_reconnect = c.is_reconnect
  BY DEF ResetRetryCount, Client
<1>2. CASE Busy(c)
  BY <1>2 DEF MQTT_EnableClient, Handled
<1>3. CASE ~Busy(c)
  <2>1. c.state \in {"Idle", "ErrorRetrying"}
    BY <1>3 DEF Busy, SlotOK, SlotBase
  <2>2. MQTT_EnableClient(c, version, enable, ok) =
           IF enable THEN EnableMqttClient(d, ok) ELSE d
    BY <1>3 DEF MQTT_EnableClient
  <2> HIDE DEF d
  <2>3. OutKept(c, d) /\ Answered(d) /\ DisconnectAsked(d)
    BY <1>1, <2>1 DEF OutKept, Answered, DisconnectAsked, OutOK, SockOpen
  <2>4. OutOK(d) /\ Sending(d) = Sending(c)
    BY <1>1, <2>3, SameOutOK
  <2>5. Handled(c, d)
    BY <1>1, <2>4 DEF Handled
  <2>6. LET e == EnableMqttClient(d, ok) IN OutOK(e) /\ Handled(d, e)
    BY <1>1, <2>1, EnableOut
  <2>7. LET e == EnableMqttClient(d, ok) IN Handled(c, e)
    BY <2>5, <2>6, HandledSteps
  <2> QED
    BY <2>2, <2>4, <2>5, <2>6, <2>7
<1> QED
  BY <1>2, <1>3

LEMMA RetryOut ==
  ASSUME NEW c \in Client, NEW ok \in BOOLEAN, OutOK(c), c.state = "ErrorRetrying"
  PROVE  LET h == RetryConnection(ReconnectNow(c), ok)
         IN  OutOK(h) /\ Handled(c, h)
<1> DEFINE r == ReconnectNow(c)
<1>1. r \in Client
  <2>1. UseNextParams(c) \in Client
    BY UseNextType
  <2> DEFINE u == UseNextParams(c)
  <2> HIDE DEF u
  <2>2. ResetRetryCount(u) \in Client
    BY <2>1 DEF ResetRetryCount, Client, u
  <2>3. [ResetRetryCount(u) EXCEPT !.retry_time = "due"] \in Client
    BY <2>2 DEF Client
  <2> QED BY <2>3 DEF ReconnectNow, u
<1>2. /\ r.state = c.state /\ r.queue = c.queue
      /\ r.schedule_close = c.schedule_close /\ r.out = c.out /\ r.unacked = c.unacked
      /\ r.connack = c.connack /\ r.mosq = c.mosq /\ r.is_disconnected = c.is_disconnected
  BY DEF ReconnectNow, ResetRetryCount, UseNextParams, Client
<1> HIDE DEF r
<1>3. OutKept(c, r) /\ Answered(r) /\ DisconnectAsked(r)
  BY <1>2 DEF OutKept, Answered, DisconnectAsked, OutOK, SockOpen
<1>4. OutOK(r) /\ Sending(r) = Sending(c)
  BY <1>1, <1>3, SameOutOK
<1>5. Handled(c, r)
  BY <1>2, <1>4 DEF Handled
<1>6. LET e == EnableMqttClient(r, ok) IN OutOK(e) /\ Handled(r, e)
  BY <1>1, <1>2, EnableOut
<1>7. SockOpen(r) => r.connack = "accepted"
  BY <1>2, <1>3 DEF Answered
<1>8. LET e == HandleMqttError(r, ok) IN OutOK(e) /\ Handled(r, e)
  BY <1>1, <1>4, <1>7, ErrorOut
<1>9. RetryConnection(r, ok) \in {HandleMqttError(r, ok), EnableMqttClient(r, ok), r}
  BY <1>1 DEF RetryConnection, Client
<1>10. LET h == RetryConnection(r, ok) IN OutOK(h) /\ Handled(c, h)
  BY <1>4, <1>5, <1>6, <1>8, <1>9, HandledSteps
<1> QED
  BY <1>10 DEF r

-----------------------------------------------------------------------------
(* The steps.  A step hands records over and loses them as Handled says,   *)
(* or it does one of four things to the first or the last of them.         *)

Carried(c, d) ==
    /\ d.queue \in {c.queue, <<>>}
    /\ d.queue # c.queue => c.schedule_close # "Off"
    /\ Sending(d) \in {Sending(c), <<>>}

PublishedHead(c, d) ==
    /\ c.queue # <<>> /\ d.queue = Tail(c.queue)
    /\ \E p \in Packet : p.rec = Head(c.queue) /\ d.out = Append(c.out, p)

WrittenHead(c, d) ==
    /\ d.queue = c.queue
    /\ \/ Sending(d) = <<>>
       \/ Sending(c) # <<>> /\ Sending(d) = Tail(Sending(c))

QueuedRecord(c, d) ==
    /\ d.out = c.out
    /\ \E r \in Responses \cup DisconnectRecords :
          ~InQueue(c, r) /\ d.queue = Append(c.queue, r)

QueuedConnect(c, d) ==
    /\ d.out = c.out
    /\ \E k \in Controllers : d.queue = <<ConnectRecord(k)>> \o ResponsesIn(c.queue)

RecordStep(c, d) ==
    \/ Carried(c, d) \/ PublishedHead(c, d) \/ WrittenHead(c, d)
    \/ QueuedRecord(c, d) \/ QueuedConnect(c, d)

StepOK == OutOK(client') /\ (RecordStep(client, client') \/ (pc = "destroy" /\ client' = InitClient))

LEMMA HandledIsStep ==
  ASSUME NEW c, NEW d, Handled(c, d)
  PROVE  RecordStep(c, d)
  BY DEF Handled, RecordStep, Carried

(* Only what the connection does not depend on has changed. *)
LEMMA BookkeepingOut ==
  ASSUME NEW c \in Client, NEW d \in Client, OutOK(c),
         d.out = c.out, d.unacked = c.unacked, d.connack = c.connack, d.mosq = c.mosq,
         d.is_disconnected = c.is_disconnected, d.state = c.state,
         d.is_reconnect = c.is_reconnect,
         c.schedule_close # "Off" => d.schedule_close # "Off"
  PROVE  /\ OutOK(d)
         /\ d.queue = c.queue => RecordStep(c, d)
<1>1. OutKept(c, d)
  BY DEF OutKept, OutOK, DisconnectUnderWay
<1>2. Answered(d) /\ DisconnectAsked(d)
  BY DEF Answered, DisconnectAsked, OutOK, SockOpen
<1>3. OutOK(d) /\ Sending(d) = Sending(c)
  BY <1>1, <1>2, SameOutOK
<1> QED
  BY <1>3 DEF RecordStep, Carried

(* The first packet has been written. *)
LEMMA TailOutOK ==
  ASSUME NEW c \in Client, NEW d \in Client, OutOK(c), SockOpen(c), c.out # <<>>,
         d.out = Tail(c.out), d.mosq = c.mosq, d.state = c.state,
         d.is_disconnected = c.is_disconnected, d.is_reconnect = c.is_reconnect,
         d.schedule_close = c.schedule_close, d.queue = c.queue,
         PublishesAccepted(d), Answered(d)
  PROVE  /\ OutOK(d) /\ RecordStep(c, d)
         /\ \/ Sending(d) = Sending(c)
            \/ Sending(c) # <<>> /\ Sending(d) = Tail(Sending(c))
<1>1. c.out \in Seq(Packet)
  BY DEF Client
<1>2. /\ Len(c.out) \in Nat \ {0} /\ Len(d.out) = Len(c.out) - 1
      /\ \A i \in 1..Len(d.out) : i + 1 \in 1..Len(c.out) /\ d.out[i] = c.out[i + 1]
  BY <1>1
<1>3. DisconnectLast(d)
  <2> SUFFICES ASSUME NEW i \in 1..Len(d.out), NEW j \in 1..Len(d.out), i < j
               PROVE  d.out[i] # DISCONNECT
    BY DEF DisconnectLast
  <2>1. /\ i + 1 \in 1..Len(c.out) /\ d.out[i] = c.out[i + 1]
        /\ j + 1 \in 1..Len(c.out) /\ i + 1 < j + 1
    BY <1>2
  <2> QED BY <2>1 DEF OutOK, DisconnectLast
<1>4. DisconnectUnderWay(d)
  BY <1>2 DEF DisconnectUnderWay, Disconnects, OutOK
<1>5. ConnectIsBare(d)
  BY <1>2 DEF ConnectIsBare, OutOK
<1>6. ClosedIsEmpty(d) /\ LossCloses(d) /\ DisconnectAsked(d)
  BY DEF ClosedIsEmpty, LossCloses, DisconnectAsked, OutOK, SockOpen
<1>7. OutOK(d)
  BY <1>3, <1>4, <1>5, <1>6 DEF OutOK
<1>8. \/ Sending(d) = Sending(c)
      \/ Sending(c) # <<>> /\ Sending(d) = Tail(Sending(c))
  BY <1>1, SendingTail DEF Sending
<1>9. RecordStep(c, d)
  BY <1>8 DEF RecordStep, Carried, WrittenHead
<1> QED
  BY <1>7, <1>8, <1>9

LEMMA InitClientOut == OutOK(InitClient)
<1>1. /\ InitClient.out = <<>> /\ InitClient.unacked = {} /\ InitClient.connack = "none"
      /\ InitClient.mosq = "null" /\ InitClient.state = "Idle"
  BY DEF InitClient
<1>2. NothingHeld(InitClient) /\ ~SockOpen(InitClient) /\ DisconnectAsked(InitClient)
  BY <1>1 DEF NothingHeld, SockOpen, DisconnectAsked
<1> QED
  BY <1>2, InitClientType, EmptyOutOK

LEMMA PublishHeadOut ==
  ASSUME NEW c \in Client, OutOK(c), c.state = "Running", c.queue # <<>>, CanPublish(c),
         NEW mid \in Nat
  PROVE  LET q == PublishHead(c, mid)
         IN  OutOK(q) /\ RecordStep(c, q)
<1> DEFINE p == [type |-> "PUBLISH", mid |-> mid, rec |-> Head(c.queue)]
<1> DEFINE q == PublishHead(c, mid)
<1>1. c.queue \in Seq(Records) /\ c.out \in Seq(Packet)
  BY DEF Client
<1>2. p \in Packet /\ p.type = "PUBLISH" /\ p.rec = Head(c.queue)
  <2>1. Head(c.queue) \in Records
    BY <1>1
  <2> QED BY <2>1 DEF Packet
<1>3. /\ q.out = Append(c.out, p) /\ q.queue = Tail(c.queue) /\ q.state = c.state
      /\ q.unacked = c.unacked /\ q.connack = c.connack /\ q.mosq = c.mosq
      /\ q.is_disconnected = c.is_disconnected
  BY DEF PublishHead, Client
<1> HIDE DEF p, q
<1>4. /\ Len(q.out) = Len(c.out) + 1 /\ Len(c.out) \in Nat /\ q.out[Len(c.out) + 1] = p
      /\ \A i \in 1..Len(c.out) : q.out[i] = c.out[i]
  BY <1>1, <1>2, <1>3
<1>5. c.connack = "accepted" /\ SockOpen(c)
  BY DEF OutOK, Answered, CanPublish
<1>6. \A i \in 1..Len(q.out) : (i \in 1..Len(c.out) /\ q.out[i] = c.out[i]) \/ q.out[i] = p
  BY <1>4
<1>7. p # DISCONNECT
  BY <1>2 DEF DISCONNECT
<1>8. \A i \in 1..Len(c.out) : c.out[i] # DISCONNECT
  BY DEF OutOK, DisconnectUnderWay, Disconnects
<1>9. \A i \in 1..Len(q.out) : q.out[i] # DISCONNECT
  BY <1>6, <1>7, <1>8
<1>10. DisconnectLast(q) /\ DisconnectUnderWay(q)
  BY <1>9 DEF DisconnectLast, DisconnectUnderWay, Disconnects
<1>11. ConnectIsBare(q)
  BY <1>2, <1>6 DEF ConnectIsBare, OutOK
<1>12. PublishesAccepted(q) /\ Answered(q) /\ ClosedIsEmpty(q)
  BY <1>3, <1>5 DEF PublishesAccepted, Answered, ClosedIsEmpty, SockOpen
<1>13. LossCloses(q) /\ DisconnectAsked(q)
  BY <1>3 DEF LossCloses, DisconnectAsked, OutOK, SockOpen
<1>14. OutOK(q)
  BY <1>10, <1>11, <1>12, <1>13 DEF OutOK
<1>15. RecordStep(c, q)
  BY <1>2, <1>3 DEF RecordStep, PublishedHead
<1> QED
  BY <1>14, <1>15 DEF q

LEMMA MtpThreadStep == IInv /\ OutInv /\ MtpThread => StepOK
<1> SUFFICES ASSUME IInv, OutInv, MtpThread PROVE StepOK
  OBVIOUS
<1>0. /\ client \in Client /\ SlotOK(client) /\ SlotBase(client) /\ OutOK(client)
      /\ pc \in Looping => InUse(client)
  BY DEF IInv, TypeOK, SlotOK, OutInv
<1>same. ASSUME client' = client PROVE StepOK
  <2>1. RecordStep(client, client)
    BY DEF RecordStep, Carried
  <2> QED BY <1>0, <1>same, <2>1 DEF StepOK
<1>1. CASE UpdateSend
  <2> DEFINE mid == CHOOSE m \in FreeMids(client) : TRUE
  <2>1. CASE CanPublish(client)
    <3>1. mid \in Nat
      BY <2>1, ConstantsAssumption DEF CanPublish, FreeMids
    <3>2. /\ client' = PublishHead(client, mid) /\ client.state = "Running"
          /\ client.queue # <<>>
      BY <1>1, <2>1 DEF UpdateSend
    <3> HIDE DEF mid
    <3>3. LET q == PublishHead(client, mid) IN OutOK(q) /\ RecordStep(client, q)
      BY <1>0, <2>1, <3>1, <3>2, PublishHeadOut
    <3> QED BY <3>2, <3>3 DEF StepOK
  <2>2. CASE ~CanPublish(client)
    BY <1>1, <1>same, <2>2 DEF UpdateSend
  <2> QED BY <2>1, <2>2
<1>2. CASE UpdateNothing \/ ProcessUnused \/ ProcessConnected \/ ConnectStarts
           \/ ReadMessage \/ LoopReturns \/ ExitCheck
  BY <1>2, <1>same DEF UpdateNothing, ProcessUnused, ProcessConnected, ConnectStarts,
                       ReadMessage, LoopReturns, ExitCheck
<1>3. ASSUME NEW b \in BOOLEAN, ConnectSetupFails(b) PROVE StepOK
  <2> DEFINE h == HandleMqttError(client, TRUE)
  <2>1. /\ InUse(client) /\ client.state = "SendingConnect"
        /\ client' = IF b THEN HandleMqttError(h, TRUE) ELSE h
    BY <1>3 DEF ConnectSetupFails
  <2>2. ~SockOpen(client) /\ ~Reconnecting(client)
    BY <1>0, <2>1 DEF SlotBase, SockOpen, Reconnecting
  <2>3. h \in Client /\ h.state = "ErrorRetrying"
    BY <1>0, <2>2, ErrorFields
  <2>4. OutOK(h) /\ Handled(client, h)
    BY <1>0, <2>2, ErrorOut
  <2> HIDE DEF h
  <2>5. SockOpen(h) => h.connack = "accepted"
    BY <2>3, <2>4 DEF OutOK, Answered
  <2>6. LET g == HandleMqttError(h, TRUE) IN OutOK(g) /\ Handled(h, g)
    BY <2>3, <2>4, <2>5, ErrorOut
  <2>7. OutOK(client') /\ Handled(client, client')
    BY <2>1, <2>4, <2>6, HandledSteps
  <2> QED BY <2>7, HandledIsStep DEF StepOK
<1>4. ASSUME NEW b \in BOOLEAN, ConnectReturns(b) PROVE StepOK
  <2> DEFINE o == [client EXCEPT !.mosq = "open", !.out = <<CONNECT>>,
                                 !.state = "AwaitingConnect"]
  <2>1. /\ client' = IF b THEN o ELSE HandleMqttError(client, TRUE)
        /\ client.state = "SendingConnect" /\ ~client.is_disconnected
    BY <1>4 DEF ConnectReturns, IInv, Looping
  <2>2. ~SockOpen(client)
    BY <1>0, <2>1 DEF SlotBase, SockOpen
  <2>3. CASE ~b
    <3>1. OutOK(client') /\ Handled(client, client')
      BY <1>0, <2>1, <2>2, <2>3, ErrorOut
    <3> QED BY <3>1, HandledIsStep DEF StepOK
  <2>4. CASE b
    <3>1. /\ o.mosq = "open" /\ o.out = <<CONNECT>> /\ o.state = "AwaitingConnect"
          /\ o.queue = client.queue /\ o.unacked = client.unacked
          /\ o.connack = client.connack /\ o.is_disconnected = client.is_disconnected
      BY <1>0 DEF Client
    <3>2. client' = o
      BY <2>1, <2>4
    <3> HIDE DEF o
    <3>3. o.unacked = {} /\ o.connack = "none" /\ ~o.is_disconnected
      BY <1>0, <2>1, <2>2, <3>1 DEF OutOK, ClosedIsEmpty, NothingHeld
    <3>4. /\ CONNECT # DISCONNECT /\ CONNECT.rec = NoRecord /\ CONNECT.type = "CONNECT"
          /\ Len(o.out) = 1 /\ o.out[1] = CONNECT /\ CONNECT \in Packet
      BY <3>1, DisconnectPacket DEF CONNECT, DISCONNECT
    <3>5. \A i \in 1..Len(o.out) : i = 1 /\ o.out[i] = CONNECT
      BY <3>4
    <3>6. DisconnectLast(o) /\ DisconnectUnderWay(o) /\ ConnectIsBare(o)
      BY <3>4, <3>5 DEF DisconnectLast, DisconnectUnderWay, Disconnects, ConnectIsBare
    <3>7. PublishesAccepted(o)
      BY <3>3, <3>4, <3>5 DEF PublishesAccepted, Publishes
    <3>8. ClosedIsEmpty(o) /\ LossCloses(o) /\ Answered(o) /\ DisconnectAsked(o)
      BY <3>1, <3>3 DEF ClosedIsEmpty, LossCloses, Answered, DisconnectAsked, SockOpen
    <3>9. OutOK(o)
      BY <3>6, <3>7, <3>8 DEF OutOK
    <3>10. Sending(o) = <<>>
      <4>1. o.out = Append(<<>>, CONNECT) /\ <<>> \in Seq(Packet)
        BY <3>1
      <4>2. ResponsesIn(RecordsOf(<<>>)) = <<>>
        BY ResponsesInEmpty DEF RecordsOf
      <4> QED BY <3>4, <4>1, <4>2, SendingAppend, NoRecordAssumption DEF Sending
    <3>11. RecordStep(client, o)
      BY <3>1, <3>10 DEF RecordStep, Carried
    <3> QED BY <3>2, <3>9, <3>11 DEF StepOK
  <2> QED BY <2>3, <2>4
<1>5. CASE WriteConnect
  <2> DEFINE d == [Written(client) EXCEPT !.connack = "awaited"]
  <2>1. /\ client' = d /\ SockOpen(client) /\ client.out # <<>>
        /\ Head(client.out).type = "CONNECT"
    BY <1>5 DEF WriteConnect, Writing
  <2>2. client.out \in Seq(Packet)
    BY <1>0 DEF Client
  <2>3. Tail(client.out) \in Seq(Packet)
    BY <2>1, <2>2
  <2>4. Written(client) \in Client
    BY <1>0, <2>3 DEF Written, Client
  <2>5. d \in Client
    BY <2>4 DEF Client
  <2>6. /\ d.out = Tail(client.out) /\ d.mosq = client.mosq /\ d.state = client.state
        /\ d.is_disconnected = client.is_disconnected /\ d.is_reconnect = client.is_reconnect
        /\ d.schedule_close = client.schedule_close /\ d.queue = client.queue
        /\ d.unacked = client.unacked
    BY <1>0 DEF Written, Client
  <2> HIDE DEF d
  <2>7. client.connack = "none"
    <3>1. 1 \in 1..Len(client.out) /\ client.out[1].type = "CONNECT"
      BY <2>1, <2>2
    <3> QED BY <1>0, <3>1 DEF SlotBase, ConnectIsFirst
  <2>8. ~Publishes(client)
    BY <1>0, <2>7 DEF OutOK, PublishesAccepted
  <2>9. Answered(d)
    BY <1>0, <2>1, <2>6, <2>7 DEF OutOK, Answered, SockOpen
  <2>10. PublishesAccepted(d)
    <3>1. \A i \in 1..Len(d.out) : i + 1 \in 1..Len(client.out) /\ d.out[i] = client.out[i + 1]
      BY <2>1, <2>2, <2>6
    <3> QED BY <2>6, <2>8, <3>1 DEF PublishesAccepted, Publishes
  <2>11. OutOK(d) /\ RecordStep(client, d)
    BY <1>0, <2>1, <2>5, <2>6, <2>9, <2>10, TailOutOK
  <2> QED BY <2>1, <2>11 DEF StepOK
<1>6. ASSUME NEW ok \in NewOutcomes, NEW qos \in PublishQos, WritePublish(qos, ok) PROVE StepOK
  <2> DEFINE p == Head(client.out)
  <2> DEFINE w == Written(client)
  <2> DEFINE a == [w EXCEPT !.unacked = client.unacked \cup {p}]
  <2>1. /\ SockOpen(client) /\ client.out # <<>> /\ p.type = "PUBLISH"
        /\ client' = IF qos = 0 THEN PublishCallback(w, p.mid, ok) ELSE a
    BY <1>6 DEF WritePublish, Writing
  <2>2. client.out \in Seq(Packet) /\ client.unacked \in SUBSET Packet
    BY <1>0 DEF Client
  <2>3. Tail(client.out) \in Seq(Packet) /\ p \in Packet
    BY <2>1, <2>2
  <2>4. w \in Client
    BY <1>0, <2>3 DEF Written, Client
  <2>5. /\ w.out = Tail(client.out) /\ w.mosq = client.mosq /\ w.state = client.state
        /\ w.is_disconnected = client.is_disconnected /\ w.is_reconnect = client.is_reconnect
        /\ w.schedule_close = client.schedule_close /\ w.queue = client.queue
        /\ w.unacked = client.unacked /\ w.connack = client.connack
    BY <1>0 DEF Written, Client
  <2>6. client.connack = "accepted"
    <3>1. 1 \in 1..Len(client.out) /\ client.out[1] = p
      BY <2>1, <2>2
    <3> QED BY <1>0, <2>1, <3>1 DEF OutOK, PublishesAccepted, Publishes
  <2> HIDE DEF w
  <2>7. CASE qos # 0
    <3>1. client.unacked \cup {p} \in SUBSET Packet
      BY <2>2, <2>3
    <3> HIDE DEF p
    <3>2. /\ a \in Client
          /\ a.out = w.out /\ a.mosq = w.mosq /\ a.state = w.state
          /\ a.is_disconnected = w.is_disconnected /\ a.is_reconnect = w.is_reconnect
          /\ a.schedule_close = w.schedule_close /\ a.queue = w.queue
          /\ a.connack = w.connack
      BY <2>4, <3>1 DEF Client
    <3>3. client' = a
      BY <2>1, <2>7
    <3> HIDE DEF a
    <3>4. PublishesAccepted(a) /\ Answered(a)
      BY <2>5, <2>6, <3>2 DEF PublishesAccepted, Answered
    <3>5. OutOK(a) /\ RecordStep(client, a)
      BY <1>0, <2>1, <2>5, <3>2, <3>4, TailOutOK
    <3> QED BY <3>3, <3>5 DEF StepOK
  <2>8. CASE qos = 0
    <3>1. PublishesAccepted(w) /\ Answered(w)
      BY <2>5, <2>6 DEF PublishesAccepted, Answered
    <3>2. /\ OutOK(w) /\ RecordStep(client, w)
          /\ \/ Sending(w) = Sending(client)
             \/ Sending(client) # <<>> /\ Sending(w) = Tail(Sending(client))
      BY <1>0, <2>1, <2>4, <2>5, <3>1, TailOutOK
    <3> DEFINE h == HandleMqttError(w, ok)
    <3>3. OutOK(h) /\ Handled(w, h) /\ h.queue = w.queue
      BY <2>4, <2>5, <2>6, <3>2, ErrorOut, NewOutcomesType
    <3>4. client' \in {w, h}
      BY <2>1, <2>8 DEF PublishCallback
    <3> HIDE DEF h
    <3>5. RecordStep(client, h)
      BY <2>5, <3>2, <3>3 DEF RecordStep, Carried, WrittenHead, Handled
    <3> QED BY <3>2, <3>3, <3>4, <3>5 DEF StepOK
  <2> QED BY <2>7, <2>8
<1>7. CASE WriteDisconnect \/ ConnectionLost \/ KeepaliveTimeout
  <2>1. client' = SocketClosed(client)
    BY <1>7 DEF WriteDisconnect, ConnectionLost, KeepaliveTimeout
  <2>2. OutOK(client') /\ Handled(client, client')
    BY <1>0, <2>1, SocketClosedOut DEF OutOK
  <2> QED BY <2>2, HandledIsStep DEF StepOK
<1>8. ASSUME NEW ok \in NewOutcomes, NEW p \in client.unacked, ReadPuback(p, ok) PROVE StepOK
  <2> DEFINE a == [client EXCEPT !.unacked = client.unacked \ {p}]
  <2> DEFINE h == HandleMqttError(a, ok)
  <2>1. client' = PublishCallback(a, p.mid, ok) /\ SockOpen(client)
    BY <1>8 DEF ReadPuback
  <2>2. client.unacked \ {p} \in SUBSET Packet
    BY <1>0 DEF Client
  <2>3. /\ a \in Client /\ a.unacked \subseteq client.unacked
        /\ a.out = client.out /\ a.mosq = client.mosq /\ a.state = client.state
        /\ a.is_disconnected = client.is_disconnected /\ a.is_reconnect = client.is_reconnect
        /\ a.schedule_close = client.schedule_close /\ a.queue = client.queue
        /\ a.connack = client.connack
    BY <1>0, <2>2 DEF Client
  <2>4. client' \in {a, h}
    BY <2>1 DEF PublishCallback
  <2> HIDE DEF a
  <2>5. client.connack = "accepted"
    BY <1>0 DEF OutOK, PublishesAccepted, Publishes
  <2>6. OutKept(client, a)
    BY <1>0, <2>3 DEF OutKept, OutOK, DisconnectUnderWay
  <2>7. Answered(a) /\ DisconnectAsked(a)
    BY <1>0, <2>3, <2>5 DEF Answered, DisconnectAsked, OutOK
  <2>8. OutOK(a) /\ Sending(a) = Sending(client)
    BY <1>0, <2>3, <2>6, <2>7, SameOutOK
  <2>9. Handled(client, a)
    BY <2>3, <2>8 DEF Handled
  <2>10. OutOK(h) /\ Handled(a, h)
    BY <2>3, <2>5, <2>8, ErrorOut, NewOutcomesType
  <2> HIDE DEF h
  <2>11. OutOK(client') /\ Handled(client, client')
    BY <2>4, <2>8, <2>9, <2>10, HandledSteps
  <2> QED BY <2>11, HandledIsStep DEF StepOK
<1>9. ASSUME NEW ok \in NewOutcomes, NEW outcome \in ConnackOutcomes,
             NEW failed \in 0..MaxFailedSubs, ReadConnack(outcome, failed, ok)
      PROVE  StepOK
  <2> DEFINE c == [client EXCEPT !.connack = IF outcome = "refused" THEN "none" ELSE "accepted"]
  <2> DEFINE d == ConnectCallback(c, outcome, failed, ok)
  <2> DEFINE h == IF outcome = "refused" /\ SockOpen(d) THEN SocketClosed(d) ELSE d
  <2>1. /\ client' = h /\ SockOpen(client) /\ client.connack = "awaited" /\ pc = "read"
    BY <1>9 DEF ReadConnack
  <2>2. InUse(client) /\ failed \in Nat /\ ok \in BOOLEAN
    BY <1>0, <2>1, NewOutcomesType, ConstantsAssumption DEF Looping
  <2>3. OutOK(h) /\ Handled(client, h)
    BY <1>0, <2>1, <2>2, ConnackOut
  <2> HIDE DEF h
  <2> QED BY <2>1, <2>3, HandledIsStep DEF StepOK
<1>10. ASSUME NEW ok \in NewOutcomes, UpdateRetry(ok) PROVE StepOK
  <2> DEFINE h == RetryConnection(ReconnectNow(client), ok)
  <2>1. client' = h /\ client.state = "ErrorRetrying"
    BY <1>10 DEF UpdateRetry
  <2>2. OutOK(h) /\ Handled(client, h)
    BY <1>0, <2>1, RetryOut, NewOutcomesType
  <2> HIDE DEF h
  <2> QED BY <2>1, <2>2, HandledIsStep DEF StepOK
<1>11. ASSUME NEW ok \in NewOutcomes, NEW ok2 \in NewOutcomes, ProcessScheduled(ok, ok2)
       PROVE  StepOK
  <2> DEFINE h == HandleScheduled(client, ok, ok2)
  <2>1. /\ client' = h /\ InUse(client)
        /\ client.state = "SendingConnect" => client.schedule_reconnect = "Off"
    BY <1>11 DEF ProcessScheduled, IInv, Looping
  <2>2. OutOK(h) /\ Handled(client, h)
    BY <1>0, <2>1, ScheduledOut, NewOutcomesType
  <2> HIDE DEF h
  <2> QED BY <2>1, <2>2, HandledIsStep DEF StepOK
<1>12. CASE Destroy
  BY <1>12, InitClientOut DEF Destroy, StepOK
<1> QED
  BY <1>1, <1>2, <1>3, <1>4, <1>5, <1>6, <1>7, <1>8, <1>9, <1>10, <1>11, <1>12 DEF MtpThread

LEMMA DmThreadStep == IInv /\ OutInv /\ DmThread => StepOK
<1> SUFFICES ASSUME IInv, OutInv, DmThread PROVE StepOK
  OBVIOUS
<1>0. /\ client \in Client /\ SlotOK(client) /\ OutOK(client)
      /\ dm_version \in Nat \ {INVALID}
  BY DEF IInv, TypeOK, OutInv
<1>same. ASSUME client' = client PROVE StepOK
  <2>1. RecordStep(client, client)
    BY DEF RecordStep, Carried
  <2> QED BY <1>0, <1>same, <2>1 DEF StepOK
<1>1. ASSUME NEW ok \in NewOutcomes, NEW enable \in BOOLEAN,
             client' = MQTT_EnableClient(client, dm_version, enable, ok)
      PROVE  StepOK
  <2>1. ok \in BOOLEAN
    BY NewOutcomesType
  <2>2. LET d == MQTT_EnableClient(client, dm_version, enable, ok)
        IN  OutOK(d) /\ Handled(client, d)
    BY <1>0, <2>1, EnableClientOut
  <2> QED BY <1>1, <2>2, HandledIsStep DEF StepOK
<1>2. CASE EnableCleared \/ ClientDeleted
  <2> DEFINE d == [client EXCEPT !.schedule_close = "Signalled"]
  <2>1. client' \in {client, d}
    BY <1>2 DEF EnableCleared, ClientDeleted, MQTT_DisableClient
  <2>2. /\ d \in Client /\ d.out = client.out /\ d.unacked = client.unacked
        /\ d.connack = client.connack /\ d.mosq = client.mosq
        /\ d.is_disconnected = client.is_disconnected /\ d.state = client.state
        /\ d.is_reconnect = client.is_reconnect /\ d.queue = client.queue
        /\ d.schedule_close = "Signalled"
    BY <1>0 DEF Client, Scheduled
  <2> HIDE DEF d
  <2>3. OutOK(d) /\ RecordStep(client, d)
    BY <1>0, <2>2, BookkeepingOut
  <2> QED BY <1>same, <2>1, <2>3 DEF StepOK
<1>3. CASE ParameterSet
  <2> DEFINE d == [client EXCEPT !.next_params = dm_version + 1,
                                 !.schedule_reconnect = "Signalled"]
  <2>1. client' \in {client, d}
    BY <1>3 DEF ParameterSet, MQTT_ScheduleReconnect
  <2>4. dm_version + 1 \in Nat
    BY <1>0
  <2>2. /\ d \in Client /\ d.out = client.out /\ d.unacked = client.unacked
        /\ d.connack = client.connack /\ d.mosq = client.mosq
        /\ d.is_disconnected = client.is_disconnected /\ d.state = client.state
        /\ d.is_reconnect = client.is_reconnect /\ d.queue = client.queue
        /\ d.schedule_close = client.schedule_close
    BY <1>0, <2>4 DEF Client, Scheduled
  <2> HIDE DEF d
  <2>3. OutOK(d) /\ RecordStep(client, d)
    BY <1>0, <2>2, BookkeepingOut
  <2> QED BY <1>same, <2>1, <2>3 DEF StepOK
<1>4. CASE ScheduleExit \/ RecordAccepted \/ HandshakeComplete
  BY <1>4, <1>same DEF ScheduleExit, RecordAccepted, HandshakeComplete
<1>5. CASE ActivateScheduledActions
  <2> DEFINE d == [client EXCEPT !.schedule_reconnect = Activate(client.schedule_reconnect),
                                 !.schedule_close = Activate(client.schedule_close)]
  <2>1. client' = d
    BY <1>5 DEF ActivateScheduledActions
  <2>2. \A s \in Scheduled : Activate(s) \in Scheduled /\ (s # "Off" => Activate(s) # "Off")
    BY DEF Activate, Scheduled
  <2>3. client.schedule_reconnect \in Scheduled /\ client.schedule_close \in Scheduled
    BY <1>0 DEF Client
  <2>4. /\ Activate(client.schedule_reconnect) \in Scheduled
        /\ Activate(client.schedule_close) \in Scheduled
        /\ client.schedule_close # "Off" => Activate(client.schedule_close) # "Off"
    BY <2>2, <2>3
  <2>5. /\ d \in Client /\ d.out = client.out /\ d.unacked = client.unacked
        /\ d.connack = client.connack /\ d.mosq = client.mosq
        /\ d.is_disconnected = client.is_disconnected /\ d.state = client.state
        /\ d.is_reconnect = client.is_reconnect /\ d.queue = client.queue
        /\ d.schedule_close = Activate(client.schedule_close)
    BY <1>0, <2>4 DEF Client
  <2> HIDE DEF d
  <2>6. OutOK(d) /\ RecordStep(client, d)
    BY <1>0, <2>4, <2>5, BookkeepingOut
  <2> QED BY <2>1, <2>6 DEF StepOK
<1>6. ASSUME NEW q \in Seq(Records), client' = [client EXCEPT !.queue = q]
      PROVE  OutOK(client') /\ client'.out = client.out /\ client'.queue = q
  <2> DEFINE d == [client EXCEPT !.queue = q]
  <2>1. /\ d \in Client /\ d.out = client.out /\ d.unacked = client.unacked
        /\ d.connack = client.connack /\ d.mosq = client.mosq
        /\ d.is_disconnected = client.is_disconnected /\ d.state = client.state
        /\ d.is_reconnect = client.is_reconnect /\ d.queue = q
        /\ d.schedule_close = client.schedule_close
    BY <1>0 DEF Client
  <2>2. client' = d
    BY <1>6
  <2> HIDE DEF d
  <2>3. OutOK(d)
    BY <1>0, <2>1, BookkeepingOut
  <2> QED BY <2>1, <2>2, <2>3
<1>7. client.queue \in Seq(Records)
  BY <1>0 DEF Client
<1>8. ASSUME NEW r \in Responses \cup DisconnectRecords, client' = QueueRecord(client, r)
      PROVE  StepOK
  <2>1. CASE InUse(client) /\ ~InQueue(client, r)
    <3>1. client' = [client EXCEPT !.queue = Append(client.queue, r)]
      BY <1>8, <2>1 DEF QueueRecord
    <3>2. Append(client.queue, r) \in Seq(Records)
      BY <1>7 DEF Records
    <3>3. /\ OutOK(client') /\ client'.out = client.out
          /\ client'.queue = Append(client.queue, r)
      BY <1>6, <3>1, <3>2
    <3> QED BY <2>1, <3>3 DEF StepOK, RecordStep, QueuedRecord
  <2>2. CASE ~(InUse(client) /\ ~InQueue(client, r))
    BY <1>8, <1>same, <2>2 DEF QueueRecord
  <2> QED BY <2>1, <2>2
<1>9. ASSUME NEW k \in Controllers, QueueConnectRecord(k) PROVE StepOK
  <2> DEFINE q == <<ConnectRecord(k)>> \o ResponsesIn(client.queue)
  <2>1. CASE ~InUse(client)
    BY <1>9, <1>same, <2>1 DEF QueueConnectRecord
  <2>2. CASE InUse(client)
    <3>1. client' = [client EXCEPT !.queue = q]
      BY <1>9, <2>2 DEF QueueConnectRecord
    <3>2. ResponsesIn(client.queue) \in Seq(Records) /\ ConnectRecord(k) \in Records
      <4>1. client.queue \in Seq(Entries)
        BY <1>7 DEF Entries
      <4>2. ResponsesIn(client.queue) \in Seq(Responses)
        BY <4>1, ResponsesInType
      <4> QED BY <4>2 DEF Records, ConnectRecords
    <3>3. q \in Seq(Records)
      BY <3>2
    <3>4. OutOK(client') /\ client'.out = client.out /\ client'.queue = q
      <4> HIDE DEF q
      <4> QED BY <1>6, <3>1, <3>3
    <3> QED BY <3>4 DEF StepOK, RecordStep, QueuedConnect
  <2> QED BY <2>1, <2>2
<1>10. ASSUME NEW enable \in BOOLEAN, NEW ok \in NewOutcomes, ClientAdded(enable, ok)
       PROVE  StepOK
  BY <1>1, <1>10 DEF ClientAdded
<1>11. ASSUME NEW ok \in NewOutcomes, EnableSet(ok) PROVE StepOK
  BY <1>1, <1>11 DEF EnableSet
<1>12. ASSUME NEW r \in Responses, QueueResponse(r) PROVE StepOK
  BY <1>8, <1>12 DEF QueueResponse
<1>13. ASSUME NEW r \in DisconnectRecords, RecordRefused(r) PROVE StepOK
  BY <1>8, <1>13 DEF RecordRefused
<1> QED
  BY <1>2, <1>3, <1>4, <1>5, <1>9, <1>10, <1>11, <1>12, <1>13 DEF DmThread

LEMMA NextStep == IInv /\ OutInv /\ [Next]_vars => OutInv' /\ StepOK
<1> SUFFICES ASSUME IInv, OutInv, [Next]_vars PROVE StepOK
  BY DEF StepOK, OutInv
<1>0. client \in Client /\ OutOK(client)
  BY DEF IInv, TypeOK, OutInv
<1>1. CASE MtpThread
  BY <1>1, MtpThreadStep
<1>2. CASE DmThread
  BY <1>2, DmThreadStep
<1>3. CASE RetryTimeReached
  <2> DEFINE d == [client EXCEPT !.retry_time = "due"]
  <2>1. client' = d
    BY <1>3 DEF RetryTimeReached
  <2>2. /\ d \in Client /\ d.out = client.out /\ d.unacked = client.unacked
        /\ d.connack = client.connack /\ d.mosq = client.mosq
        /\ d.is_disconnected = client.is_disconnected /\ d.state = client.state
        /\ d.is_reconnect = client.is_reconnect /\ d.queue = client.queue
        /\ d.schedule_close = client.schedule_close
    BY <1>0 DEF Client
  <2> HIDE DEF d
  <2>3. OutOK(d) /\ RecordStep(client, d)
    BY <1>0, <2>2, BookkeepingOut
  <2> QED BY <2>1, <2>3 DEF StepOK
<1>4. CASE Crash \/ Stopped \/ UNCHANGED vars
  <2>1. client' = client
    BY <1>4 DEF Crash, Stopped, vars
  <2>2. RecordStep(client, client)
    BY DEF RecordStep, Carried
  <2> QED BY <1>0, <2>1, <2>2 DEF StepOK
<1> QED
  BY <1>1, <1>2, <1>3, <1>4 DEF Next

-----------------------------------------------------------------------------
(* The order of the queue. *)

LEMMA QueueOrderStep ==
  ASSUME IInv, ConnectRecordFirst, StepOK
  PROVE  ConnectRecordFirst'
<1> DEFINE q == client.queue
<1> DEFINE p == client'.queue
<1>0. q \in Seq(Records) /\ q \in Seq(Entries)
  BY DEF IInv, TypeOK, Client, Entries
<1>1. \A i, j \in 1..Len(q) : i < j => q[i] # q[j] /\ q[j] \notin ConnectRecords
  BY DEF ConnectRecordFirst
<1> SUFFICES \A i, j \in 1..Len(p) : i < j => p[i] # p[j] /\ p[j] \notin ConnectRecords
  BY DEF ConnectRecordFirst
<1>2. CASE p = <<>>
  BY <1>2
<1>3. CASE p = q
  BY <1>1, <1>3
<1>4. CASE PublishedHead(client, client')
  <2>1. q # <<>> /\ p = Tail(q)
    BY <1>4 DEF PublishedHead
  <2>2. /\ Len(q) \in Nat /\ Len(p) = Len(q) - 1
        /\ \A i \in 1..Len(p) : i + 1 \in 1..Len(q) /\ p[i] = q[i + 1]
    BY <1>0, <2>1
  <2> HIDE DEF p, q
  <2> SUFFICES ASSUME NEW i \in 1..Len(p), NEW j \in 1..Len(p), i < j
               PROVE  p[i] # p[j] /\ p[j] \notin ConnectRecords
    OBVIOUS
  <2>3. /\ i + 1 \in 1..Len(q) /\ j + 1 \in 1..Len(q) /\ i + 1 < j + 1
        /\ p[i] = q[i + 1] /\ p[j] = q[j + 1]
    BY <2>2
  <2> QED BY <1>1, <2>3
<1>5. CASE QueuedRecord(client, client')
  <2>1. PICK r \in Responses \cup DisconnectRecords : ~InQueue(client, r) /\ p = Append(q, r)
    BY <1>5 DEF QueuedRecord
  <2>2. r \notin ConnectRecords /\ \A i \in 1..Len(q) : q[i] # r
    BY <2>1, ConstantsAssumption DEF InQueue
  <2>3. /\ Len(q) \in Nat /\ Len(p) = Len(q) + 1 /\ p[Len(q) + 1] = r
        /\ \A i \in 1..Len(q) : p[i] = q[i]
    BY <1>0, <2>1
  <2> HIDE DEF p, q
  <2> SUFFICES ASSUME NEW i \in 1..Len(p), NEW j \in 1..Len(p), i < j
               PROVE  p[i] # p[j] /\ p[j] \notin ConnectRecords
    OBVIOUS
  <2>4. i \in 1..Len(q) /\ p[i] = q[i]
    BY <2>3
  <2>5. CASE j \in 1..Len(q)
    BY <1>1, <2>3, <2>4, <2>5
  <2>6. CASE j = Len(q) + 1
    BY <2>2, <2>3, <2>4, <2>6
  <2> QED BY <2>3, <2>5, <2>6
<1>6. CASE QueuedConnect(client, client')
  <2> DEFINE t == ResponsesIn(q)
  <2>1. PICK k \in Controllers : p = <<ConnectRecord(k)>> \o t
    BY <1>6 DEF QueuedConnect
  <2>2. ConnectRecord(k) \in ConnectRecords
    BY DEF ConnectRecords
  <2>3. t \in Seq(Responses)
    BY <1>0, ResponsesInType
  <2>4. \A i, j \in 1..Len(t) : i < j => t[i] # t[j]
    BY <1>0, <1>1, ResponsesInDistinct
  <2> HIDE DEF p, q, t
  <2>5. \A i \in 1..Len(t) : t[i] \in Responses /\ t[i] \notin ConnectRecords
    BY <2>3, ConstantsAssumption
  <2>6. /\ Len(t) \in Nat /\ Len(p) = Len(t) + 1 /\ p[1] = ConnectRecord(k)
        /\ \A i \in 1..Len(p) : i # 1 => i - 1 \in 1..Len(t) /\ p[i] = t[i - 1]
    BY <2>1, <2>3
  <2> SUFFICES ASSUME NEW i \in 1..Len(p), NEW j \in 1..Len(p), i < j
               PROVE  p[i] # p[j] /\ p[j] \notin ConnectRecords
    OBVIOUS
  <2>7. j # 1 /\ j - 1 \in 1..Len(t) /\ p[j] = t[j - 1] /\ t[j - 1] \notin ConnectRecords
    BY <2>5, <2>6
  <2>8. CASE i = 1
    BY <2>2, <2>6, <2>7, <2>8
  <2>9. CASE i # 1
    <3>1. i - 1 \in 1..Len(t) /\ p[i] = t[i - 1] /\ i - 1 < j - 1
      BY <2>6, <2>9
    <3> QED BY <2>4, <2>7, <3>1
  <2> QED BY <2>8, <2>9
<1> QED
  BY <1>2, <1>3, <1>4, <1>5, <1>6 DEF StepOK, RecordStep, Carried, WrittenHead, InitClient

-----------------------------------------------------------------------------
(* The theorems. *)

ChannelInv == IInv /\ OutInv /\ ConnectRecordFirst

LEMMA ChannelInit == Init => ChannelInv
<1> SUFFICES ASSUME Init PROVE ChannelInv
  OBVIOUS
<1>1. IInv
  BY InitInv
<1>2. OutInv
  BY InitClientOut DEF Init, OutInv
<1>3. client.queue = <<>>
  BY DEF Init, InitClient
<1>4. ConnectRecordFirst
  BY <1>3 DEF ConnectRecordFirst
<1> QED
  BY <1>1, <1>2, <1>4 DEF ChannelInv

LEMMA ChannelNext == ChannelInv /\ [Next]_vars => ChannelInv' /\ StepOK
<1> SUFFICES ASSUME ChannelInv, [Next]_vars PROVE ChannelInv' /\ StepOK
  OBVIOUS
<1>1. IInv'
  BY StepInv DEF ChannelInv
<1>2. OutInv' /\ StepOK
  BY NextStep DEF ChannelInv
<1>3. ConnectRecordFirst'
  BY <1>2, QueueOrderStep DEF ChannelInv
<1> QED
  BY <1>1, <1>2, <1>3 DEF ChannelInv

(* IInv, and what the packets and the records of a slot satisfy, hold of   *)
(* every behaviour.                                                        *)
THEOREM ChannelInvariance == Spec => []ChannelInv
  BY ChannelInit, ChannelNext, PTL DEF Spec

(* Nothing is published behind a DISCONNECT (DisconnectClient,             *)
(* MQTT_UpdateAllSockSet).                                                 *)
THEOREM DisconnectIsLast == Spec => []NothingBehindDisconnect
<1>1. ChannelInv => NothingBehindDisconnect
  BY DEF ChannelInv, OutInv, OutOK, DisconnectLast, NothingBehindDisconnect
<1> QED
  BY <1>1, ChannelInvariance, PTL

(* The queue holds no record twice, and a connect record only at its head  *)
(* (QueueUspConnectRecord_MQTT, IsUspRecordInMqttQueue).                   *)
THEOREM ConnectRecordIsFirst == Spec => []ConnectRecordFirst
<1>1. ChannelInv => ConnectRecordFirst
  BY DEF ChannelInv
<1> QED
  BY <1>1, ChannelInvariance, PTL

LEMMA PurgeStep ==
  ASSUME ChannelInv, StepOK, client.queue # <<>>, client'.queue = <<>>, client'.out = client.out
  PROVE  client.schedule_close # "Off" \/ pc = "destroy"
<1>1. client.queue \in Seq(Records) /\ client.out \in Seq(Packet) /\ client.queue \in Seq(Entries)
  BY DEF ChannelInv, IInv, TypeOK, Client, Entries
<1>2. ASSUME PublishedHead(client, client') PROVE FALSE
  <2>1. PICK p \in Packet : client'.out = Append(client.out, p)
    BY <1>2 DEF PublishedHead
  <2>2. Len(Append(client.out, p)) = Len(client.out) + 1 /\ Len(client.out) \in Nat
    BY <1>1
  <2> QED BY <2>1, <2>2
<1>3. ASSUME QueuedRecord(client, client') PROVE FALSE
  <2>1. PICK r \in Records : client'.queue = Append(client.queue, r)
    BY <1>3 DEF QueuedRecord, Records
  <2>2. Len(Append(client.queue, r)) = Len(client.queue) + 1 /\ Len(client.queue) \in Nat
    BY <1>1
  <2> QED BY <2>1, <2>2
<1>4. ASSUME QueuedConnect(client, client') PROVE FALSE
  <2> DEFINE t == ResponsesIn(client.queue)
  <2>1. PICK k \in Controllers : client'.queue = <<ConnectRecord(k)>> \o t
    BY <1>4 DEF QueuedConnect
  <2>2. t \in Seq(Entries)
    BY <1>1, ResponsesSelected
  <2> HIDE DEF t
  <2>3. Len(<<ConnectRecord(k)>> \o t) = 1 + Len(t) /\ Len(t) \in Nat
    BY <2>2
  <2> QED BY <2>1, <2>3
<1> QED
  BY <1>2, <1>3, <1>4 DEF StepOK, RecordStep, Carried, WrittenHead

(* The queue is purged only for a close that was asked for                 *)
(* (CleanMqttClient, HandleMqttReconnectAfterDisconnect).                  *)
THEOREM PurgeIsAskedFor == Spec => PurgedOnlyByClose
<1>1. ChannelInv /\ [Next]_vars =>
        [ client.queue # <<>> /\ client'.queue = <<>> /\ client'.out = client.out =>
            client.schedule_close # "Off" \/ pc = "destroy" ]_vars
  BY ChannelNext, PurgeStep
<1> QED
  BY <1>1, ChannelInvariance, PTL DEF Spec, PurgedOnlyByClose

LEMMA ChannelStep ==
  ASSUME ChannelInv, StepOK
  PROVE  [Channel!Next]_<<ResponsesIn(client.queue), ResponsesIn(RecordsOf(client.out))>>
<1> DEFINE q == ResponsesIn(client.queue)
<1> DEFINE s == ResponsesIn(RecordsOf(client.out))
<1> DEFINE qn == ResponsesIn(client'.queue)
<1> DEFINE sn == ResponsesIn(RecordsOf(client'.out))
<1>0. client.queue \in Seq(Records) /\ client.out \in Seq(Packet) /\ client.queue \in Seq(Entries)
  BY DEF ChannelInv, IInv, TypeOK, Client, Entries
<1>1. SUFFICES \/ qn = q /\ sn = s
               \/ \E r \in Responses : qn = Append(q, r) /\ sn = s
               \/ q # <<>> /\ sn = Append(s, Head(q)) /\ qn = Tail(q)
               \/ s # <<>> /\ sn = Tail(s) /\ qn = q
               \/ sn = <<>> /\ qn = q
               \/ qn = <<>> /\ sn \in {<<>>, s}
  BY DEF Channel!Next, Channel!Accept, Channel!Publish, Channel!Sent,
         Channel!ConnectionLost, Channel!Closed
<1>2. CASE Carried(client, client')
  BY <1>2, ResponsesInEmpty DEF Carried, Sending
<1>3. CASE WrittenHead(client, client')
  BY <1>3 DEF WrittenHead, Sending
<1>4. CASE PublishedHead(client, client')
  <2>1. PICK p \in Packet : /\ client.queue # <<>> /\ client'.queue = Tail(client.queue)
                            /\ p.rec = Head(client.queue) /\ client'.out = Append(client.out, p)
    BY <1>4 DEF PublishedHead
  <2>2. sn = IF p.rec \in Responses THEN Append(s, p.rec) ELSE s
    BY <1>0, <2>1, SendingAppend
  <2>3. /\ p.rec \in Responses => q # <<>> /\ Head(q) = p.rec /\ qn = Tail(q)
        /\ p.rec \notin Responses => qn = q
    BY <1>0, <2>1, ResponsesInTail
  <2> HIDE DEF q, s, qn, sn
  <2> QED BY <2>2, <2>3
<1>5. CASE QueuedRecord(client, client')
  <2>1. PICK r \in Responses \cup DisconnectRecords :
           client'.out = client.out /\ client'.queue = Append(client.queue, r)
    BY <1>5 DEF QueuedRecord
  <2>2. qn = IF r \in Responses THEN Append(q, r) ELSE q
    BY <1>0, <2>1, ResponsesInAppend DEF Entries, Records
  <2>3. sn = s
    BY <2>1
  <2> HIDE DEF q, s, qn, sn
  <2> QED BY <2>2, <2>3
<1>6. CASE QueuedConnect(client, client')
  <2>1. PICK k \in Controllers :
           client'.out = client.out /\ client'.queue = <<ConnectRecord(k)>> \o q
    BY <1>6 DEF QueuedConnect
  <2>2. qn = q
    BY <1>0, <2>1, ConnectKeepsResponses
  <2> QED BY <2>1, <2>2
<1>7. CASE client' = InitClient
  <2>1. client'.queue = <<>> /\ client'.out = <<>>
    BY <1>7 DEF InitClient
  <2>2. sn = <<>> /\ qn = <<>>
    BY <2>1, ResponsesInEmpty DEF RecordsOf
  <2> QED BY <2>2
<1> QED
  BY <1>2, <1>3, <1>4, <1>5, <1>6, <1>7 DEF StepOK, RecordStep

(* A slot implements RecordChannel: over reconnects, retries and connect   *)
(* records no response is reordered, duplicated or, while the slot stays   *)
(* open, lost from the queue.                                              *)
THEOREM ImplementsChannel == Spec => ChannelSpec
<1>1. Init => Channel!Init
  <2>1. ASSUME Init PROVE client.queue = <<>> /\ client.out = <<>>
    BY <2>1 DEF Init, InitClient
  <2>2. RecordsOf(<<>>) = <<>>
    BY DEF RecordsOf
  <2> QED BY <2>1, <2>2, ResponsesInEmpty DEF Channel!Init
<1>2. ChannelInv /\ [Next]_vars =>
        [Channel!Next]_<<ResponsesIn(client.queue), ResponsesIn(RecordsOf(client.out))>>
  BY ChannelNext, ChannelStep
<1> QED
  BY <1>1, <1>2, ChannelInvariance, PTL DEF Spec, ChannelSpec, Channel!Spec
=============================================================================
