----------------------------- MODULE E2eSession -----------------------------
(***************************************************************************)
(* End to end sessions: core/e2e_context.c and core/sar_vector.c, with the *)
(* parts of core/msg_handler.c, core/device_controller.c and core/dm_exec.c*)
(* that open, reset and reconfigure them.  The DM thread keeps, for each   *)
(* controller, one session: the ids of the last records sent and received, *)
(* and the segments of a message that is not complete yet.  Changes of     *)
(* SessionMode and the Reset operation only post an event, which the DM    *)
(* thread handles later; records that are refused cause one at once.       *)
(*                                                                         *)
(* The model has one controller, whose sessions share nothing with those   *)
(* of others.  The controller keeps to the protocol: in each session it    *)
(* numbers its records from 1 and sends the segments of a message one      *)
(* after the other.  The transport does not: any record of the controller  *)
(* may arrive at any time, so that records are lost, delayed, reordered    *)
(* and repeated.                                                           *)
(***************************************************************************)
EXTENDS Naturals, Sequences

CONSTANTS
    Records,        \* the session context records of the controller
    MaxParts,       \* bound: records the agent sends for a message
    MaxId,          \* bound: session ids the agent gets to
    MaxSent,        \* bound: records the agent sends in a session
    QueueMax        \* bound: events in the queue of the DM thread

E2E_FIRST_VALID_SESS_ID == 2
E2E_FIRST_SEQ_ID == 1

(* Record `seq' of session `sid': segment `part' of the `of' segments of a *)
(* message; 0 of 0 is a record with an empty payload.                      *)
Record == [sid: Nat, seq: Nat, part: Nat, of: Nat]

Follows(r, next) == next.sid = r.sid /\ next.seq = r.seq + 1
Begins(r) == r.part = 1 \/ r.of = 0

(* The protocol: records are numbered from 1, a number is used once, and a *)
(* message is finished before the next one begins.                         *)
ASSUME RecordsAssumption ==
    /\ Records \subseteq Record
    /\ \A r \in Records :
        /\ r.sid >= E2E_FIRST_VALID_SESS_ID /\ r.seq >= E2E_FIRST_SEQ_ID
        /\ r.part <= r.of /\ (r.part = 0 <=> r.of = 0)
        /\ r.seq = E2E_FIRST_SEQ_ID => Begins(r)
    /\ \A r, next \in Records :
        /\ r.sid = next.sid /\ r.seq = next.seq => r = next
        /\ Follows(r, next) =>
            IF r.part < r.of THEN next.part = r.part + 1 /\ next.of = r.of ELSE Begins(next)

ASSUME BoundsAssumption ==
    MaxParts \in Nat /\ MaxId \in Nat /\ MaxSent \in Nat /\ QueueMax \in Nat

VARIABLES
    ag,             \* the agent: see Agent
    handled         \* the segments of the message a session record completed in the last step

vars == <<ag, handled>>

Modes == {"Require", "Allow", "Forbid"}
Statuses == {"Up", "Negotiating", "Down"}
Events == {"None", "Establishment", "Termination", "Restart"}

Sar(r) == CASE r.of <= 1 -> "NONE"
            [] r.of > 1 /\ r.part = 1 -> "BEGIN"
            [] r.of > 1 /\ r.part = r.of -> "COMPLETE"
            [] OTHER -> "INPROCESS"

(* e2e_session_t: buffered is mode_buffered, snd and rcv are               *)
(* last_sent_sequence_id and last_recv_sequence_id, sar received_payloads. *)
Session == [mode: Modes, buffered: Modes, status: Statuses, id: Nat, snd: Nat, rcv: Nat,
            sar: Seq(Record)]

(* cont: whether the controller is in the table and enabled; db: the value *)
(* of SessionMode in the database; q: the events posted and not handled,   *)
(* each with the status it was chosen for; running: FALSE once the process *)
(* has ended.  Two history variables: crossed, an event was lost, or       *)
(* handled at another status than it was chosen for, and the session has   *)
(* not been cleared since; blank, the session was never initialised.       *)
Agent == [s: Session, cont: {"none", "off", "on"}, db: Modes,
          q: Seq([ev: Events, chosen: Statuses]),
          running: BOOLEAN, crossed: BOOLEAN, blank: BOOLEAN]

---------------------------------------------------------------------------
(* Sessions.                                                               *)

(* memset in ProcessControllerAdded: the first value of each enumeration.  *)
Blank == [mode |-> "Require", buffered |-> "Require", status |-> "Up", id |-> 0,
          snd |-> 0, rcv |-> 0, sar |-> <<>>]

FaultyAdded(db) ==                  \* Slip: the sequence ids start at INVALID
    [mode |-> db, buffered |-> db, status |-> "Down", id |-> E2E_FIRST_VALID_SESS_ID - 1,
     snd |-> 0 - 1, rcv |-> 0 - 1, sar |-> <<>>]

ProcessControllerE2ESessionAdded(db) ==
    [mode |-> db, buffered |-> db, status |-> "Down", id |-> E2E_FIRST_VALID_SESS_ID - 1,
     snd |-> 0, rcv |-> 0, sar |-> <<>>]

(* A controller whose MTP table is empty is done before its session is     *)
(* looked at.                                                              *)
ProcessControllerAdded(a, enable, db, hasMtps) ==
    [a EXCEPT !.cont = enable, !.db = db, !.blank = ~hasMtps, !.crossed = FALSE,
              !.s = IF hasMtps THEN ProcessControllerE2ESessionAdded(db) ELSE Blank]

(* DestroyController; the table starts this way, too.                      *)
NoController(a) == [a EXCEPT !.cont = "none", !.s = Blank, !.blank = TRUE]

FaultyClear(s) ==                   \* Slip: the segments received so far are kept
    [s EXCEPT !.status = "Down", !.snd = 0, !.rcv = 0]

ClearE2eSessionState(s) ==
    [s EXCEPT !.status = "Down", !.snd = 0, !.rcv = 0, !.sar = <<>>]

E2E_CONTEXT_IsToSendThroughSessionContext(s) == s.status # "Down" \/ s.mode = "Require"

(* A message goes out as n records.  When one cannot be queued its number  *)
(* is used up and the rest of the message is given up: n is the records    *)
(* tried.                                                                  *)
E2E_CONTEXT_QueueUspSessionRecord(s, n) ==
    IF s.status = "Down"
    THEN [s EXCEPT !.status = "Negotiating", !.id = @ + 1, !.snd = n, !.rcv = 0]
    ELSE [s EXCEPT !.snd = @ + n]

(* n = 0 stands for nothing to send.  Without a session, because the       *)
(* controller is gone or disabled or because none is wanted, the message   *)
(* goes out in one record that leaves no trace here.                       *)
MSG_HANDLER_QueueUspRecord(a, n) ==
    IF n > 0 /\ a.cont = "on" /\ E2E_CONTEXT_IsToSendThroughSessionContext(a.s)
    THEN [a EXCEPT !.s = E2E_CONTEXT_QueueUspSessionRecord(@, n)]
    ELSE a

(* E2E_CONTEXT_E2eSessionEvent.  The record that opens a session has an    *)
(* empty payload; if the mode does not ask for a session it would go out   *)
(* as a no-session record, for which QueueUspNoSessionRecord asserts a     *)
(* payload: the process ends.                                              *)
E2E_CONTEXT_E2eSessionEvent(a, ev) ==
    LET s == [a.s EXCEPT !.mode = a.s.buffered]
        cleared == [a EXCEPT !.s = ClearE2eSessionState(s), !.crossed = FALSE]
    IN  IF a.cont # "on" THEN [a EXCEPT !.crossed = TRUE]
        ELSE IF ev = "None" THEN [a EXCEPT !.s = s]
        ELSE IF ev = "Termination" THEN cleared
        ELSE IF E2E_CONTEXT_IsToSendThroughSessionContext(cleared.s)
        THEN MSG_HANDLER_QueueUspRecord(cleared, 1)
        ELSE [cleared EXCEPT !.running = FALSE]

(* The event that answers a record that is refused.                        *)
Refuse(a) ==
    E2E_CONTEXT_E2eSessionEvent(a, IF a.s.mode = "Require" THEN "Restart" ELSE "Termination")

---------------------------------------------------------------------------
(* What a handled message does to the sessions.                            *)

(* DM_EXEC_PostE2eEvent does not wait: the event is dropped when the queue *)
(* is full.  The queue holds other messages as well, so that it may be     *)
(* full at any time.                                                       *)
DM_EXEC_PostE2eEvent(a, ev, full) ==
    IF full \/ Len(a.q) >= QueueMax THEN a
    ELSE [a EXCEPT !.q = Append(@, [ev |-> ev, chosen |-> a.s.status])]

FaultyModeEvent(mode, status) ==    \* Slip: a session being opened is not terminated
    CASE mode = "Require" /\ status = "Down" -> "Establishment"
      [] mode = "Forbid" /\ status = "Up" -> "Termination"
      [] OTHER -> "None"

ModeEvent(mode, status) ==
    CASE mode = "Require" /\ status = "Down" -> "Establishment"
      [] mode = "Forbid" /\ status # "Down" -> "Termination"
      [] OTHER -> "None"

Notify_E2ESessionMode(a, mode, full) ==
    LET ev == ModeEvent(mode, a.s.status)
        b == [a EXCEPT !.db = mode, !.s.buffered = mode]
        posted == DM_EXEC_PostE2eEvent(b, ev, full)
    IN  IF ev # "None" \/ a.s.mode # mode
        THEN [posted EXCEPT !.crossed = @ \/ posted = b]
        ELSE b

(* Async_E2ESessionReset fails, and changes nothing, when there is nothing *)
(* to do and when the controller is disabled.                              *)
ResetEvent(mode, status) ==
    CASE mode = "Require" /\ status = "Down" -> "Establishment"
      [] mode = "Require" /\ status # "Down" -> "Restart"
      [] mode # "Require" /\ status # "Down" -> "Termination"
      [] OTHER -> "None"

Async_E2ESessionReset(a, full) ==
    LET ev == ResetEvent(a.s.mode, a.s.status)
    IN  IF a.cont # "on" \/ ev = "None" THEN a ELSE DM_EXEC_PostE2eEvent(a, ev, full)

(* What a message asks for, as far as sessions go: a SessionMode, the      *)
(* Reset operation, to enable, disable or delete the controller, or none   *)
(* of these.                                                               *)
Requests == Modes \cup {"Reset", "Enable", "Disable", "Delete", "Other"}

Perform(a, req, full) ==
    CASE a.cont = "none" -> a
      [] req \in Modes /\ a.cont # "none" -> Notify_E2ESessionMode(a, req, full)
      [] req = "Reset" /\ a.cont # "none" -> Async_E2ESessionReset(a, full)
      [] req = "Enable" /\ a.cont # "none" -> [a EXCEPT !.cont = "on"]
      [] req = "Disable" /\ a.cont # "none" -> [a EXCEPT !.cont = "off"]
      [] req = "Delete" /\ a.cont # "none" -> NoController(a)
      [] OTHER -> a

(* MSG_HANDLER_HandleBinaryMessage: the request, then its response, in n   *)
(* records.                                                                *)
HandleMessage(a, req, full, n) == MSG_HANDLER_QueueUspRecord(Perform(a, req, full), n)

---------------------------------------------------------------------------
(* Records received.                                                       *)

IsValidE2eSarState(s, sar) ==
    IF sar \in {"NONE", "BEGIN"} THEN s.sar = <<>> ELSE s.sar # <<>>

FaultyValidPayload(sar, r) ==       \* Slip: a segment may be missing
    sar # <<>> => sar[Len(sar)].sid = r.sid /\ r.seq > sar[Len(sar)].seq

IsValidPayload(sar, r) ==
    sar # <<>> => sar[Len(sar)].sid = r.sid /\ r.seq = sar[Len(sar)].seq + 1

ValidateSessionContextHandling(s, r) ==
    /\ s.mode # "Forbid"
    /\ r.sid >= E2E_FIRST_VALID_SESS_ID
    /\ r.seq >= E2E_FIRST_SEQ_ID
    /\ r.sid = s.id \/ r.seq = E2E_FIRST_SEQ_ID
    /\ IsValidE2eSarState(s, Sar(r))

(* HandleSessionContextRecord: a record of another session resets this one *)
(* and takes its place.                                                    *)
Received(s, r) ==
    [(IF s.id # r.sid THEN ClearE2eSessionState(s) ELSE s)
        EXCEPT !.id = r.sid, !.rcv = r.seq, !.status = "Up"]

(* The segments that are together a message when r is taken in; none if it *)
(* is not the last one.                                                    *)
Completed(s, r) ==
    CASE r.of = 1 -> <<r>>
      [] r.of > 1 /\ Sar(r) = "COMPLETE" -> Append(s.sar, r)
      [] OTHER -> <<>>

Kept(s, r) ==
    IF r.of > 1 /\ Sar(r) # "COMPLETE" THEN Append(s.sar, r)
    ELSE IF r.of > 1 THEN <<>> ELSE s.sar

Bounded(a) == a.s.id <= MaxId /\ a.s.snd <= MaxSent

E2E_CONTEXT_HandleSessionRecord(r) ==
    LET s == Received(ag.s, r)
        valid == ValidateSessionContextHandling(ag.s, r)
        fits == r.of > 1 => IsValidPayload(s.sar, r)
        done == Completed(s, r)
        taken == [ag EXCEPT !.s = [s EXCEPT !.sar = Kept(s, r)]]
    IN  /\ ag.running /\ ag.cont = "on"
        /\ \/ /\ ~valid
              /\ ag' = Refuse(ag)
              /\ handled' = <<>>
           \/ /\ valid /\ ~fits
              /\ ag' = Refuse([ag EXCEPT !.s = s])
              /\ handled' = <<>>
           \/ /\ valid /\ fits /\ done = <<>>
              /\ ag' = taken
              /\ handled' = <<>>
           \/ /\ valid /\ fits /\ done # <<>>
              /\ \E req \in Requests, full \in BOOLEAN, n \in 0..MaxParts :
                    ag' = HandleMessage(taken, req, full, n)
              /\ handled' = done
        /\ Bounded(ag')

(* A no-session record of the controller: refused in mode Require and      *)
(* while a session is open.                                                *)
E2E_CONTEXT_HandleNoSessionRecord ==
    /\ ag.running /\ ag.cont = "on"
    /\ IF E2E_CONTEXT_IsToSendThroughSessionContext(ag.s) THEN ag' = Refuse(ag)
       ELSE \E req \in Requests, full \in BOOLEAN, n \in 0..MaxParts :
                ag' = HandleMessage(ag, req, full, n)
    /\ Bounded(ag')
    /\ handled' = <<>>

(* E2E_CONTEXT_ValidateSessionContextRecord: a record with other than one  *)
(* payload, or with two different SAR states, restarts the session in      *)
(* whatever mode.                                                          *)
E2E_CONTEXT_HandleUnsupportedRecord ==
    /\ ag.running /\ ag.cont = "on"
    /\ ag' = E2E_CONTEXT_E2eSessionEvent(ag, "Restart")
    /\ Bounded(ag')
    /\ handled' = <<>>

(* ProcessMessageQueueSocketActivity takes an event from the queue.        *)
HandleE2eSessionEvent ==
    LET e == Head(ag.q)
        a == [ag EXCEPT !.q = Tail(@), !.crossed = @ \/ e.chosen # ag.s.status]
    IN  /\ ag.running /\ ag.q # <<>>
        /\ ag' = E2E_CONTEXT_E2eSessionEvent(a, e.ev)
        /\ Bounded(ag')
        /\ handled' = <<>>

(* A request of another controller or of the command line.                 *)
HandleOtherRequest ==
    /\ ag.running
    /\ \/ \E req \in Requests, full \in BOOLEAN : ag' = Perform(ag, req, full)
       \/ /\ ag.cont = "none"
          /\ \E enable \in {"off", "on"}, db \in Modes, hasMtps \in BOOLEAN :
                ag' = ProcessControllerAdded(ag, enable, db, hasMtps)
    /\ handled' = <<>>

(* A notification to the controller, sent for the first time or again.     *)
SendNotify ==
    /\ ag.running
    /\ \E n \in 1..MaxParts : ag' = MSG_HANDLER_QueueUspRecord(ag, n)
    /\ Bounded(ag')
    /\ handled' = <<>>

(* The process ends, by an assertion or otherwise, and starts again with   *)
(* what is in the database.                                                *)
Stop ==
    /\ ag.running
    /\ ag' = [ag EXCEPT !.running = FALSE]
    /\ handled' = <<>>

DEVICE_CONTROLLER_Start ==
    LET a == [ag EXCEPT !.running = TRUE, !.q = <<>>]
    IN  /\ ~ag.running
        /\ IF ag.cont = "none" THEN ag' = NoController(a)
           ELSE \E hasMtps \in BOOLEAN : ag' = ProcessControllerAdded(a, ag.cont, ag.db, hasMtps)
        /\ handled' = <<>>

Init ==
    /\ \E db \in Modes, enable \in {"off", "on"} :
        ag = [s |-> ProcessControllerE2ESessionAdded(db), cont |-> enable, db |-> db, q |-> <<>>,
              running |-> TRUE, crossed |-> FALSE, blank |-> FALSE]
    /\ handled = <<>>

Next ==
    \/ \E r \in Records : E2E_CONTEXT_HandleSessionRecord(r)
    \/ E2E_CONTEXT_HandleNoSessionRecord
    \/ E2E_CONTEXT_HandleUnsupportedRecord
    \/ HandleE2eSessionEvent
    \/ HandleOtherRequest
    \/ SendNotify
    \/ Stop
    \/ DEVICE_CONTROLLER_Start

Spec == Init /\ [][Next]_vars

---------------------------------------------------------------------------
(* Properties.                                                             *)

(* Types: of e2e_session_t, of the event queue and of the records.         *)
TypeOK ==
    /\ ag \in Agent
    /\ handled \in Seq(Record)

(* The segments v are those of one message, all of them and in order.      *)
Whole(v) ==
    /\ v # <<>>
    /\ Len(v) = v[1].of
    /\ \A k \in 1..Len(v) : v[k] = [sid |-> v[1].sid, seq |-> v[1].seq + k - 1,
                                    part |-> k, of |-> v[1].of]

(* What HandleSessionContextRecord hands to the message handler is one     *)
(* message the controller sent: whatever was lost, repeated or reordered,  *)
(* and whenever sessions were reset in between, segments of two messages   *)
(* or of two sessions are never put together and none is missing.          *)
HandledIsWhole ==
    handled # <<>> =>
        /\ Whole(handled)
        /\ \A k \in 1..Len(handled) : handled[k] \in Records

(* A session that is down has left nothing behind; segments are only kept  *)
(* for the session that is up, the last one being the last record received,*)
(* and are short of a message; a session in use has an id that the peer    *)
(* accepts, unless ProcessControllerAdded never initialised it.            *)
SessionSound ==
    /\ ag.s.status = "Down" => ag.s.snd = 0 /\ ag.s.rcv = 0 /\ ag.s.sar = <<>>
    /\ ag.s.sar # <<>> =>
        LET r == ag.s.sar[Len(ag.s.sar)]
        IN  /\ ag.s.status = "Up"
            /\ r.sid = ag.s.id /\ r.seq = ag.s.rcv
            /\ r.part = Len(ag.s.sar) /\ r.part < r.of
    /\ ag.s.status # "Down" /\ ~ag.blank => ag.s.id >= E2E_FIRST_VALID_SESS_ID

(* A change of SessionMode is not forgotten: the mode in use is the        *)
(* parameter's unless an event that applies it is on its way, or was lost. *)
(* And with mode Forbid a session stays open only while its termination is *)
(* on the way, or because the session came up behind the back of an event  *)
(* that was chosen when it was down.                                       *)
ModeHonoured ==
    ag.running /\ ag.cont # "none" =>
        /\ ~ag.blank => ag.s.buffered = ag.db
        /\ ag.s.mode # ag.s.buffered => ag.q # <<>> \/ ag.crossed
        /\ ag.s.mode = "Forbid" /\ ag.s.status # "Down" =>
            \/ ag.crossed
            \/ \E k \in 1..Len(ag.q) :
                    ag.q[k].ev = "Termination" \/ ag.q[k].chosen # ag.s.status
=============================================================================
