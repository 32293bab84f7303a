-------------------------- MODULE E2eSessionProofs --------------------------
(***************************************************************************)
(* Proofs about E2eSession, for every set of records that keeps to the     *)
(* protocol and for every bound.                                           *)
(*                                                                         *)
(* The operations of the model are functions on the agent's record, so the *)
(* invariant is a predicate Good on such records, and there is a lemma per *)
(* operation that says that the operation preserves it.  Good strengthens  *)
(* SessionSound by what the segments kept are (all of one message, from    *)
(* the first one on) and ModeHonoured by what must be queued while a       *)
(* Forbid is not in force yet.                                             *)
(***************************************************************************)
EXTENDS E2eSession, TLAPS

(* The segments kept are the first ones of one message of this session.    *)
Segments(s) ==
    s.sar # <<>> =>
        /\ s.status = "Up"
        /\ s.sar[Len(s.sar)].seq = s.rcv
        /\ Len(s.sar) < s.sar[1].of
        /\ \A k \in 1..Len(s.sar) :
            /\ s.sar[k] \in Records
            /\ s.sar[k].sid = s.id
            /\ s.sar[k].seq = s.sar[1].seq + k - 1
            /\ s.sar[k].part = k
            /\ s.sar[k].of = s.sar[1].of

GoodSession(s, blank) ==
    /\ s \in Session
    /\ s.status = "Down" => s.snd = 0 /\ s.rcv = 0 /\ s.sar = <<>>
    /\ Segments(s)
    /\ ~blank => s.id >= 1
    /\ s.status # "Down" /\ ~blank => s.id >= 2

(* A Forbid that is not in force, or that a session outlives: the event    *)
(* that sees to it is queued.                                              *)
ForbidPending(a) ==
    \/ a.s.buffered = "Forbid" /\ (a.s.status # "Down" \/ a.s.mode # "Forbid")
    \/ a.s.mode = "Forbid" /\ a.s.status # "Down"
    =>  \/ a.crossed
        \/ \E k \in 1..Len(a.q) : a.q[k].ev = "Termination" \/ a.q[k].chosen = "Down"

ModeKept(a) ==
    /\ ~a.blank => a.s.buffered = a.db
    /\ a.s.mode # a.s.buffered => a.q # <<>> \/ a.crossed
    /\ ForbidPending(a)

Good(a) == a \in Agent /\ GoodSession(a.s, a.blank) /\ ModeKept(a)

---------------------------------------------------------------------------
(* Sessions.                                                               *)

(* ClearE2eSessionState leaves a session that is down and keeps its mode,  *)
(* whatever it finds.                                                      *)
LEMMA Clear ==
    ASSUME NEW s \in Session, NEW b \in BOOLEAN, ~b => s.id >= 1
    PROVE  /\ GoodSession(ClearE2eSessionState(s), b)
           /\ ClearE2eSessionState(s).status = "Down"
           /\ ClearE2eSessionState(s).mode = s.mode
           /\ ClearE2eSessionState(s).buffered = s.buffered
<1> DEFINE t == ClearE2eSessionState(s)
<1>1. /\ t.mode = s.mode /\ t.buffered = s.buffered /\ t.status = "Down" /\ t.id = s.id
      /\ t.snd = 0 /\ t.rcv = 0 /\ t.sar = <<>>
  BY DEF ClearE2eSessionState, Session
<1>2. t \in Session
  <2>1. "Down" \in Statuses /\ <<>> \in Seq(Record) /\ 0 \in Nat
    BY DEF Statuses
  <2> QED
    BY <2>1 DEF ClearE2eSessionState, Session
<1> QED
  BY <1>1, <1>2 DEF GoodSession, Segments

(* Applying the buffered mode changes nothing else.                        *)
LEMMA Applied ==
    ASSUME NEW s, NEW b \in BOOLEAN, GoodSession(s, b)
    PROVE  LET t == [s EXCEPT !.mode = s.buffered]
           IN  /\ GoodSession(t, b)
               /\ t.mode = s.buffered /\ t.buffered = s.buffered /\ t.status = s.status
<1> DEFINE t == [s EXCEPT !.mode = s.buffered]
<1>1. /\ t.mode = s.buffered /\ t.buffered = s.buffered /\ t.status = s.status /\ t.id = s.id
      /\ t.snd = s.snd /\ t.rcv = s.rcv /\ t.sar = s.sar /\ t \in Session
  BY DEF GoodSession, Session
<1> QED
  BY <1>1 DEF GoodSession, Segments

(* E2E_CONTEXT_QueueUspSessionRecord opens a session that was down.        *)
LEMMA SentInSession ==
    ASSUME NEW s, NEW b \in BOOLEAN, NEW n \in Nat, GoodSession(s, b)
    PROVE  LET t == E2E_CONTEXT_QueueUspSessionRecord(s, n)
           IN  /\ GoodSession(t, b)
               /\ t.mode = s.mode /\ t.buffered = s.buffered
               /\ s.status # "Down" => t.status = s.status
<1> DEFINE t == E2E_CONTEXT_QueueUspSessionRecord(s, n)
<1>1. CASE s.status = "Down"
  <2>1. /\ t.mode = s.mode /\ t.buffered = s.buffered /\ t.status = "Negotiating"
        /\ t.id = s.id + 1 /\ t.sar = s.sar
    BY <1>1 DEF GoodSession, E2E_CONTEXT_QueueUspSessionRecord, Session
  <2>2. s.sar = <<>> /\ s.id \in Nat
    BY <1>1 DEF GoodSession, Session
  <2>3. t \in Session
    <3>1. "Negotiating" \in Statuses /\ 0 \in Nat /\ s.id + 1 \in Nat
      BY <2>2 DEF Statuses
    <3> QED
      BY <1>1, <3>1 DEF GoodSession, E2E_CONTEXT_QueueUspSessionRecord, Session
  <2> QED
    BY <1>1, <2>1, <2>2, <2>3 DEF GoodSession, Segments
<1>2. CASE s.status # "Down"
  <2>1. /\ t.mode = s.mode /\ t.buffered = s.buffered /\ t.status = s.status /\ t.id = s.id
        /\ t.rcv = s.rcv /\ t.sar = s.sar /\ t \in Session
    BY <1>2 DEF GoodSession, E2E_CONTEXT_QueueUspSessionRecord, Session
  <2> QED
    BY <1>2, <2>1 DEF GoodSession, Segments
<1> QED
  BY <1>1, <1>2

(* A message that is sent leaves the agent good.                           *)
LEMMA RecordQueued ==
    ASSUME NEW a, NEW n \in Nat, Good(a)
    PROVE  Good(MSG_HANDLER_QueueUspRecord(a, n))
<1> DEFINE t == E2E_CONTEXT_QueueUspSessionRecord(a.s, n)
           c == [a EXCEPT !.s = t]
<1>1. a.blank \in BOOLEAN /\ GoodSession(a.s, a.blank) /\ a \in Agent
  BY DEF Good, Agent
<1>2. /\ GoodSession(t, a.blank) /\ t.mode = a.s.mode /\ t.buffered = a.s.buffered
      /\ a.s.status # "Down" => t.status = a.s.status
  BY <1>1, SentInSession
<1>3. CASE n > 0 /\ a.cont = "on" /\ E2E_CONTEXT_IsToSendThroughSessionContext(a.s)
  <2>1. MSG_HANDLER_QueueUspRecord(a, n) = c
    BY <1>3 DEF MSG_HANDLER_QueueUspRecord
  <2> HIDE DEF t
  <2>2. /\ c.s = t /\ c.q = a.q /\ c.crossed = a.crossed /\ c.blank = a.blank /\ c.db = a.db
        /\ c \in Agent
    BY <1>1, <1>2 DEF Agent, GoodSession
  <2>3. ForbidPending(c)
    BY <1>2, <1>3, <2>2 DEF Good, ModeKept, ForbidPending, E2E_CONTEXT_IsToSendThroughSessionContext
  <2> QED
    BY <1>2, <2>1, <2>2, <2>3 DEF Good, ModeKept
<1>4. CASE ~(n > 0 /\ a.cont = "on" /\ E2E_CONTEXT_IsToSendThroughSessionContext(a.s))
  BY <1>4 DEF MSG_HANDLER_QueueUspRecord
<1> QED
  BY <1>3, <1>4
---------------------------------------------------------------------------
(* Events.                                                                 *)

(* An event other than None clears the session: nothing is pending then.   *)
LEMMA EventClears ==
    ASSUME NEW a \in Agent, NEW ev \in Events, ev # "None",
           ~a.blank => a.s.id >= 1 /\ a.s.buffered = a.db, a.cont = "on" \/ GoodSession(a.s, a.blank)
    PROVE  Good(E2E_CONTEXT_E2eSessionEvent(a, ev))
<1> DEFINE s == [a.s EXCEPT !.mode = a.s.buffered]
           u == ClearE2eSessionState(s)
           c == [a EXCEPT !.s = u, !.crossed = FALSE]
           e == E2E_CONTEXT_E2eSessionEvent(a, ev)
<1>1. a.blank \in BOOLEAN /\ a.s \in Session
  BY DEF Agent
<1>2. CASE a.cont # "on"
  <2> DEFINE d == [a EXCEPT !.crossed = TRUE]
  <2>1. e = d
    BY <1>2 DEF E2E_CONTEXT_E2eSessionEvent
  <2>2. d.s = a.s /\ d.crossed = TRUE /\ d.blank = a.blank /\ d.db = a.db /\ d \in Agent
    BY DEF Agent
  <2> QED
    BY <1>2, <2>1, <2>2 DEF Good, ModeKept, ForbidPending
<1>3. CASE a.cont = "on"
  <2>1. /\ s \in Session /\ s.mode = a.s.buffered /\ s.buffered = a.s.buffered /\ s.id = a.s.id
    BY <1>1 DEF Session
  <2>2. /\ GoodSession(u, a.blank) /\ u.mode = a.s.buffered /\ u.buffered = a.s.buffered
        /\ u.status = "Down"
    <3> HIDE DEF s
    <3> QED
      BY <1>1, <2>1, Clear
  <2>3. e = IF ev = "Termination" THEN c
            ELSE IF E2E_CONTEXT_IsToSendThroughSessionContext(c.s)
            THEN MSG_HANDLER_QueueUspRecord(c, 1) ELSE [c EXCEPT !.running = FALSE]
    BY <1>3 DEF E2E_CONTEXT_E2eSessionEvent
  <2> HIDE DEF u, s
  <2>4. /\ c.s = u /\ c.blank = a.blank /\ c.db = a.db /\ c \in Agent
    BY <2>2 DEF Agent, GoodSession
  <2>5. Good(c)
    BY <2>2, <2>4 DEF Good, ModeKept, ForbidPending
  <2> HIDE DEF c, e
  <2>6. Good(MSG_HANDLER_QueueUspRecord(c, 1))
    BY <2>5, RecordQueued
  <2>7. Good([c EXCEPT !.running = FALSE])
    <3> DEFINE d == [c EXCEPT !.running = FALSE]
    <3>1. /\ d.s = c.s /\ d.crossed = c.crossed /\ d.blank = c.blank /\ d.db = c.db /\ d.q = c.q
          /\ d \in Agent
      BY <2>5 DEF Agent, Good
    <3> HIDE DEF d
    <3>2. Good(d)
      BY <2>5, <3>1 DEF Good, ModeKept, ForbidPending
    <3> QED
      BY <3>2 DEF d
  <2> QED
    BY <2>3, <2>5, <2>6, <2>7 DEF e
<1> QED
  BY <1>2, <1>3

LEMMA Refused ==
    ASSUME NEW a, Good(a)
    PROVE  Good(Refuse(a))
<1> DEFINE ev == IF a.s.mode = "Require" THEN "Restart" ELSE "Termination"
<1>1. ev \in Events /\ ev # "None"
  BY DEF Events
<1>2. a \in Agent /\ (~a.blank => a.s.id >= 1 /\ a.s.buffered = a.db)
  BY DEF Good, GoodSession, ModeKept
<1>3. Refuse(a) = E2E_CONTEXT_E2eSessionEvent(a, ev)
  BY DEF Refuse
<1> HIDE DEF ev
<1> QED
  BY <1>1, <1>2, <1>3, EventClears DEF Good

(* The head and the tail of a queue.                                       *)
LEMMA HeadTail ==
    ASSUME NEW T, NEW q \in Seq(T), q # <<>>
    PROVE  /\ Head(q) \in T /\ Head(q) = q[1]
           /\ Tail(q) \in Seq(T) /\ Len(Tail(q)) = Len(q) - 1
           /\ \A k \in 2..Len(q) : k - 1 \in 1..Len(Tail(q)) /\ Tail(q)[k - 1] = q[k]
           /\ Len(q) \in Nat
<1>1. Len(q) \in Nat /\ Len(q) > 0
  OBVIOUS
<1>2. Head(q) \in T /\ Head(q) = q[1]
  BY <1>1
<1>3. Tail(q) \in Seq(T) /\ Len(Tail(q)) = Len(q) - 1
  BY <1>1
<1>4. ASSUME NEW k \in 2..Len(q)
      PROVE  k - 1 \in 1..Len(Tail(q)) /\ Tail(q)[k - 1] = q[k]
  BY <1>1, <1>3
<1> QED
  BY <1>1, <1>2, <1>3, <1>4

(* An event from the queue: what was waiting for it is done, or was waiting*)
(* for a later one.                                                        *)
LEMMA EventHandled ==
    ASSUME NEW a, Good(a), a.q # <<>>
    PROVE  LET e == Head(a.q)
               b == [a EXCEPT !.q = Tail(@), !.crossed = @ \/ e.chosen # a.s.status]
           IN  Good(E2E_CONTEXT_E2eSessionEvent(b, e.ev))
<1> DEFINE e == Head(a.q)
           x == a.crossed \/ e.chosen # a.s.status
           b == [a EXCEPT !.q = Tail(@), !.crossed = @ \/ e.chosen # a.s.status]
           s == [a.s EXCEPT !.mode = a.s.buffered]
           d == [b EXCEPT !.s = s]
<1>1. a \in Agent /\ GoodSession(a.s, a.blank) /\ ModeKept(a) /\ a.blank \in BOOLEAN
  BY DEF Good, Agent
<1>2. /\ e \in [ev: Events, chosen: Statuses] /\ e = a.q[1]
      /\ Tail(a.q) \in Seq([ev: Events, chosen: Statuses]) /\ Len(Tail(a.q)) = Len(a.q) - 1
      /\ \A k \in 2..Len(a.q) : k - 1 \in 1..Len(Tail(a.q)) /\ Tail(a.q)[k - 1] = a.q[k]
      /\ Len(a.q) \in Nat
  <2>1. a.q \in Seq([ev: Events, chosen: Statuses])
    BY <1>1 DEF Agent
  <2> QED
    BY <2>1, HeadTail
<1> HIDE DEF e
<1>3. x \in BOOLEAN
  BY <1>1 DEF Agent
<1>4. b = [a EXCEPT !.q = Tail(a.q), !.crossed = x]
  BY DEF b, x
<1> HIDE DEF x
<1>5. /\ b \in Agent /\ b.s = a.s /\ b.blank = a.blank /\ b.db = a.db /\ b.cont = a.cont
      /\ b.q = Tail(a.q) /\ b.crossed = x
  <2> HIDE DEF b
  <2> QED
    BY <1>1, <1>2, <1>3, <1>4 DEF Agent
<1> HIDE DEF b
<1>6. CASE e.ev # "None"
  BY <1>1, <1>2, <1>5, <1>6, EventClears DEF GoodSession, ModeKept, b, e
<1>7. CASE e.ev = "None" /\ b.cont # "on"
  <2> DEFINE f == [b EXCEPT !.crossed = TRUE]
  <2>1. E2E_CONTEXT_E2eSessionEvent(b, e.ev) = f
    BY <1>7 DEF E2E_CONTEXT_E2eSessionEvent
  <2>2. f.s = a.s /\ f.crossed = TRUE /\ f.blank = a.blank /\ f.db = a.db /\ f \in Agent
    BY <1>5 DEF Agent
  <2>3. Good(f)
    BY <1>1, <2>2 DEF Good, ModeKept, ForbidPending
  <2> QED
    BY <2>1, <2>3 DEF b, e
<1>8. CASE e.ev = "None" /\ b.cont = "on"
  <2>1. E2E_CONTEXT_E2eSessionEvent(b, e.ev) = d
    BY <1>5, <1>8 DEF E2E_CONTEXT_E2eSessionEvent
  <2>2. /\ GoodSession(s, a.blank) /\ s.mode = a.s.buffered /\ s.buffered = a.s.buffered
        /\ s.status = a.s.status
    BY <1>1, Applied
  <2> HIDE DEF s
  <2>3. /\ d.s = s /\ d.crossed = x /\ d.blank = a.blank /\ d.db = a.db /\ d.q = Tail(a.q)
        /\ d \in Agent
    BY <1>5, <2>2 DEF Agent, GoodSession
  <2> HIDE DEF d
  <2>4. ForbidPending(d)
    <3> SUFFICES ASSUME a.s.buffered = "Forbid", a.s.status # "Down", ~x
                 PROVE  \E k \in 1..Len(Tail(a.q)) :
                            Tail(a.q)[k].ev = "Termination" \/ Tail(a.q)[k].chosen = "Down"
      BY <2>2, <2>3 DEF ForbidPending
    <3>1. ~a.crossed /\ e.chosen = a.s.status
      BY DEF x
    <3>2. PICK k \in 1..Len(a.q) : a.q[k].ev = "Termination" \/ a.q[k].chosen = "Down"
      BY <1>1, <3>1 DEF ModeKept, ForbidPending
    <3>3. k # 1
      BY <1>2, <1>8, <3>1, <3>2
    <3> QED
      BY <1>2, <3>2, <3>3
  <2>5. Good(d)
    BY <1>1, <2>2, <2>3, <2>4 DEF Good, ModeKept
  <2> QED
    BY <2>1, <2>5 DEF b, e
<1> QED
  BY <1>6, <1>7, <1>8
---------------------------------------------------------------------------
(* Requests.                                                               *)

(* A longer queue still holds what the agent waits for.                    *)
LEMMA Posted ==
    ASSUME NEW a \in Agent, NEW ev \in Events, NEW full \in BOOLEAN
    PROVE  LET p == DM_EXEC_PostE2eEvent(a, ev, full)
           IN  \/ p = a
               \/ /\ p \in Agent
                  /\ p.s = a.s /\ p.cont = a.cont /\ p.db = a.db /\ p.blank = a.blank
                  /\ p.crossed = a.crossed
                  /\ p.q # a.q /\ p.q # <<>>
                  /\ \A k \in 1..Len(a.q) : k \in 1..Len(p.q) /\ p.q[k] = a.q[k]
                  /\ Len(p.q) \in 1..Len(p.q)
                  /\ p.q[Len(p.q)].ev = ev /\ p.q[Len(p.q)].chosen = a.s.status
<1> DEFINE T == [ev: Events, chosen: Statuses]
           m == [ev |-> ev, chosen |-> a.s.status]
           p == DM_EXEC_PostE2eEvent(a, ev, full)
<1>1. a.q \in Seq(T) /\ m \in T /\ m.ev = ev /\ m.chosen = a.s.status
  BY DEF Agent, Session
<1>2. p = a \/ p = [a EXCEPT !.q = Append(a.q, m)]
  BY DEF DM_EXEC_PostE2eEvent
<1> HIDE DEF m, p, T
<1>3. /\ Append(a.q, m) \in Seq(T) /\ Len(Append(a.q, m)) = Len(a.q) + 1 /\ Len(a.q) \in Nat
      /\ \A k \in 1..Len(a.q) : k \in 1..Len(Append(a.q, m)) /\ Append(a.q, m)[k] = a.q[k]
      /\ Append(a.q, m)[Len(a.q) + 1] = m
  BY <1>1
<1>4. Append(a.q, m) # a.q /\ Append(a.q, m) # <<>>
  BY <1>3
<1>5. ASSUME p = [a EXCEPT !.q = Append(a.q, m)]
      PROVE  /\ p \in Agent /\ p.q = Append(a.q, m) /\ p.s = a.s /\ p.cont = a.cont
             /\ p.db = a.db /\ p.blank = a.blank /\ p.crossed = a.crossed
  BY <1>3, <1>5 DEF Agent, T
<1> QED
  BY <1>1, <1>2, <1>3, <1>4, <1>5 DEF p

LEMMA ModeNotified ==
    ASSUME NEW a, NEW mode \in Modes, NEW full \in BOOLEAN, Good(a)
    PROVE  Good(Notify_E2ESessionMode(a, mode, full))
<1> DEFINE ev == ModeEvent(mode, a.s.status)
           s == [a.s EXCEPT !.buffered = mode]
           b == [a EXCEPT !.db = mode, !.s.buffered = mode]
           p == DM_EXEC_PostE2eEvent(b, ev, full)
           r == [p EXCEPT !.crossed = @ \/ p = b]
<1>1. a \in Agent /\ GoodSession(a.s, a.blank) /\ ModeKept(a) /\ a.blank \in BOOLEAN
  BY DEF Good, Agent
<1>2. /\ s \in Session /\ s.mode = a.s.mode /\ s.buffered = mode /\ s.status = a.s.status
      /\ s.id = a.s.id /\ s.snd = a.s.snd /\ s.rcv = a.s.rcv /\ s.sar = a.s.sar
  BY <1>1 DEF GoodSession, Session
<1>3. GoodSession(s, a.blank)
  BY <1>1, <1>2 DEF GoodSession, Segments
<1>4. b = [a EXCEPT !.db = mode, !.s = s]
  BY <1>1 DEF Agent
<1> HIDE DEF s, b
<1>5. /\ b \in Agent /\ b.s = s /\ b.db = mode /\ b.q = a.q /\ b.crossed = a.crossed
      /\ b.blank = a.blank /\ b.cont = a.cont
  BY <1>1, <1>2, <1>4 DEF Agent
<1>6. /\ ev \in Events
      /\ ev = "None" /\ mode = "Forbid" => a.s.status = "Down"
      /\ mode = "Forbid" /\ ev # "None" => ev = "Termination"
  BY DEF ModeEvent, Modes, Events
<1> HIDE DEF ev
<1>7. CASE ~(ev # "None" \/ a.s.mode # mode)
  <2>1. Notify_E2ESessionMode(a, mode, full) = b
    BY <1>7 DEF Notify_E2ESessionMode, b, ev
  <2> QED
    BY <1>2, <1>3, <1>5, <1>6, <1>7, <2>1 DEF Good, ModeKept, ForbidPending
<1>8. CASE ev # "None" \/ a.s.mode # mode
  <2>1. Notify_E2ESessionMode(a, mode, full) = r
    BY <1>8 DEF Notify_E2ESessionMode, b, ev
  <2>2. p \in Agent /\ p.s = s /\ p.db = mode /\ p.blank = a.blank
    BY <1>5, <1>6, Posted
  <2>3. p = b \/ /\ p.q # <<>> /\ Len(p.q) \in 1..Len(p.q)
                 /\ p.q[Len(p.q)].ev = ev /\ p.q[Len(p.q)].chosen = s.status
    BY <1>5, <1>6, Posted
  <2> HIDE DEF p
  <2>4. /\ r \in Agent /\ r.s = s /\ r.db = mode /\ r.blank = a.blank /\ r.q = p.q
        /\ r.crossed = (p.crossed \/ p = b)
    BY <2>2 DEF Agent
  <2> HIDE DEF r
  <2>5. p = b => r.crossed
    BY <2>4
  <2>6. ForbidPending(r)
    <3>1. CASE p = b
      BY <2>5, <3>1 DEF ForbidPending
    <3>2. CASE p # b /\ mode = "Forbid"
      <4>1. r.q[Len(r.q)].ev = "Termination" \/ r.q[Len(r.q)].chosen = "Down"
        BY <1>2, <1>6, <2>3, <2>4, <3>2
      <4> QED
        BY <2>3, <2>4, <3>2, <4>1 DEF ForbidPending
    <3>3. CASE p # b /\ mode # "Forbid"
      <4>1. a.s.mode = "Forbid" /\ a.s.status # "Down" =>
                a.crossed \/ \E k \in 1..Len(a.q) : a.q[k].ev = "Termination" \/ a.q[k].chosen = "Down"
        BY <1>1 DEF ModeKept, ForbidPending
      <4>2. p.crossed = a.crossed /\ \A k \in 1..Len(a.q) : k \in 1..Len(p.q) /\ p.q[k] = a.q[k]
        BY <1>5, <1>6, <3>3, Posted DEF p
      <4> QED
        BY <1>2, <2>4, <3>3, <4>1, <4>2 DEF ForbidPending
    <3> QED
      BY <3>1, <3>2, <3>3
  <2>7. ModeKept(r)
    BY <1>2, <2>3, <2>4, <2>5, <2>6 DEF ModeKept
  <2> QED
    BY <1>3, <2>1, <2>4, <2>7 DEF Good
<1> QED
  BY <1>7, <1>8

LEMMA ResetAsked ==
    ASSUME NEW a, NEW full \in BOOLEAN, Good(a)
    PROVE  Good(Async_E2ESessionReset(a, full))
<1> DEFINE ev == ResetEvent(a.s.mode, a.s.status)
           p == DM_EXEC_PostE2eEvent(a, ev, full)
<1>1. a \in Agent
  BY DEF Good
<1>2. ev \in Events
  BY DEF ResetEvent, Events
<1>3. Async_E2ESessionReset(a, full) = a \/ Async_E2ESessionReset(a, full) = p
  BY DEF Async_E2ESessionReset
<1> HIDE DEF ev
<1>4. \/ p = a
      \/ /\ p \in Agent /\ p.s = a.s /\ p.db = a.db /\ p.blank = a.blank /\ p.crossed = a.crossed
         /\ p.q # <<>>
         /\ \A k \in 1..Len(a.q) : k \in 1..Len(p.q) /\ p.q[k] = a.q[k]
  BY <1>1, <1>2, Posted
<1> HIDE DEF p
<1>5. Good(p)
  BY <1>4 DEF Good, ModeKept, ForbidPending
<1> QED
  BY <1>3, <1>5

(* A session that was just added, initialised or not.                      *)
LEMMA Added ==
    ASSUME NEW a \in Agent, NEW enable \in {"off", "on"}, NEW db \in Modes,
           NEW hasMtps \in BOOLEAN
    PROVE  Good(ProcessControllerAdded(a, enable, db, hasMtps))
<1> DEFINE s == IF hasMtps THEN ProcessControllerE2ESessionAdded(db) ELSE Blank
           c == ProcessControllerAdded(a, enable, db, hasMtps)
<1>1. /\ s \in Session /\ s.mode = s.buffered /\ s.sar = <<>> /\ s.snd = 0 /\ s.rcv = 0
      /\ hasMtps => s.buffered = db /\ s.status = "Down" /\ s.id = 1
      /\ ~hasMtps => s.buffered = "Require"
  <2>1. <<>> \in Seq(Record) /\ {"Down", "Up"} \subseteq Statuses /\ "Require" \in Modes
    BY DEF Statuses, Modes
  <2> QED
    BY <2>1 DEF ProcessControllerE2ESessionAdded, Blank, Session, E2E_FIRST_VALID_SESS_ID
<1>2. c = [a EXCEPT !.cont = enable, !.db = db, !.blank = ~hasMtps, !.crossed = FALSE, !.s = s]
  BY DEF ProcessControllerAdded
<1> HIDE DEF s, c
<1>3. c \in Agent /\ c.s = s /\ c.db = db /\ c.blank = ~hasMtps
  BY <1>1, <1>2 DEF Agent
<1>4. GoodSession(s, ~hasMtps)
  BY <1>1 DEF GoodSession, Segments
<1>5. ModeKept(c)
  BY <1>1, <1>3 DEF ModeKept, ForbidPending
<1> QED
  BY <1>3, <1>4, <1>5 DEF Good, c

LEMMA Deleted ==
    ASSUME NEW a \in Agent
    PROVE  Good(NoController(a))
<1> DEFINE c == [a EXCEPT !.cont = "none", !.s = Blank, !.blank = TRUE]
<1>1. /\ Blank \in Session /\ Blank.sar = <<>> /\ Blank.status = "Up"
      /\ Blank.mode = "Require" /\ Blank.buffered = "Require"
  <2>1. <<>> \in Seq(Record) /\ "Up" \in Statuses /\ "Require" \in Modes
    BY DEF Statuses, Modes
  <2> QED
    BY <2>1 DEF Blank, Session
<1>2. c \in Agent /\ c.s = Blank /\ c.blank
  BY <1>1 DEF Agent
<1>3. GoodSession(Blank, TRUE)
  BY <1>1 DEF GoodSession, Segments
<1> HIDE DEF c
<1>4. Good(c)
  BY <1>1, <1>2, <1>3 DEF Good, ModeKept, ForbidPending
<1> QED
  BY <1>4 DEF c, NoController

(* Enabling and disabling the controller, and stopping the process, leave  *)
(* the session as it is.                                                   *)
LEMMA OnlyCont ==
    ASSUME NEW a, Good(a), NEW cont \in {"off", "on"}, NEW running \in BOOLEAN
    PROVE  Good([a EXCEPT !.cont = cont]) /\ Good([a EXCEPT !.running = running])
<1> DEFINE c == [a EXCEPT !.cont = cont]
           d == [a EXCEPT !.running = running]
<1>1. /\ c \in Agent /\ c.s = a.s /\ c.db = a.db /\ c.q = a.q /\ c.crossed = a.crossed
      /\ c.blank = a.blank
  BY DEF Good, Agent
<1>2. /\ d \in Agent /\ d.s = a.s /\ d.db = a.db /\ d.q = a.q /\ d.crossed = a.crossed
      /\ d.blank = a.blank
  BY DEF Good, Agent
<1> HIDE DEF c, d
<1>3. Good(c) /\ Good(d)
  BY <1>1, <1>2 DEF Good, ModeKept, ForbidPending
<1> QED
  BY <1>3 DEF c, d

LEMMA Performed ==
    ASSUME NEW a, NEW req \in Requests, NEW full \in BOOLEAN, Good(a)
    PROVE  Good(Perform(a, req, full))
<1>1. a \in Agent
  BY DEF Good
<1>2. \/ Perform(a, req, full) \in
            {a, Async_E2ESessionReset(a, full), [a EXCEPT !.cont = "on"],
             [a EXCEPT !.cont = "off"], NoController(a)}
      \/ /\ req \in Modes
         /\ Perform(a, req, full) = Notify_E2ESessionMode(a, req, full)
  <2>1. CASE a.cont = "none"
    BY <2>1 DEF Perform
  <2>2. CASE a.cont # "none" /\ req \in Modes
    BY <2>2 DEF Perform, Modes
  <2>3. CASE a.cont # "none" /\ req \in {"Reset", "Enable", "Disable", "Delete", "Other"}
    BY <2>3 DEF Perform, Modes
  <2> QED
    BY <2>1, <2>2, <2>3 DEF Requests
<1>3. Good(Async_E2ESessionReset(a, full))
  BY ResetAsked
<1>4. Good([a EXCEPT !.cont = "on"]) /\ Good([a EXCEPT !.cont = "off"])
  BY OnlyCont
<1>5. Good(NoController(a))
  BY <1>1, Deleted
<1>6. req \in Modes => Good(Notify_E2ESessionMode(a, req, full))
  BY ModeNotified
<1> QED
  BY <1>2, <1>3, <1>4, <1>5, <1>6

LEMMA MessageHandled ==
    ASSUME NEW a, NEW req \in Requests, NEW full \in BOOLEAN, NEW n \in Nat, Good(a)
    PROVE  Good(HandleMessage(a, req, full, n))
BY Performed, RecordQueued DEF HandleMessage
---------------------------------------------------------------------------
(* Records received.                                                       *)

(* What the SAR state of a record of the controller says about its place   *)
(* in the message.                                                         *)
LEMMA SarPlace ==
    ASSUME NEW r \in Records
    PROVE  /\ r \in Record /\ r.sid >= 2 /\ r.seq >= 1 /\ r.part <= r.of
           /\ r.of = 0 <=> r.part = 0
           /\ Sar(r) = "NONE" <=> r.of <= 1
           /\ Sar(r) = "BEGIN" <=> r.of > 1 /\ r.part = 1
           /\ Sar(r) = "COMPLETE" <=> r.of > 1 /\ r.part = r.of
           /\ r.seq = 1 => r.part = 1 \/ r.of = 0
<1>1. /\ r \in Record /\ r.sid >= 2 /\ r.seq >= 1 /\ r.part <= r.of
      /\ r.of = 0 <=> r.part = 0
      /\ r.seq = 1 => r.part = 1 \/ r.of = 0
  BY RecordsAssumption DEF E2E_FIRST_VALID_SESS_ID, E2E_FIRST_SEQ_ID, Begins
<1>2. r.part \in Nat /\ r.of \in Nat
  BY <1>1 DEF Record
<1>3. CASE r.of <= 1
  BY <1>1, <1>2, <1>3 DEF Sar
<1>4. CASE r.of > 1 /\ r.part = 1
  BY <1>1, <1>2, <1>4 DEF Sar
<1>5. CASE r.of > 1 /\ r.part = r.of
  BY <1>1, <1>2, <1>5 DEF Sar
<1>6. CASE r.of > 1 /\ r.part # 1 /\ r.part # r.of
  BY <1>1, <1>2, <1>6 DEF Sar
<1> QED
  BY <1>1, <1>2, <1>3, <1>4, <1>5, <1>6

(* A record that is accepted is of the session it is then kept for, and    *)
(* that session is up; what was kept before is of the same session.        *)
LEMMA Accepted ==
    ASSUME NEW s, NEW b \in BOOLEAN, GoodSession(s, b), NEW r \in Records,
           ValidateSessionContextHandling(s, r)
    PROVE  LET t == Received(s, r)
           IN  /\ t \in Session /\ t.status = "Up" /\ t.id = r.sid /\ t.rcv = r.seq
               /\ t.mode = s.mode /\ t.buffered = s.buffered
               /\ t.sar = IF s.id = r.sid THEN s.sar ELSE <<>>
               /\ s.mode # "Forbid"
<1> DEFINE c == IF s.id # r.sid THEN ClearE2eSessionState(s) ELSE s
           t == Received(s, r)
<1>1. /\ c \in Session /\ c.mode = s.mode /\ c.buffered = s.buffered
      /\ c.sar = IF s.id = r.sid THEN s.sar ELSE <<>>
  <2>1. /\ GoodSession(ClearE2eSessionState(s), b)
        /\ ClearE2eSessionState(s).mode = s.mode
        /\ ClearE2eSessionState(s).buffered = s.buffered
        /\ ClearE2eSessionState(s).status = "Down"
    BY Clear DEF GoodSession
  <2> QED
    BY <2>1 DEF GoodSession
<1>2. t = [c EXCEPT !.id = r.sid, !.rcv = r.seq, !.status = "Up"]
  BY DEF Received
<1>3. r.sid \in Nat /\ r.seq \in Nat /\ "Up" \in Statuses
  BY SarPlace DEF Record, Statuses
<1> HIDE DEF c, t
<1>4. /\ t \in Session /\ t.status = "Up" /\ t.id = r.sid /\ t.rcv = r.seq
      /\ t.mode = c.mode /\ t.buffered = c.buffered /\ t.sar = c.sar
  BY <1>1, <1>2, <1>3 DEF Session
<1>5. s.mode # "Forbid"
  BY DEF ValidateSessionContextHandling
<1> QED
  BY <1>1, <1>4, <1>5 DEF t

(* The segments kept and one that fits are the first segments of a message.*)
LEMMA OneMore ==
    ASSUME NEW s, NEW b \in BOOLEAN, GoodSession(s, b), NEW r \in Records,
           ValidateSessionContextHandling(s, r), r.of > 1,
           IsValidPayload(Received(s, r).sar, r)
    PROVE  LET v == Append(Received(s, r).sar, r)
           IN  /\ v \in Seq(Record) /\ v # <<>> /\ v[Len(v)] = r /\ Len(v) = r.part
               /\ v[1].of = r.of /\ Len(v) \in Nat
               /\ \A k \in 1..Len(v) :
                    /\ v[k] \in Records /\ v[k].sid = r.sid /\ v[k].seq = v[1].seq + k - 1
                    /\ v[k].part = k /\ v[k].of = v[1].of
<1> DEFINE t == Received(s, r)
           v == Append(t.sar, r)
<1>1. /\ t.sar = IF s.id = r.sid THEN s.sar ELSE <<>>
      /\ t.sar \in Seq(Record)
  BY Accepted DEF Session
<1>2. /\ r \in Record /\ r.seq >= 1 /\ r.part <= r.of /\ r.part # 0
      /\ r.part \in Nat /\ r.of \in Nat /\ r.seq \in Nat
  BY SarPlace DEF Record
<1>3. IsValidPayload(t.sar, r)
  OBVIOUS
<1>4. /\ s.sar = <<>> => Sar(r) = "BEGIN"
      /\ s.sar # <<>> => Sar(r) # "BEGIN"
      /\ s.id = r.sid \/ r.seq = 1
  <2>1. Sar(r) # "NONE"
    BY <1>2, SarPlace
  <2> QED
    BY <2>1 DEF ValidateSessionContextHandling, IsValidE2eSarState, E2E_FIRST_SEQ_ID
<1>5. s.sar # <<>> => s.id = r.sid
  BY <1>2, <1>4, SarPlace
<1> HIDE DEF t
<1>6. CASE s.sar = <<>>
  <2>1. r.part = 1 /\ t.sar = <<>>
    BY <1>1, <1>4, <1>6, SarPlace
  <2>2. v = <<r>>
    BY <2>1
  <2> QED
    BY <1>2, <2>1, <2>2 DEF t
<1>7. CASE s.sar # <<>>
  <2> DEFINE w == s.sar
             l == w[Len(w)]
  <2>1. t.sar = w /\ w \in Seq(Record) /\ w # <<>> /\ Len(w) \in Nat /\ Len(w) >= 1
    BY <1>1, <1>5, <1>7
  <2>2. /\ Len(w) < w[1].of
        /\ \A k \in 1..Len(w) :
            /\ w[k] \in Records /\ w[k].sid = s.id /\ w[k].seq = w[1].seq + k - 1
            /\ w[k].part = k /\ w[k].of = w[1].of
    BY <1>7 DEF GoodSession, Segments
  <2> HIDE DEF w
  <2>3. l \in Records /\ l.part = Len(w) /\ l.of = w[1].of /\ l.seq = w[1].seq + Len(w) - 1
    BY <2>1, <2>2
  <2>4. r.sid = l.sid /\ r.seq = l.seq + 1
    BY <1>3, <2>1 DEF IsValidPayload
  <2>5. r.part = l.part + 1 /\ r.of = l.of
    <3>1. Follows(l, r) /\ l.part < l.of
      BY <2>2, <2>3, <2>4 DEF Follows
    <3> QED
      BY <2>3, <3>1, RecordsAssumption
  <2>6. w[1] \in Record /\ w[1].seq \in Nat
    BY <2>1, <2>2, SarPlace DEF Record
  <2>7. /\ v \in Seq(Record) /\ Len(v) = Len(w) + 1 /\ v[Len(w) + 1] = r /\ v # <<>>
        /\ \A k \in 1..Len(w) : v[k] = w[k]
    BY <1>2, <2>1
  <2> HIDE DEF v, l
  <2>8. ASSUME NEW k \in 1..Len(v)
        PROVE  /\ v[k] \in Records /\ v[k].sid = r.sid /\ v[k].seq = w[1].seq + k - 1
               /\ v[k].part = k /\ v[k].of = w[1].of
    <3>1. CASE k \in 1..Len(w)
      BY <1>5, <1>7, <2>2, <2>7, <3>1
    <3>2. CASE k = Len(w) + 1
      BY <2>1, <2>3, <2>4, <2>5, <2>6, <2>7, <3>2
    <3> QED
      BY <2>1, <2>7, <3>1, <3>2
  <2>9. v[1] = w[1] /\ Len(v) = r.part /\ Len(v) \in Nat /\ r.of = w[1].of
    BY <2>1, <2>3, <2>5, <2>7
  <2> QED
    BY <2>7, <2>8, <2>9 DEF v, t
<1> QED
  BY <1>6, <1>7

(* A session that took a record in is good, whatever is kept with it, as   *)
(* long as that is part of one message that ends with the record.          *)
LEMMA TakenIn ==
    ASSUME NEW a, Good(a), NEW r \in Records, ValidateSessionContextHandling(a.s, r),
           NEW v \in Seq(Record),
           Segments([Received(a.s, r) EXCEPT !.sar = v])
    PROVE  Good([a EXCEPT !.s = [Received(a.s, r) EXCEPT !.sar = v]])
<1> DEFINE t == Received(a.s, r)
           u == [t EXCEPT !.sar = v]
           c == [a EXCEPT !.s = u]
<1>1. a \in Agent /\ GoodSession(a.s, a.blank) /\ ModeKept(a) /\ a.blank \in BOOLEAN
  BY DEF Good, Agent
<1>2. /\ t \in Session /\ t.status = "Up" /\ t.id = r.sid
      /\ t.mode = a.s.mode /\ t.buffered = a.s.buffered /\ a.s.mode # "Forbid"
  BY <1>1, Accepted
<1>3. r.sid >= 2 /\ r.sid \in Nat
  BY SarPlace DEF Record
<1> HIDE DEF t
<1>4. /\ u \in Session /\ u.status = "Up" /\ u.id = r.sid
      /\ u.mode = a.s.mode /\ u.buffered = a.s.buffered
  BY <1>2 DEF Session
<1>5. Segments(u)
  BY DEF t
<1> HIDE DEF u
<1>6. GoodSession(u, a.blank)
  BY <1>3, <1>4, <1>5 DEF GoodSession
<1>7. /\ c \in Agent /\ c.s = u /\ c.db = a.db /\ c.q = a.q /\ c.crossed = a.crossed
      /\ c.blank = a.blank
  BY <1>1, <1>4 DEF Agent
<1> HIDE DEF c
<1>8. ModeKept(c)
  BY <1>1, <1>2, <1>4, <1>7 DEF ModeKept, ForbidPending
<1>9. Good(c)
  BY <1>6, <1>7, <1>8 DEF Good
<1> QED
  BY <1>9 DEF c, u, t

(* The record is kept, or completes a message, or fits nowhere.            *)
LEMMA RecordHandled ==
    ASSUME NEW a, Good(a), NEW r \in Records, ValidateSessionContextHandling(a.s, r)
    PROVE  LET t == Received(a.s, r)
               taken == [a EXCEPT !.s = [t EXCEPT !.sar = Kept(t, r)]]
               done == Completed(t, r)
               fits == r.of > 1 => IsValidPayload(t.sar, r)
           IN  /\ fits => Good(taken)
               /\ fits /\ done # <<>> =>
                    /\ Whole(done) /\ done \in Seq(Record)
                    /\ \A k \in 1..Len(done) : done[k] \in Records
<1> DEFINE t == Received(a.s, r)
           v == Append(t.sar, r)
           taken == [a EXCEPT !.s = [t EXCEPT !.sar = Kept(t, r)]]
           done == Completed(t, r)
           fits == r.of > 1 => IsValidPayload(t.sar, r)
<1>1. a \in Agent /\ GoodSession(a.s, a.blank) /\ a.blank \in BOOLEAN
  BY DEF Good, Agent
<1>2. /\ t \in Session /\ t.status = "Up" /\ t.id = r.sid /\ t.rcv = r.seq
      /\ t.sar = IF a.s.id = r.sid THEN a.s.sar ELSE <<>>
  BY <1>1, Accepted
<1>3. r \in Record /\ r.part \in Nat /\ r.of \in Nat /\ r.part <= r.of
  BY SarPlace DEF Record
<1>4. \A x \in Seq(Record) : LET u == [t EXCEPT !.sar = x]
                             IN  u.sar = x /\ u.status = "Up" /\ u.id = r.sid /\ u.rcv = r.seq
  BY <1>2 DEF Session
<1>5. CASE r.of <= 1
  <2>1. a.s.sar = <<>>
    BY <1>5, SarPlace DEF ValidateSessionContextHandling, IsValidE2eSarState
  <2>2. Kept(t, r) = <<>>
    BY <1>2, <1>3, <1>5, <2>1 DEF Kept
  <2>3. Good(taken)
    <3>1. <<>> \in Seq(Record)
      OBVIOUS
    <3>2. Segments([t EXCEPT !.sar = <<>>])
      BY <1>4, <3>1 DEF Segments
    <3> QED
      BY <2>2, <3>1, <3>2, TakenIn
  <2>4. done # <<>> => r.of = 1 /\ r.part = 1 /\ done = <<r>>
    BY <1>3, <1>5, SarPlace DEF Completed
  <2>5. done # <<>> => Whole(done) /\ done \in Seq(Record)
                       /\ \A k \in 1..Len(done) : done[k] \in Records
    <3> SUFFICES ASSUME done # <<>>
                 PROVE  Whole(<<r>>) /\ <<r>> \in Seq(Record)
                        /\ \A k \in 1..Len(<<r>>) : <<r>>[k] \in Records
      BY <2>4
    <3>1. r.of = 1 /\ r.part = 1 /\ Len(<<r>>) = 1 /\ <<r>>[1] = r
      BY <2>4
    <3>2. r = [sid |-> r.sid, seq |-> r.seq + 1 - 1, part |-> 1, of |-> r.of]
      BY <1>3, <3>1 DEF Record
    <3> HIDE DEF done
    <3> QED
      BY <1>3, <3>1, <3>2 DEF Whole
  <2> QED
    BY <2>3, <2>5
<1>6. CASE r.of > 1 /\ ~IsValidPayload(t.sar, r)
  BY <1>6
<1>7. CASE r.of > 1 /\ IsValidPayload(t.sar, r)
  <2>1. /\ v \in Seq(Record) /\ v # <<>> /\ v[Len(v)] = r /\ Len(v) = r.part
        /\ v[1].of = r.of /\ Len(v) \in Nat
        /\ \A k \in 1..Len(v) :
            /\ v[k] \in Records /\ v[k].sid = r.sid /\ v[k].seq = v[1].seq + k - 1
            /\ v[k].part = k /\ v[k].of = v[1].of
    BY <1>1, <1>7, OneMore
  <2>2. Sar(r) = "COMPLETE" <=> r.part = r.of
    BY <1>7, SarPlace
  <2>3. CASE r.part = r.of
    <3>1. Kept(t, r) = <<>> /\ done = v
      BY <1>3, <1>7, <2>2, <2>3 DEF Kept, Completed
    <3>2. Good(taken)
      <4>1. <<>> \in Seq(Record)
        OBVIOUS
      <4>2. Segments([t EXCEPT !.sar = <<>>])
        BY <1>4, <4>1 DEF Segments
      <4> QED
        BY <3>1, <4>1, <4>2, TakenIn
    <3> HIDE DEF v
    <3>3. ASSUME NEW k \in 1..Len(v)
          PROVE  v[k] = [sid |-> v[1].sid, seq |-> v[1].seq + k - 1, part |-> k, of |-> v[1].of]
      <4>1. v[k] \in Record
        BY <2>1, <3>3
      <4>2. 1 \in 1..Len(v) /\ v[1].sid = r.sid
        BY <2>1
      <4> QED
        BY <2>1, <4>1, <4>2 DEF Record
    <3>4. Whole(v)
      BY <2>1, <2>3, <3>3 DEF Whole
    <3> QED
      BY <2>1, <3>1, <3>2, <3>4
  <2>4. CASE r.part # r.of
    <3>1. Kept(t, r) = v /\ done = <<>>
      BY <1>3, <1>7, <2>2, <2>4 DEF Kept, Completed
    <3> HIDE DEF v
    <3>2. Segments([t EXCEPT !.sar = v])
      BY <1>3, <1>4, <2>1, <2>4 DEF Segments
    <3>3. Good(taken)
      BY <2>1, <3>1, <3>2, TakenIn
    <3> QED
      BY <3>1, <3>3
  <2> QED
    BY <2>3, <2>4
<1> QED
  BY <1>3, <1>5, <1>6, <1>7


(* A record that fits nowhere: the event clears what it has done.          *)
LEMMA MisfitRefused ==
    ASSUME NEW a, Good(a), a.cont = "on", NEW r \in Records,
           ValidateSessionContextHandling(a.s, r)
    PROVE  Good(Refuse([a EXCEPT !.s = Received(a.s, r)]))
<1> DEFINE t == Received(a.s, r)
           c == [a EXCEPT !.s = t]
           ev == IF c.s.mode = "Require" THEN "Restart" ELSE "Termination"
<1>1. a \in Agent /\ GoodSession(a.s, a.blank) /\ ModeKept(a) /\ a.blank \in BOOLEAN
  BY DEF Good, Agent
<1>2. t \in Session /\ t.id = r.sid /\ t.buffered = a.s.buffered
  BY <1>1, Accepted
<1>3. r.sid >= 2 /\ r.sid \in Nat
  BY SarPlace DEF Record
<1> HIDE DEF t
<1>4. c \in Agent /\ c.s = t /\ c.db = a.db /\ c.blank = a.blank /\ c.cont = "on"
  BY <1>1, <1>2 DEF Agent
<1> HIDE DEF c
<1>5. ev \in Events /\ ev # "None"
  BY DEF Events
<1>6. Refuse(c) = E2E_CONTEXT_E2eSessionEvent(c, ev)
  BY DEF Refuse
<1> HIDE DEF ev
<1>7. ~c.blank => c.s.id >= 1 /\ c.s.buffered = c.db
  BY <1>1, <1>2, <1>3, <1>4 DEF ModeKept
<1>8. Good(Refuse(c))
  BY <1>4, <1>5, <1>6, <1>7, EventClears
<1> QED
  BY <1>8 DEF c, t

---------------------------------------------------------------------------
(* The invariant.                                                          *)

IInv == Good(ag) /\ handled \in Seq(Record) /\ HandledIsWhole

(* A step that completes no message.                                       *)
LEMMA Nothing ==
    ASSUME handled' = <<>>
    PROVE  handled' \in Seq(Record) /\ HandledIsWhole'
<1>1. <<>> \in Seq(Record)
  OBVIOUS
<1> QED
  BY <1>1 DEF HandledIsWhole

LEMMA InitOK ==
    Init => IInv
<1> SUFFICES ASSUME Init
             PROVE  IInv
  OBVIOUS
<1>1. PICK db \in Modes, enable \in {"off", "on"} :
        ag = [s |-> ProcessControllerE2ESessionAdded(db), cont |-> enable, db |-> db, q |-> <<>>,
              running |-> TRUE, crossed |-> FALSE, blank |-> FALSE]
  BY DEF Init
<1>2. /\ ProcessControllerE2ESessionAdded(db) \in Session
      /\ ProcessControllerE2ESessionAdded(db).sar = <<>>
      /\ ProcessControllerE2ESessionAdded(db).status = "Down"
      /\ ProcessControllerE2ESessionAdded(db).mode = db
      /\ ProcessControllerE2ESessionAdded(db).buffered = db
      /\ ProcessControllerE2ESessionAdded(db).snd = 0
      /\ ProcessControllerE2ESessionAdded(db).rcv = 0
      /\ ProcessControllerE2ESessionAdded(db).id = 1
  <2>1. <<>> \in Seq(Record) /\ "Down" \in Statuses
    BY DEF Statuses
  <2> QED
    BY <2>1 DEF ProcessControllerE2ESessionAdded, Session, E2E_FIRST_VALID_SESS_ID
<1>3. ag \in Agent
  <2>1. <<>> \in Seq([ev: Events, chosen: Statuses])
    OBVIOUS
  <2> QED
    BY <1>1, <1>2, <2>1 DEF Agent
<1>4. GoodSession(ag.s, ag.blank)
  BY <1>1, <1>2 DEF GoodSession, Segments
<1>5. ModeKept(ag)
  BY <1>1, <1>2 DEF ModeKept, ForbidPending
<1>6. handled \in Seq(Record) /\ HandledIsWhole
  <2>1. handled = <<>> /\ <<>> \in Seq(Record)
    BY DEF Init
  <2> QED
    BY <2>1 DEF HandledIsWhole
<1> QED
  BY <1>3, <1>4, <1>5, <1>6 DEF IInv, Good

LEMMA SessionRecordStep ==
    ASSUME IInv, NEW r \in Records, E2E_CONTEXT_HandleSessionRecord(r)
    PROVE  IInv'
<1> DEFINE t == Received(ag.s, r)
           taken == [ag EXCEPT !.s = [t EXCEPT !.sar = Kept(t, r)]]
           done == Completed(t, r)
           fits == r.of > 1 => IsValidPayload(t.sar, r)
<1>1. Good(ag) /\ ag.cont = "on"
  BY DEF IInv, E2E_CONTEXT_HandleSessionRecord
<1>2. CASE ag' = Refuse(ag) /\ handled' = <<>>
  BY <1>1, <1>2, Refused, Nothing DEF IInv
<1>3. CASE /\ ValidateSessionContextHandling(ag.s, r)
           /\ ag' = Refuse([ag EXCEPT !.s = t]) /\ handled' = <<>>
  BY <1>1, <1>3, MisfitRefused, Nothing DEF IInv
<1>4. CASE ValidateSessionContextHandling(ag.s, r) /\ fits /\ ag' = taken /\ handled' = <<>>
  BY <1>1, <1>4, RecordHandled, Nothing DEF IInv
<1>5. CASE /\ ValidateSessionContextHandling(ag.s, r) /\ fits /\ done # <<>>
           /\ \E req \in Requests, full \in BOOLEAN, n \in 0..MaxParts :
                ag' = HandleMessage(taken, req, full, n)
           /\ handled' = done
  <2>1. Good(taken) /\ Whole(done) /\ done \in Seq(Record)
        /\ \A k \in 1..Len(done) : done[k] \in Records
    BY <1>1, <1>5, RecordHandled
  <2> HIDE DEF taken, done
  <2>2. Good(ag')
    <3>1. PICK req \in Requests, full \in BOOLEAN, n \in 0..MaxParts :
                ag' = HandleMessage(taken, req, full, n)
      BY <1>5
    <3>2. n \in Nat
      BY BoundsAssumption
    <3> QED
      BY <2>1, <3>1, <3>2, MessageHandled
  <2> QED
    BY <1>5, <2>1, <2>2 DEF IInv, HandledIsWhole, Whole
<1> QED
  BY <1>2, <1>3, <1>4, <1>5 DEF E2E_CONTEXT_HandleSessionRecord

LEMMA OtherSteps ==
    ASSUME IInv,
           \/ E2E_CONTEXT_HandleNoSessionRecord
           \/ E2E_CONTEXT_HandleUnsupportedRecord
           \/ HandleE2eSessionEvent
           \/ HandleOtherRequest
           \/ SendNotify
           \/ Stop
           \/ DEVICE_CONTROLLER_Start
    PROVE  IInv'
<1>1. Good(ag) /\ ag \in Agent
  BY DEF IInv, Good
<1>2. handled' \in Seq(Record) /\ HandledIsWhole'
  <2>1. handled' = <<>>
    BY DEF E2E_CONTEXT_HandleNoSessionRecord, E2E_CONTEXT_HandleUnsupportedRecord,
           HandleE2eSessionEvent, HandleOtherRequest, SendNotify, Stop, DEVICE_CONTROLLER_Start
  <2> QED
    BY <2>1, Nothing
<1>3. CASE E2E_CONTEXT_HandleNoSessionRecord
  <2>1. ASSUME ag' = Refuse(ag)
        PROVE  Good(ag')
    BY <1>1, <2>1, Refused
  <2>2. ASSUME \E req \in Requests, full \in BOOLEAN, n \in 0..MaxParts :
                ag' = HandleMessage(ag, req, full, n)
        PROVE  Good(ag')
    <3>1. PICK req \in Requests, full \in BOOLEAN, n \in 0..MaxParts :
                ag' = HandleMessage(ag, req, full, n)
      BY <2>2
    <3>2. n \in Nat
      BY BoundsAssumption
    <3> QED
      BY <1>1, <3>1, <3>2, MessageHandled
  <2>3. Good(ag')
    BY <1>3, <2>1, <2>2 DEF E2E_CONTEXT_HandleNoSessionRecord
  <2> QED
    BY <1>2, <2>3 DEF IInv
<1>4. CASE E2E_CONTEXT_HandleUnsupportedRecord
  <2>1. ag' = E2E_CONTEXT_E2eSessionEvent(ag, "Restart") /\ ag.cont = "on"
    BY <1>4 DEF E2E_CONTEXT_HandleUnsupportedRecord
  <2>2. ~ag.blank => ag.s.id >= 1 /\ ag.s.buffered = ag.db
    BY <1>1 DEF Good, GoodSession, ModeKept
  <2>3. "Restart" \in Events
    BY DEF Events
  <2>4. Good(ag')
    BY <1>1, <2>1, <2>2, <2>3, EventClears
  <2> QED
    BY <1>2, <2>4 DEF IInv
<1>5. CASE HandleE2eSessionEvent
  <2>1. Good(ag')
    BY <1>1, <1>5, EventHandled DEF HandleE2eSessionEvent
  <2> QED
    BY <1>2, <2>1 DEF IInv
<1>6. CASE HandleOtherRequest
  <2>1. ASSUME \E req \in Requests, full \in BOOLEAN : ag' = Perform(ag, req, full)
        PROVE  Good(ag')
    BY <1>1, <2>1, Performed
  <2>2. ASSUME \E enable \in {"off", "on"}, db \in Modes, hasMtps \in BOOLEAN :
                ag' = ProcessControllerAdded(ag, enable, db, hasMtps)
        PROVE  Good(ag')
    BY <1>1, <2>2, Added
  <2>3. Good(ag')
    BY <1>6, <2>1, <2>2 DEF HandleOtherRequest
  <2> QED
    BY <1>2, <2>3 DEF IInv
<1>7. CASE SendNotify
  <2>1. PICK n \in 1..MaxParts : ag' = MSG_HANDLER_QueueUspRecord(ag, n)
    BY <1>7 DEF SendNotify
  <2>2. n \in Nat
    BY BoundsAssumption
  <2>3. Good(ag')
    BY <1>1, <2>1, <2>2, RecordQueued
  <2> QED
    BY <1>2, <2>3 DEF IInv
<1>8. CASE Stop
  <2>1. Good(ag')
    BY <1>1, <1>8, OnlyCont DEF Stop
  <2> QED
    BY <1>2, <2>1 DEF IInv
<1>9. CASE DEVICE_CONTROLLER_Start
  <2> DEFINE a == [ag EXCEPT !.running = TRUE, !.q = <<>>]
  <2>1. a \in Agent /\ ag.db \in Modes /\ ag.cont \in {"none", "off", "on"}
    <3>1. <<>> \in Seq([ev: Events, chosen: Statuses])
      OBVIOUS
    <3> QED
      BY <1>1, <3>1 DEF Agent
  <2>2. CASE ag.cont # "none"
    <3>1. \E hasMtps \in BOOLEAN : ag' = ProcessControllerAdded(a, ag.cont, ag.db, hasMtps)
      BY <1>9, <2>2 DEF DEVICE_CONTROLLER_Start
    <3> HIDE DEF a
    <3>2. Good(ag')
      BY <2>1, <2>2, <3>1, Added
    <3> QED
      BY <1>2, <3>2 DEF IInv
  <2>3. CASE ag.cont = "none"
    <3>1. ag' = NoController(a)
      BY <1>9, <2>3 DEF DEVICE_CONTROLLER_Start
    <3> HIDE DEF a
    <3>2. Good(ag')
      BY <2>1, <3>1, Deleted
    <3> QED
      BY <1>2, <3>2 DEF IInv
  <2> QED
    BY <2>1, <2>2, <2>3
<1> QED
  BY <1>3, <1>4, <1>5, <1>6, <1>7, <1>8, <1>9

(* The invariant is inductive: every operation of the DM thread on the     *)
(* sessions preserves it.                                                  *)
THEOREM Invariance == Spec => []IInv
<1>1. IInv /\ [Next]_vars => IInv'
  <2> SUFFICES ASSUME IInv, [Next]_vars
               PROVE  IInv'
    OBVIOUS
  <2>1. CASE \E r \in Records : E2E_CONTEXT_HandleSessionRecord(r)
    BY <2>1, SessionRecordStep
  <2>2. CASE Next /\ ~(\E r \in Records : E2E_CONTEXT_HandleSessionRecord(r))
    BY <2>2, OtherSteps DEF Next
  <2>3. CASE UNCHANGED vars
    BY <2>3 DEF vars, IInv, HandledIsWhole, Whole
  <2> QED
    BY <2>1, <2>2, <2>3
<1> QED
  BY <1>1, InitOK, PTL DEF Spec

(* Types: e2e_session_t, the event queue and the message handed over.      *)
THEOREM TypeCorrect == Spec => []TypeOK
<1>1. IInv => TypeOK
  BY DEF IInv, Good, TypeOK
<1> QED
  BY <1>1, Invariance, PTL

(* Whatever the transport does to the records, HandleSessionContextRecord  *)
(* hands over whole messages only.                                         *)
THEOREM Reassembly == Spec => []HandledIsWhole
<1>1. IInv => HandledIsWhole
  BY DEF IInv
<1> QED
  BY <1>1, Invariance, PTL

(* The counters, the segments kept and the status of a session agree.      *)
THEOREM Soundness == Spec => []SessionSound
<1>1. IInv => SessionSound
  <2> SUFFICES ASSUME IInv
               PROVE  SessionSound
    OBVIOUS
  <2>1. GoodSession(ag.s, ag.blank)
    BY DEF IInv, Good
  <2>2. ag.s.status = "Down" => ag.s.snd = 0 /\ ag.s.rcv = 0 /\ ag.s.sar = <<>>
    BY <2>1 DEF GoodSession
  <2>3. ASSUME ag.s.sar # <<>>
        PROVE  LET r == ag.s.sar[Len(ag.s.sar)]
               IN  /\ ag.s.status = "Up"
                   /\ r.sid = ag.s.id /\ r.seq = ag.s.rcv
                   /\ r.part = Len(ag.s.sar) /\ r.part < r.of
    <3>1. ag.s.sar \in Seq(Record) /\ Segments(ag.s)
      BY <2>1 DEF GoodSession, Session
    <3>2. Len(ag.s.sar) \in 1..Len(ag.s.sar)
      BY <2>3, <3>1
    <3> QED
      BY <2>3, <3>1, <3>2 DEF Segments
  <2>4. ag.s.status # "Down" /\ ~ag.blank => ag.s.id >= E2E_FIRST_VALID_SESS_ID
    BY <2>1 DEF GoodSession, E2E_FIRST_VALID_SESS_ID
  <2> QED
    BY <2>2, <2>3, <2>4 DEF SessionSound
<1> QED
  BY <1>1, Invariance, PTL

(* A change of SessionMode takes effect, and Forbid ends the session,      *)
(* unless an event was lost or overtaken.                                  *)
THEOREM ModeChanges == Spec => []ModeHonoured
<1>1. IInv => ModeHonoured
  <2> SUFFICES ASSUME IInv
               PROVE  ModeHonoured
    OBVIOUS
  <2>1. ModeKept(ag)
    BY DEF IInv, Good
  <2>2. ~ag.blank => ag.s.buffered = ag.db
    BY <2>1 DEF ModeKept
  <2>3. ag.s.mode # ag.s.buffered => ag.q # <<>> \/ ag.crossed
    BY <2>1 DEF ModeKept
  <2>4. ag.s.mode = "Forbid" /\ ag.s.status # "Down" =>
            \/ ag.crossed
            \/ \E k \in 1..Len(ag.q) :
                    ag.q[k].ev = "Termination" \/ ag.q[k].chosen # ag.s.status
    BY <2>1 DEF ModeKept, ForbidPending
  <2> QED
    BY <2>2, <2>3, <2>4 DEF ModeHonoured
<1> QED
  BY <1>1, Invariance, PTL
=============================================================================
