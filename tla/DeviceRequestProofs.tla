------------------------ MODULE DeviceRequestProofs -------------------------
(***************************************************************************)
(* Proofs about DeviceRequest, for any invocations, any queue, commits     *)
(* that fail and any number of crashes.                                    *)
(***************************************************************************)
EXTENDS DeviceRequest, FiniteSetTheorems, TLAPS

(* The DM thread is in the restart loop, or in a deletion made by it. *)
InRestart == dm.at = "restart" \/ (dm.at = "cascade" /\ dm.back = "restart")

(* Rows are left to the restart loop only while it runs, and what is being *)
(* cascaded is the deletion of a row that is gone.                         *)
Base ==
    /\ TypeOK
    /\ todo # {} => InRestart
    /\ dm.at = "cascade" => table[dm.num] = None

Places == DOMAIN queue

(* A thread works on the row of its own operation, alone. *)
ThreadsOwn ==
    /\ \A t \in threads : /\ table[t.num] = t.op
                          /\ t.num \notin todo
                          /\ dm.at = "message" => dm.msg.num # t.num
                          /\ \A i \in Places : queue[i].num # t.num
    /\ \A t, u \in threads : t.num = u.num => t = u

(* A queued message is about the row of its own operation, and is the only *)
(* one, but for a status that is followed by the event of the same Reset().*)
QueueOwn ==
    /\ \A i \in Places : table[queue[i].num] = queue[i].op /\ queue[i].num \notin todo
    /\ \A i, j \in Places :
          i < j /\ queue[i].num = queue[j].num
            => queue[i].kind = "OperStatus" /\ queue[j].kind = "E2eSessionEvent"

(* So is the message being handled. *)
MessageOwn ==
    dm.at = "message" =>
        /\ table[dm.msg.num] = dm.msg.op
        /\ \A i \in Places :
              queue[i].num = dm.msg.num
                => dm.msg.kind = "OperStatus" /\ queue[i].kind = "E2eSessionEvent"

(* Nothing works on a row before the restart loop has begun. *)
Quiet == ~enabled /\ ~InRestart => threads = {} /\ queue = <<>> /\ dm.at # "message"

Faithful == "stray" \in faults \/ (ThreadsOwn /\ QueueOwn /\ MessageOwn /\ Quiet)

(* Nothing fails: every commit succeeds, and the process goes on. *)
Reliable == ~CommitMayFail /\ MaxCrashes = 0
ArgsKept == Reliable => ArgsGoWithRow

(* The inductive invariant. *)
IInv == Base /\ NothingForgotten /\ OwnArgs /\ ArgsKept /\ Faithful

-----------------------------------------------------------------------------
(* Instance numbers are natural numbers, and a new one is that of no row. *)
LEMMA NumsNat == Nums \subseteq Nat
BY OpsAssumption, FS_CardinalityType DEF Nums

LEMMA NewIsFree ==
    ASSUME NEW n \in Nums, NewRow(n) PROVE table[n] = None
BY NumsNat DEF NewRow, Rows

(* What the phases of the DM thread are made of. *)
LEMMA PhaseParts ==
    ASSUME dm \in Phases
    PROVE  \/ dm.at \in {"idle", "restart"}
           \/ dm.at = "message" /\ dm.msg \in Message
           \/ dm.at = "cascade" /\ dm.num \in Nums /\ dm.back \in {"idle", "restart"}
BY DEF Phases

LEMMA PhasesMade ==
    /\ Idle \in Phases /\ Idle.at = "idle"
    /\ \A b \in {"idle", "restart"} : [at |-> b] \in Phases
    /\ \A m \in Message : [at |-> "message", msg |-> m] \in Phases
    /\ \A n \in Nums, b \in {"idle", "restart"} :
          [at |-> "cascade", num |-> n, back |-> b] \in Phases
BY DEF Phases, Idle

(* The outcomes of an Operate. *)
LEMMA Outcomes ==
    ASSUME NEW op \in Ops, NEW n \in Nums, NEW s \in DATA_MODEL_Operate(op, n)
    PROVE  \/ ~s.ok /\ s.threads = threads /\ s.queue = queue
           \/ /\ s.ok /\ op \in TimerOps /\ args[n] = None
              /\ s.threads = threads \cup {[num |-> n, op |-> op, again |-> FALSE]}
              /\ s.queue = queue /\ s.args = [args EXCEPT ![n] = op]
           \/ /\ ~s.ok /\ s.threads = threads /\ ~Full(queue)
              /\ s.queue = Post(queue, "OperStatus", n, op)
           \/ /\ s.ok /\ op \in ResetOps /\ s.threads = threads /\ s.args = args
              /\ ~Full(queue) /\ ~Full(Post(queue, "OperStatus", n, op))
              /\ s.queue = Post(Post(queue, "OperStatus", n, op), "E2eSessionEvent", n, op)
<1>1. CASE s = Refusal
  BY <1>1 DEF Refusal, Outcome
<1>2. CASE s # Refusal /\ op \in TimerOps
  <2>1. PICK as \in PersistOperationArgs(op, n) : s \in Start_ScheduleTimer(op, n, FALSE, as)
    BY <1>2 DEF DATA_MODEL_Operate
  <2>2. args[n] = None /\ as = [args EXCEPT ![n] = op]
    BY <2>1 DEF PersistOperationArgs
  <2>3. s = Outcome(TRUE, threads \cup {[num |-> n, op |-> op, again |-> FALSE]}, queue, as)
    BY <1>2, <2>1 DEF Start_ScheduleTimer
  <2> QED
    BY <1>2, <2>2, <2>3 DEF Outcome
<1>3. CASE s # Refusal /\ op \notin TimerOps
  <2>1. op \in ResetOps /\ s \in Async_E2ESessionReset(op, n)
    BY <1>3 DEF DATA_MODEL_Operate, Ops
  <2>2. ~Full(queue)
    BY <1>3, <2>1 DEF Async_E2ESessionReset
  <2>3. CASE Full(Post(queue, "OperStatus", n, op))
    <3>1. s = Outcome(FALSE, threads, Post(queue, "OperStatus", n, op), args)
      BY <1>3, <2>1, <2>2, <2>3 DEF Async_E2ESessionReset
    <3> QED
      BY <2>2, <3>1 DEF Outcome
  <2>4. CASE ~Full(Post(queue, "OperStatus", n, op))
    <3>1. s = Outcome(TRUE, threads, Post(Post(queue, "OperStatus", n, op),
                                          "E2eSessionEvent", n, op), args)
      BY <1>3, <2>1, <2>2, <2>4 DEF Async_E2ESessionReset
    <3> QED
      BY <2>1, <2>2, <2>4, <3>1 DEF Outcome
  <2> QED
    BY <2>3, <2>4
<1> QED
  BY <1>1, <1>2, <1>3

(* What posting does to the queue. *)
LEMMA PostParts ==
    ASSUME NEW q \in Seq(Message), NEW n \in Nums, NEW op \in Ops,
           NEW kind \in {"OperStatus", "E2eSessionEvent", "OperComplete"}
    PROVE  /\ Post(q, kind, n, op) \in Seq(Message)
           /\ Len(Post(q, kind, n, op)) = Len(q) + 1
           /\ \A i \in DOMAIN q : Post(q, kind, n, op)[i] = q[i]
           /\ DOMAIN Post(q, kind, n, op) = DOMAIN q \cup {Len(q) + 1}
           /\ Post(q, kind, n, op)[Len(q) + 1] = [kind |-> kind, num |-> n, op |-> op]
           /\ ~Full(q) => Len(Post(q, kind, n, op)) <= QueueMax
<1>1. [kind |-> kind, num |-> n, op |-> op] \in Message
  BY DEF Message
<1> QED
  BY <1>1, BoundAssumption DEF Post, Full

LEMMA QueueParts ==
    ASSUME NEW q \in Seq(Message), NEW i \in DOMAIN q
    PROVE  /\ q[i] \in Message /\ q[i].num \in Nums /\ q[i].op \in Ops /\ q[i].op # None
           /\ i \in Nat /\ 1 <= i /\ i <= Len(q)
<1>1. q[i] \in Message
  OBVIOUS
<1>2. q[i].num \in Nums /\ q[i].op \in Ops
  BY <1>1 DEF Message
<1> QED
  BY <1>1, <1>2, OpsAssumption

LEMMA ThreadParts ==
    ASSUME threads \subseteq Thread, NEW t \in threads
    PROVE  t.num \in Nums /\ t.op \in Ops /\ t.op # None
BY OpsAssumption DEF Thread

-----------------------------------------------------------------------------
(* A step that leaves the rows, their arguments and what is owed alone     *)
(* keeps these three.                                                      *)
LEMMA SameRows ==
    ASSUME NothingForgotten, OwnArgs, UNCHANGED <<table, args, owed>>
    PROVE  NothingForgotten' /\ OwnArgs'
BY DEF NothingForgotten, InTable, OwnArgs, Rows

(* An Operate keeps the invariant. *)
LEMMA OperateStep ==
    ASSUME IInv, NEW op \in Ops, HandleOperate(op)
    PROVE  IInv'
<1> USE DEF IInv, Base
<1>1. dm = Idle /\ dm' = dm /\ dm.at = "idle" /\ todo = {} /\ ~InRestart
  BY PhasesMade DEF HandleOperate, InRestart
<1>0. PICK n \in Nums : /\ NewRow(n)
        /\ \E s \in DATA_MODEL_Operate(op, n), committed \in MayCommit :
            /\ threads' = s.threads
            /\ queue' = s.queue
            /\ IF s.ok /\ committed
               THEN /\ table' = [table EXCEPT ![n] = op]
                    /\ args' = s.args
                    /\ owed' = owed \cup {op}
                    /\ faults' = IF enabled THEN faults ELSE faults \cup {"stray"}
               ELSE /\ UNCHANGED <<table, args, owed>>
                    /\ faults' = IF s.ok \/ s.queue # queue THEN faults \cup {"stray"}
                                 ELSE faults
  BY DEF HandleOperate
<1>2. PICK s \in DATA_MODEL_Operate(op, n), committed \in MayCommit :
        /\ threads' = s.threads
        /\ queue' = s.queue
        /\ IF s.ok /\ committed
           THEN /\ table' = [table EXCEPT ![n] = op]
                /\ args' = s.args
                /\ owed' = owed \cup {op}
                /\ faults' = IF enabled THEN faults ELSE faults \cup {"stray"}
           ELSE /\ UNCHANGED <<table, args, owed>>
                /\ faults' = IF s.ok \/ s.queue # queue THEN faults \cup {"stray"}
                             ELSE faults
  BY <1>0
<1>3. UNCHANGED <<active, conts, dm, todo, enabled, crashes>> /\ issued' = issued \cup {op}
  BY DEF HandleOperate
<1>4. table[n] = None
  BY <1>0, NewIsFree
<1>5. op # None
  BY OpsAssumption
<1> HIDE DEF IInv, Base
<1>6. CASE ~s.ok /\ s.threads = threads /\ s.queue = queue
  <2>1. UNCHANGED <<table, args, owed, threads, queue, faults>>
    BY <1>2, <1>6
  <2> QED
    BY <1>3, <2>1 DEF IInv, Base, TypeOK, NothingForgotten, InTable, OwnArgs, Rows, ArgsKept, ArgsGoWithRow,
       Faithful, ThreadsOwn, QueueOwn, MessageOwn, Quiet, InRestart, Places
<1>7. CASE /\ s.ok /\ op \in TimerOps /\ args[n] = None
           /\ s.threads = threads \cup {[num |-> n, op |-> op, again |-> FALSE]}
           /\ s.queue = queue /\ s.args = [args EXCEPT ![n] = op]
  <2>0. [num |-> n, op |-> op, again |-> FALSE] \in Thread
    BY DEF Thread
  <2>1. TypeOK'
    <3>1. CASE committed
      <4>1. table' = [table EXCEPT ![n] = op] /\ args' = [args EXCEPT ![n] = op]
        BY <1>2, <1>7, <3>1
      <4>2. /\ table' \in [Nums -> Ops \cup {None}] /\ args' \in [Nums -> Ops \cup {None}]
            /\ Rows \subseteq Rows'
        BY <1>5, <4>1 DEF IInv, Base, TypeOK, Rows
      <4> QED
        BY <1>2, <1>3, <1>7, <2>0, <3>1, <4>2 DEF IInv, Base, TypeOK, Faults
    <3>2. CASE ~committed
      BY <1>2, <1>3, <1>7, <2>0, <3>2 DEF IInv, Base, TypeOK, Rows, Faults
    <3> QED
      BY <3>1, <3>2
  <2>2. (NothingForgotten /\ OwnArgs /\ ArgsKept)'
    <3>1. CASE committed
      <4>1. table' = [table EXCEPT ![n] = op] /\ args' = [args EXCEPT ![n] = op]
        BY <1>2, <1>7, <3>1
      <4>2. /\ table'[n] = op /\ args'[n] = op
            /\ \A k \in Nums \ {n} : table'[k] = table[k] /\ args'[k] = args[k]
        BY <4>1 DEF IInv, Base, TypeOK
      <4>3. NothingForgotten'
        BY <1>2, <1>4, <1>7, <3>1, <4>2, OpsAssumption
           DEF IInv, Base, TypeOK, NothingForgotten, InTable
      <4>4. OwnArgs'
        BY <1>4, <4>2 DEF IInv, OwnArgs, Rows
      <4>5. ArgsKept'
        BY <1>1, <1>3, <1>5, <4>2 DEF IInv, ArgsKept, ArgsGoWithRow
      <4> QED
        BY <4>3, <4>4, <4>5
    <3>2. CASE ~committed
      BY <1>1, <1>2, <1>3, <1>7, <3>2, SameRows DEF IInv, ArgsKept, ArgsGoWithRow
    <3> QED
      BY <3>1, <3>2
  <2>3. CASE "stray" \in faults'
    BY <1>1, <1>3, <2>1, <2>2, <2>3 DEF IInv, Base, Faithful, InRestart
  <2>4. CASE "stray" \notin faults'
    <3>1. committed /\ enabled /\ "stray" \notin faults /\ enabled'
      BY <1>2, <1>3, <1>7, <2>4
    <3>2. ThreadsOwn /\ QueueOwn
      BY <3>1 DEF IInv, Faithful
    <3>3. table' = [table EXCEPT ![n] = op]
      BY <1>2, <1>7, <3>1
    <3>4. \A t \in threads : t.num # n /\ t.num \in Nums
      BY <3>2, <1>4, ThreadParts DEF ThreadsOwn, IInv, Base, TypeOK
    <3>5. \A i \in Places : queue[i].num # n /\ queue[i].num \in Nums
      BY <3>2, <1>4, QueueParts DEF QueueOwn, IInv, Base, TypeOK, Places
    <3>6. ThreadsOwn'
      <4> DEFINE new == [num |-> n, op |-> op, again |-> FALSE]
      <4>1. threads' = threads \cup {new} /\ queue' = queue /\ new.num = n /\ new.op = op
        BY <1>2, <1>7
      <4> HIDE DEF new
      <4>2. /\ table'[n] = op
            /\ \A t \in threads : table'[t.num] = table[t.num]
        BY <3>3, <3>4 DEF IInv, Base, TypeOK
      <4> QED
        BY <1>1, <1>3, <3>2, <3>4, <3>5, <4>1, <4>2 DEF ThreadsOwn, Places
    <3>7. QueueOwn' /\ MessageOwn' /\ Quiet'
      BY <1>1, <1>2, <1>3, <1>7, <3>1, <3>2, <3>3, <3>5
         DEF QueueOwn, MessageOwn, Quiet, IInv, Base, TypeOK, Places
    <3> QED
      BY <1>1, <1>3, <2>1, <2>2, <3>6, <3>7 DEF IInv, Base, Faithful, InRestart
  <2> QED
    BY <2>3, <2>4
<1>8. CASE /\ ~s.ok /\ s.threads = threads /\ ~Full(queue)
           /\ s.queue = Post(queue, "OperStatus", n, op)
  <2>0. queue \in Seq(Message) /\ Len(queue) \in Nat
    BY DEF IInv, Base, TypeOK
  <2>p. /\ s.queue \in Seq(Message) /\ Len(s.queue) = Len(queue) + 1
        /\ Len(s.queue) <= QueueMax
    <3> DEFINE q == Post(queue, "OperStatus", n, op)
    <3>1. q \in Seq(Message) /\ Len(q) = Len(queue) + 1 /\ (~Full(queue) => Len(q) <= QueueMax)
      BY <2>0, PostParts
    <3> QED
      BY <1>8, <3>1
  <2>1. s.queue # queue
    BY <2>0, <2>p
  <2>2. UNCHANGED <<table, args, owed, threads>> /\ faults' = faults \cup {"stray"}
    BY <1>2, <1>8, <2>1
  <2>3. TypeOK'
    BY <1>2, <1>3, <2>p, <2>2 DEF IInv, Base, TypeOK, Rows, Faults
  <2> QED
    BY <1>1, <1>3, <2>2, <2>3, SameRows DEF IInv, Base, ArgsKept, ArgsGoWithRow, Faithful, InRestart
<1>9. CASE /\ s.ok /\ op \in ResetOps /\ s.threads = threads /\ s.args = args
           /\ ~Full(queue) /\ ~Full(Post(queue, "OperStatus", n, op))
           /\ s.queue = Post(Post(queue, "OperStatus", n, op), "E2eSessionEvent", n, op)
  <2> DEFINE q1 == Post(queue, "OperStatus", n, op)
  <2> DEFINE q2 == Post(q1, "E2eSessionEvent", n, op)
  <2>0. queue \in Seq(Message) /\ Len(queue) \in Nat
    BY DEF IInv, Base, TypeOK
  <2>a. /\ q1 \in Seq(Message) /\ Len(q1) = Len(queue) + 1
        /\ \A i \in DOMAIN queue : q1[i] = queue[i]
        /\ DOMAIN q1 = DOMAIN queue \cup {Len(queue) + 1}
        /\ q1[Len(queue) + 1] = [kind |-> "OperStatus", num |-> n, op |-> op]
    BY ZenonT(30), <2>0, PostParts
  <2>b. /\ q2 \in Seq(Message) /\ Len(q2) <= QueueMax
        /\ \A i \in DOMAIN q1 : q2[i] = q1[i]
        /\ DOMAIN q2 = DOMAIN q1 \cup {Len(q1) + 1}
        /\ q2[Len(q1) + 1] = [kind |-> "E2eSessionEvent", num |-> n, op |-> op]
    <3>1. q1 \in Seq(Message) /\ ~Full(q1)
      BY <1>9, <2>a
    <3> HIDE DEF q1
    <3> QED
      BY ZenonT(30), <3>1, PostParts
  <2>c. queue' = q2
    BY <1>2, <1>9
  <2> HIDE DEF q1, q2
  <2>1. TypeOK'
    BY ZenonT(30), <1>1, <1>2, <1>3, <1>4, <1>5, <1>9, <2>b, <2>c DEF IInv, Base, TypeOK, Rows, Faults
  <2>2. (NothingForgotten /\ OwnArgs /\ ArgsKept)'
    BY <1>1, <1>2, <1>3, <1>4, <1>5, <1>9, OpsAssumption
       DEF IInv, Base, TypeOK, NothingForgotten, InTable, OwnArgs, Rows, ArgsKept, ArgsGoWithRow
  <2>3. CASE "stray" \in faults'
    BY <1>1, <1>3, <2>1, <2>2, <2>3 DEF IInv, Base, Faithful, InRestart
  <2>4. CASE "stray" \notin faults'
    <3>1. committed /\ enabled /\ "stray" \notin faults /\ enabled'
      BY <1>2, <1>3, <1>9, <2>4
    <3>2. ThreadsOwn /\ QueueOwn
      BY <3>1 DEF IInv, Faithful
    <3>3. table' = [table EXCEPT ![n] = op] /\ threads' = threads
      BY <1>2, <1>9, <3>1
    <3>4. \A t \in threads : t.num # n /\ t.num \in Nums
      BY <3>2, <1>4, ThreadParts DEF ThreadsOwn, IInv, Base, TypeOK
    <3>5. \A i \in Places : queue[i].num # n /\ queue[i].num \in Nums
      BY <3>2, <1>4, QueueParts DEF QueueOwn, IInv, Base, TypeOK, Places
    <3>6. /\ Places' = Places \cup {Len(queue) + 1, Len(queue) + 2}
          /\ \A i \in Places : i \in Nat /\ i <= Len(queue) /\ queue'[i] = queue[i]
          /\ queue'[Len(queue) + 1] = [kind |-> "OperStatus", num |-> n, op |-> op]
          /\ queue'[Len(queue) + 2] = [kind |-> "E2eSessionEvent", num |-> n, op |-> op]
      <4>1. DOMAIN q2 = DOMAIN queue \cup {Len(queue) + 1, Len(queue) + 2}
        BY <2>0, <2>a, <2>b
      <4>2. \A i \in DOMAIN queue : i \in Nat /\ i <= Len(queue)
        BY <2>0
      <4>3. \A i \in DOMAIN queue : q2[i] = queue[i]
        BY <2>a, <2>b
      <4>4. q2[Len(queue) + 1] = [kind |-> "OperStatus", num |-> n, op |-> op]
        <5>1. Len(queue) + 1 \in DOMAIN q1
          BY <2>a
        <5> QED
          BY <5>1, <2>a, <2>b
      <4>5. q2[Len(queue) + 2] = [kind |-> "E2eSessionEvent", num |-> n, op |-> op]
        <5>1. Len(q1) + 1 = Len(queue) + 2
          BY <2>0, <2>a
        <5> QED
          BY <5>1, <2>b
      <4> QED
        BY <4>1, <4>2, <4>3, <4>4, <4>5, <2>c, Zenon DEF Places
    <3>7. ThreadsOwn'
      BY <1>1, <1>3, <3>2, <3>3, <3>4, <3>6 DEF ThreadsOwn, IInv, Base, TypeOK
    <3>8. QueueOwn'
      BY <1>1, <1>3, <2>0, <3>2, <3>3, <3>5, <3>6 DEF QueueOwn, IInv, Base, TypeOK
    <3> QED
      BY <1>1, <1>3, <2>1, <2>2, <3>1, <3>7, <3>8
         DEF IInv, Base, Faithful, InRestart, MessageOwn, Quiet
  <2> QED
    BY <2>3, <2>4
<1> QED
  BY <1>2, <1>6, <1>7, <1>8, <1>9, Outcomes

-----------------------------------------------------------------------------
(* The completion of a row that nothing else works on keeps the invariant. *)
(* It is made for the message being handled, or by the restart loop for a  *)
(* row it has still to look at.                                            *)
LEMMA CompleteStep ==
    ASSUME IInv, NEW n \in Nums, NEW back \in {"idle", "restart"},
           OperationComplete(n, back), UNCHANGED <<queue, enabled>>,
           \/ dm.at = "message" /\ dm.msg.num = n /\ dm.msg.kind = "OperComplete"
              /\ back = "idle" /\ todo' = todo
           \/ dm.at = "restart" /\ n \in todo /\ back = "restart" /\ todo' = todo \ {n}
    PROVE  IInv'
<1>1. UNCHANGED <<args, conts, threads, issued, crashes, queue, enabled>>
  BY DEF OperationComplete
<1>2. todo' \subseteq todo /\ n \notin todo' /\ (back = "idle" => todo = {})
  BY DEF IInv, Base, InRestart
<1>3. InRestart = (back = "restart")
  BY DEF InRestart
<1>4. \/ /\ table[n] = None /\ dm' = [at |-> back]
         /\ UNCHANGED <<table, active, owed, faults>>
      \/ /\ owed' = owed \ {table[n]} /\ dm' = [at |-> back]
         /\ faults' = faults \cup {"stuck"} /\ UNCHANGED <<table, active>>
      \/ /\ table[n] # None /\ owed' = owed \ {table[n]}
         /\ dm' = [at |-> "cascade", num |-> n, back |-> back]
         /\ table' = [table EXCEPT ![n] = None] /\ active' = active \ {n} /\ UNCHANGED faults
  BY DEF OperationComplete
<1>5. CASE table' = table /\ active' = active
  <2>1. dm' = [at |-> back] /\ dm'.at = back /\ owed' \subseteq owed
        /\ faults \subseteq faults' /\ faults' \subseteq faults \cup {"stuck"}
    BY <1>4, <1>5 DEF IInv, Base, TypeOK
  <2>2. InRestart' = InRestart
    BY <1>3, <2>1 DEF InRestart
  <2>3. Base'
    BY <1>1, <1>2, <1>3, <1>5, <2>1, <2>2, PhasesMade DEF IInv, Base, TypeOK, Rows, Faults
  <2>4. (NothingForgotten /\ OwnArgs)'
    BY <1>1, <1>5, <2>1 DEF IInv, NothingForgotten, InTable, OwnArgs, Rows
  <2>5. ArgsKept'
    BY <1>1, <1>5, <2>1 DEF IInv, ArgsKept, ArgsGoWithRow
  <2>6. Faithful'
    BY <1>1, <1>2, <1>5, <2>1, <2>2
       DEF IInv, Faithful, ThreadsOwn, QueueOwn, MessageOwn, Quiet, Places
  <2> QED
    BY <2>3, <2>4, <2>5, <2>6 DEF IInv
<1>6. CASE /\ table[n] # None /\ owed' = owed \ {table[n]}
           /\ dm' = [at |-> "cascade", num |-> n, back |-> back]
           /\ table' = [table EXCEPT ![n] = None] /\ active' = active \ {n} /\ UNCHANGED faults
  <2>1. dm'.at = "cascade" /\ dm'.num = n /\ dm'.back = back
    BY <1>6
  <2>2. InRestart' = InRestart
    BY <1>3, <2>1 DEF InRestart
  <2>3. table'[n] = None /\ \A k \in Nums \ {n} : table'[k] = table[k]
    BY <1>6 DEF IInv, Base, TypeOK
  <2>4. Base'
    <3>1. table' \in [Nums -> Ops \cup {None}] /\ Rows' = Rows \ {n}
      BY <1>6, <2>3 DEF IInv, Base, TypeOK, Rows
    <3>2. dm' \in Phases
      BY <1>6, PhasesMade
    <3> QED
      BY <1>1, <1>2, <1>3, <1>6, <2>1, <2>2, <2>3, <3>1, <3>2 DEF IInv, Base, TypeOK
  <2>5. NothingForgotten'
    BY <1>6, <2>3 DEF IInv, NothingForgotten, InTable
  <2>6. OwnArgs'
    BY <1>1, <2>3 DEF IInv, OwnArgs, Rows
  <2>7. ArgsKept'
    BY <1>1, <1>6, <2>1, <2>3 DEF IInv, ArgsKept, ArgsGoWithRow
  <2>8. Faithful'
    <3>1. CASE "stray" \in faults
      BY <1>6, <3>1 DEF Faithful
    <3>2. CASE "stray" \notin faults
      <4>1. ThreadsOwn /\ QueueOwn /\ MessageOwn /\ Quiet
        BY <3>2 DEF IInv, Faithful
      <4>2. \A t \in threads : t.num # n /\ t.num \in Nums
        BY <4>1, ThreadParts DEF ThreadsOwn, IInv, Base, TypeOK
      <4>3. \A i \in Places : queue[i].num # n /\ queue[i].num \in Nums
        BY <4>1, QueueParts DEF QueueOwn, MessageOwn, IInv, Base, TypeOK, Places
      <4>4. ThreadsOwn'
        BY <1>1, <1>2, <2>1, <2>3, <4>1, <4>2 DEF ThreadsOwn, Places
      <4>5. QueueOwn'
        BY <1>1, <1>2, <2>3, <4>1, <4>3 DEF QueueOwn, Places
      <4> QED
        BY <1>1, <2>1, <2>2, <4>1, <4>4, <4>5 DEF Faithful, MessageOwn, Quiet
    <3> QED
      BY <3>1, <3>2
  <2> QED
    BY <2>4, <2>5, <2>6, <2>7, <2>8 DEF IInv
<1> QED
  BY <1>4, <1>5, <1>6

(* The cascaded deletion of arguments keeps the invariant. *)
LEMMA DeleteArgsStep == IInv /\ DeleteRequestArgs => IInv'
<1> SUFFICES ASSUME IInv, DeleteRequestArgs PROVE IInv'
  OBVIOUS
<1>1. dm.at = "cascade" /\ dm.num \in Nums /\ dm.back \in {"idle", "restart"}
      /\ table[dm.num] = None
  BY PhaseParts DEF DeleteRequestArgs, IInv, Base, TypeOK
<1>2. UNCHANGED <<table, active, conts, threads, queue, todo, enabled, issued, owed, crashes>>
  BY DEF DeleteRequestArgs
<1>3. dm' = [at |-> dm.back] /\ dm'.at = dm.back /\ dm'.at # "message" /\ dm'.at # "cascade"
  BY <1>1 DEF DeleteRequestArgs
<1>4. InRestart' = InRestart
  BY <1>1, <1>3 DEF InRestart
<1>5. /\ faults' = faults
      /\ args' \in [Nums -> Ops \cup {None}]
      /\ \A k \in Nums \ {dm.num} : args'[k] = args[k]
      /\ args'[dm.num] = None \/ CommitMayFail
  BY <1>1 DEF DeleteRequestArgs, MayCommit, IInv, Base, TypeOK
<1>6. Base'
  <2>1. dm' \in Phases
    BY <1>1, <1>3, PhasesMade
  <2> QED
    BY <1>2, <1>3, <1>4, <1>5, <2>1 DEF IInv, Base, TypeOK, Rows, Faults
<1>7. NothingForgotten' /\ OwnArgs'
  BY <1>1, <1>2, <1>5 DEF IInv, NothingForgotten, InTable, OwnArgs, Rows
<1>8. ArgsKept'
  BY <1>2, <1>5 DEF IInv, ArgsKept, ArgsGoWithRow, Reliable
<1>9. Faithful'
  BY <1>1, <1>2, <1>3, <1>4, <1>5
     DEF IInv, Faithful, ThreadsOwn, QueueOwn, MessageOwn, Quiet, Places
<1> QED
  BY <1>6, <1>7, <1>8, <1>9 DEF IInv

(* A thread that signals its completion keeps the invariant. *)
LEMMA ThreadStep ==
    ASSUME IInv, NEW t \in threads, TimerThread(t)
    PROVE  IInv'
<1>1. UNCHANGED <<table, active, args, conts, dm, todo, enabled, issued, owed, faults, crashes>>
      /\ threads' = threads \ {t}
  BY DEF TimerThread
<1>2. t.num \in Nums /\ t.op \in Ops /\ queue \in Seq(Message) /\ Len(queue) \in Nat
  BY ThreadParts DEF IInv, Base, TypeOK
<1>3. /\ queue' \in Seq(Message) /\ Len(queue') <= QueueMax
      /\ \A i \in Places : queue'[i] = queue[i]
      /\ Places' = Places \cup {Len(queue) + 1}
      /\ queue'[Len(queue) + 1] = [kind |-> "OperComplete", num |-> t.num, op |-> t.op]
  <2> DEFINE q == Post(queue, "OperComplete", t.num, t.op)
  <2>1. /\ q \in Seq(Message) /\ (~Full(queue) => Len(q) <= QueueMax)
        /\ \A i \in DOMAIN queue : q[i] = queue[i]
        /\ DOMAIN q = DOMAIN queue \cup {Len(queue) + 1}
        /\ q[Len(queue) + 1] = [kind |-> "OperComplete", num |-> t.num, op |-> t.op]
    BY <1>2, PostParts
  <2>2. queue' = q /\ ~Full(queue)
    BY DEF TimerThread
  <2> QED
    BY <2>1, <2>2 DEF Places
<1>4. InRestart' = InRestart
  BY <1>1 DEF InRestart
<1>5. Base'
  BY <1>1, <1>3, <1>4 DEF IInv, Base, TypeOK, Rows
<1>6. NothingForgotten' /\ OwnArgs' /\ ArgsKept'
  BY <1>1, SameRows DEF IInv, ArgsKept, ArgsGoWithRow
<1>7. Faithful'
  <2>1. CASE "stray" \in faults
    BY <1>1, <2>1 DEF Faithful
  <2>2. CASE "stray" \notin faults
    <3>1. ThreadsOwn /\ QueueOwn /\ MessageOwn /\ Quiet
      BY <2>2 DEF IInv, Faithful
    <3>2. \A i \in Places : i \in Nat /\ i <= Len(queue) /\ queue[i].num # t.num
      BY <1>2, <3>1, QueueParts DEF Places, ThreadsOwn
    <3>3. ThreadsOwn'
      BY <1>1, <1>3, <3>1 DEF ThreadsOwn
    <3>4. QueueOwn'
      BY SMTT(30), <1>1, <1>2, <1>3, <3>1, <3>2 DEF QueueOwn, ThreadsOwn
    <3>5. MessageOwn'
      BY <1>1, <1>3, <3>1 DEF MessageOwn, ThreadsOwn
    <3>6. Quiet'
      BY <1>1, <1>4, <3>1 DEF Quiet
    <3> QED
      BY <3>3, <3>4, <3>5, <3>6 DEF Faithful
  <2> QED
    BY <2>1, <2>2
<1> QED
  BY <1>5, <1>6, <1>7 DEF IInv

(* Taking a message off the queue keeps the invariant. *)
LEMMA ReceiveStep == IInv /\ ReceiveMessage => IInv'
<1> SUFFICES ASSUME IInv, ReceiveMessage PROVE IInv'
  OBVIOUS
<1>1. UNCHANGED <<table, active, args, conts, threads, todo, enabled, issued, owed, faults, crashes>>
      /\ dm = Idle /\ dm.at = "idle" /\ queue # <<>> /\ queue \in Seq(Message)
  BY PhasesMade DEF ReceiveMessage, IInv, Base, TypeOK
<1>2. dm' = [at |-> "message", msg |-> Head(queue)] /\ queue' = Tail(queue)
  BY DEF ReceiveMessage
<1>3. 1 \in Places /\ Head(queue) = queue[1] /\ queue[1] \in Message /\ Len(queue) \in Nat \ {0}
  BY <1>1 DEF Places
<1>4. /\ queue' \in Seq(Message) /\ Len(queue') = Len(queue) - 1
      /\ Places' = 1..(Len(queue) - 1)
      /\ \A i \in Places' : i + 1 \in Places /\ queue'[i] = queue[i + 1] /\ i \in Nat /\ 1 < i + 1
  BY <1>1, <1>2, <1>3 DEF Places
<1>5. dm'.at = "message" /\ dm'.msg = queue[1] /\ dm' \in Phases
  BY <1>2, <1>3, PhasesMade
<1>6. ~InRestart /\ ~InRestart' /\ todo = {}
  BY <1>1, <1>5 DEF InRestart, IInv, Base
<1>7. Base'
  BY <1>1, <1>3, <1>4, <1>5, <1>6, BoundAssumption DEF IInv, Base, TypeOK, Rows
<1>8. NothingForgotten' /\ OwnArgs' /\ ArgsKept'
  BY <1>1, SameRows DEF IInv, ArgsKept, ArgsGoWithRow
<1>9. Faithful'
  <2>1. CASE "stray" \in faults
    BY <1>1, <2>1 DEF Faithful
  <2>2. CASE "stray" \notin faults
    <3>1. ThreadsOwn /\ QueueOwn /\ Quiet
      BY <2>2 DEF IInv, Faithful
    <3>2. ThreadsOwn'
      BY <1>1, <1>3, <1>4, <1>5, <3>1 DEF ThreadsOwn
    <3>3. QueueOwn'
      <4>1. \A i \in Places' : table'[queue'[i].num] = queue'[i].op /\ queue'[i].num \notin todo'
        BY <1>1, <1>4, <3>1 DEF QueueOwn
      <4>2. ASSUME NEW i \in Places', NEW j \in Places', i < j, queue'[i].num = queue'[j].num
            PROVE  queue'[i].kind = "OperStatus" /\ queue'[j].kind = "E2eSessionEvent"
        <5>1. i + 1 \in Places /\ j + 1 \in Places /\ i + 1 < j + 1
              /\ queue'[i] = queue[i + 1] /\ queue'[j] = queue[j + 1]
          BY <1>4, <4>2
        <5> QED
          BY <3>1, <4>2, <5>1 DEF QueueOwn
      <4> QED
        BY <4>1, <4>2 DEF QueueOwn
    <3>4. MessageOwn'
      BY <1>1, <1>3, <1>4, <1>5, <3>1 DEF MessageOwn, QueueOwn
    <3>5. Quiet'
      BY <1>1, <1>6, <3>1 DEF Quiet
    <3> QED
      BY <3>2, <3>3, <3>4, <3>5 DEF Faithful
  <2> QED
    BY <2>1, <2>2
<1> QED
  BY <1>7, <1>8, <1>9 DEF IInv

(* So does handling it. *)
LEMMA StatusStep == IInv /\ UpdateOperationStatus => IInv'
<1> SUFFICES ASSUME IInv, UpdateOperationStatus PROVE IInv'
  OBVIOUS
<1>1. UNCHANGED <<table, args, conts, threads, queue, todo, enabled, issued, owed, faults, crashes>>
      /\ dm.at = "message" /\ dm' = Idle /\ dm'.at = "idle" /\ dm' \in Phases
  BY PhasesMade DEF UpdateOperationStatus, Handles
<1>2. active' \subseteq Rows
  BY DEF UpdateOperationStatus, IInv, Base, TypeOK
<1>3. ~InRestart /\ ~InRestart' /\ todo = {}
  BY <1>1 DEF InRestart, IInv, Base
<1>4. Base'
  BY <1>1, <1>2, <1>3 DEF IInv, Base, TypeOK, Rows
<1>5. NothingForgotten' /\ OwnArgs' /\ ArgsKept'
  BY <1>1, SameRows DEF IInv, ArgsKept, ArgsGoWithRow
<1>6. Faithful'
  BY <1>1, <1>3 DEF IInv, Faithful, ThreadsOwn, QueueOwn, MessageOwn, Quiet, Places
<1> QED
  BY <1>4, <1>5, <1>6 DEF IInv

LEMMA E2eStep == IInv /\ E2eSessionEvent => IInv'
<1> SUFFICES ASSUME IInv, E2eSessionEvent PROVE IInv'
  OBVIOUS
<1>1. UNCHANGED <<table, active, args, conts, threads, todo, enabled, issued, owed, crashes>>
      /\ dm.at = "message" /\ dm.msg.kind = "E2eSessionEvent"
      /\ dm' = Idle /\ dm'.at = "idle" /\ dm' \in Phases
  BY PhasesMade DEF E2eSessionEvent, Handles
<1>2. ~InRestart /\ ~InRestart' /\ todo = {}
  BY <1>1 DEF InRestart, IInv, Base
<1>3. dm.msg.num \in Nums /\ dm.msg.op \in Ops /\ queue \in Seq(Message) /\ Len(queue) \in Nat
  BY <1>1, PhaseParts DEF IInv, Base, TypeOK, Message
<1>4. CASE Full(queue)
  <2>1. queue' = queue /\ faults' = faults \cup {"stuck"}
    BY <1>4 DEF E2eSessionEvent
  <2>2. Base'
    BY <1>1, <1>2, <2>1 DEF IInv, Base, TypeOK, Rows, Faults
  <2>3. NothingForgotten' /\ OwnArgs' /\ ArgsKept'
    BY <1>1, <2>1, SameRows DEF IInv, ArgsKept, ArgsGoWithRow
  <2>4. Faithful'
    BY <1>1, <1>2, <2>1 DEF IInv, Faithful, ThreadsOwn, QueueOwn, MessageOwn, Quiet, Places
  <2> QED
    BY <2>2, <2>3, <2>4 DEF IInv
<1>5. CASE ~Full(queue)
  <2>1. /\ queue' \in Seq(Message) /\ Len(queue') <= QueueMax
        /\ \A i \in Places : queue'[i] = queue[i]
        /\ Places' = Places \cup {Len(queue) + 1}
        /\ queue'[Len(queue) + 1] = [kind |-> "OperComplete", num |-> dm.msg.num, op |-> dm.msg.op]
    <3> DEFINE q == Post(queue, "OperComplete", dm.msg.num, dm.msg.op)
    <3>1. /\ q \in Seq(Message) /\ (~Full(queue) => Len(q) <= QueueMax)
          /\ \A i \in DOMAIN queue : q[i] = queue[i]
          /\ DOMAIN q = DOMAIN queue \cup {Len(queue) + 1}
          /\ q[Len(queue) + 1] = [kind |-> "OperComplete", num |-> dm.msg.num, op |-> dm.msg.op]
      BY <1>3, PostParts
    <3>2. queue' = q
      BY <1>5 DEF E2eSessionEvent
    <3> QED
      BY <1>5, <3>1, <3>2 DEF Places
  <2>2. faults' = faults
    BY <1>5 DEF E2eSessionEvent
  <2>3. Base'
    BY <1>1, <1>2, <2>1, <2>2 DEF IInv, Base, TypeOK, Rows
  <2>4. NothingForgotten' /\ OwnArgs' /\ ArgsKept'
    BY <1>1, <2>2, SameRows DEF IInv, ArgsKept, ArgsGoWithRow
  <2>5. Faithful'
    <3>1. CASE "stray" \in faults
      BY <2>2, <3>1 DEF Faithful
    <3>2. CASE "stray" \notin faults
      <4>1. ThreadsOwn /\ QueueOwn /\ MessageOwn /\ Quiet
        BY <3>2 DEF IInv, Faithful
      <4>2. \A i \in Places : i \in Nat /\ i <= Len(queue) /\ queue[i].num # dm.msg.num
        BY <1>1, <1>3, <4>1, QueueParts DEF Places, MessageOwn
      <4>3. ThreadsOwn'
        BY <1>1, <2>1, <4>1 DEF ThreadsOwn
      <4>4. QueueOwn'
        <5>1. table' = table /\ todo' = {} /\ table[dm.msg.num] = dm.msg.op
          BY <1>1, <1>2, <4>1 DEF MessageOwn
        <5>2. \A i \in Places : table'[queue'[i].num] = queue'[i].op
          BY <2>1, <4>1, <5>1 DEF QueueOwn
        <5>3. \A i, j \in Places' :
                i < j /\ queue'[i].num = queue'[j].num
                  => queue'[i].kind = "OperStatus" /\ queue'[j].kind = "E2eSessionEvent"
          BY <1>3, <2>1, <4>1, <4>2 DEF QueueOwn
        <5> QED
          BY <2>1, <5>1, <5>2, <5>3 DEF QueueOwn
      <4> QED
        BY <1>1, <1>2, <4>1, <4>3, <4>4 DEF Faithful, MessageOwn, Quiet
    <3> QED
      BY <3>1, <3>2
  <2> QED
    BY <2>3, <2>4, <2>5 DEF IInv
<1> QED
  BY <1>4, <1>5

LEMMA OperCompleteStep == IInv /\ HandleOperComplete => IInv'
<1> SUFFICES ASSUME IInv, HandleOperComplete PROVE IInv'
  OBVIOUS
<1>1. dm.at = "message" /\ dm.msg.kind = "OperComplete" /\ OperationComplete(dm.msg.num, "idle")
      /\ UNCHANGED <<queue, todo, enabled>>
  BY DEF HandleOperComplete, Handles
<1>2. dm.msg.num \in Nums
  BY <1>1, PhaseParts DEF IInv, Base, TypeOK, Message
<1> QED
  BY <1>1, <1>2, CompleteStep

-----------------------------------------------------------------------------
(* The restart loop keeps the invariant: nothing works on a row that it    *)
(* has still to look at.                                                   *)
LEMMA EnableStep == IInv /\ EnableNotifications => IInv'
<1> SUFFICES ASSUME IInv, EnableNotifications PROVE IInv'
  OBVIOUS
<1>1. UNCHANGED <<table, active, args, conts, threads, queue, enabled, issued, owed, faults, crashes>>
      /\ dm.at = "idle" /\ ~enabled /\ todo' = Rows /\ dm' = [at |-> "restart"]
      /\ dm'.at = "restart" /\ dm' \in Phases
  BY PhasesMade DEF EnableNotifications
<1>2. ~InRestart /\ InRestart'
  BY <1>1 DEF InRestart
<1>3. Base'
  BY <1>1, <1>2 DEF IInv, Base, TypeOK, Rows
<1>4. NothingForgotten' /\ OwnArgs' /\ ArgsKept'
  BY <1>1, SameRows DEF IInv, ArgsKept, ArgsGoWithRow
<1>5. Faithful'
  <2>1. "stray" \notin faults => threads = {} /\ queue = <<>>
    BY <1>1, <1>2 DEF IInv, Faithful, Quiet
  <2>2. DOMAIN <<>> = {}
    OBVIOUS
  <2> QED
    BY <1>1, <1>2, <2>1, <2>2 DEF Faithful, ThreadsOwn, QueueOwn, MessageOwn, Quiet, Places
<1> QED
  BY <1>3, <1>4, <1>5 DEF IInv

LEMMA GiveUpStep ==
    ASSUME IInv, NEW n \in Nums, GiveUp(n)
    PROVE  IInv'
<1>1. UNCHANGED <<table, active, args, conts, threads, queue, dm, enabled, issued, owed, crashes>>
      /\ todo' = {} /\ faults' = faults \cup {"stuck"}
  BY DEF GiveUp
<1>2. InRestart' = InRestart
  BY <1>1 DEF InRestart
<1>3. Base'
  BY <1>1, <1>2 DEF IInv, Base, TypeOK, Rows, Faults
<1>4. NothingForgotten' /\ OwnArgs' /\ ArgsKept'
  BY <1>1, SameRows DEF IInv, ArgsKept, ArgsGoWithRow
<1>5. Faithful'
  BY <1>1, <1>2 DEF IInv, Faithful, ThreadsOwn, QueueOwn, MessageOwn, Quiet, Places
<1> QED
  BY <1>3, <1>4, <1>5 DEF IInv

LEMMA RestartTimerStep ==
    ASSUME IInv, NEW n \in Nums, RestartTimer(n)
    PROVE  IInv'
<1>1. UNCHANGED <<table, active, args, conts, queue, dm, enabled, issued, owed, faults, crashes>>
      /\ dm.at = "restart" /\ n \in todo /\ todo' = todo \ {n} /\ table[n] \in TimerOps
      /\ args[n] # None
  BY DEF RestartTimer, Restarting
<1>2. n \in Rows /\ args[n] = table[n] /\ table[n] \in Ops
  BY <1>1 DEF IInv, Base, TypeOK, OwnArgs, Ops
<1> DEFINE new == [num |-> n, op |-> table[n], again |-> TRUE]
<1>3. threads' = threads \cup {new}
  <2>1. PICK x \in Start_ScheduleTimer(args[n], n, TRUE, args) : x.ok /\ threads' = x.threads
    BY DEF RestartTimer
  <2>2. x # Refusal
    BY <2>1 DEF Refusal, Outcome
  <2>3. x = Outcome(TRUE, threads \cup {new}, queue, args)
    BY <1>2, <2>1, <2>2 DEF Start_ScheduleTimer
  <2> QED
    BY <2>1, <2>3 DEF Outcome
<1>4. new \in Thread /\ new.num = n /\ new.op = table[n]
  BY <1>2 DEF Thread
<1> HIDE DEF new
<1>5. InRestart /\ InRestart'
  BY <1>1 DEF InRestart
<1>6. Base'
  BY <1>1, <1>3, <1>4, <1>5 DEF IInv, Base, TypeOK, Rows
<1>7. NothingForgotten' /\ OwnArgs' /\ ArgsKept'
  BY <1>1, SameRows DEF IInv, ArgsKept, ArgsGoWithRow
<1>8. Faithful'
  BY <1>1, <1>3, <1>4, <1>5
     DEF IInv, Faithful, ThreadsOwn, QueueOwn, MessageOwn, Quiet, Places
<1> QED
  BY <1>6, <1>7, <1>8 DEF IInv

LEMMA InterruptedStep ==
    ASSUME IInv, NEW n \in Nums, CompleteInterrupted(n)
    PROVE  IInv'
<1>1. dm.at = "restart" /\ n \in todo /\ todo' = todo \ {n} /\ OperationComplete(n, "restart")
      /\ UNCHANGED <<queue, enabled>>
  BY DEF CompleteInterrupted, Restarting
<1> QED
  BY <1>1, CompleteStep

LEMMA AllRestartedStep == IInv /\ AllRestarted => IInv'
<1> SUFFICES ASSUME IInv, AllRestarted PROVE IInv'
  OBVIOUS
<1>1. UNCHANGED <<table, active, args, conts, threads, queue, todo, issued, owed, faults, crashes>>
      /\ dm.at = "restart" /\ todo = {} /\ dm'.at = "idle" /\ dm' \in Phases /\ enabled'
      /\ enabled' \in BOOLEAN
  BY PhasesMade DEF AllRestarted
<1>2. Base'
  BY <1>1 DEF IInv, Base, TypeOK, Rows
<1>3. NothingForgotten' /\ OwnArgs' /\ ArgsKept'
  BY <1>1, SameRows DEF IInv, ArgsKept, ArgsGoWithRow
<1>4. Faithful'
  BY <1>1 DEF IInv, Faithful, ThreadsOwn, QueueOwn, MessageOwn, Quiet, Places
<1> QED
  BY <1>2, <1>3, <1>4 DEF IInv

(* A crash forgets everything but the database. *)
LEMMA CrashStep == IInv /\ Crash => IInv'
<1> SUFFICES ASSUME IInv, Crash PROVE IInv'
  OBVIOUS
<1>1. UNCHANGED <<table, active, args, conts, issued, owed>>
      /\ threads' = {} /\ queue' = <<>> /\ todo' = {} /\ ~enabled' /\ enabled' \in BOOLEAN
      /\ crashes < MaxCrashes /\ crashes' = crashes + 1
  BY DEF Crash
<1>2. dm'.at = "idle" /\ dm' \in Phases
  BY PhasesMade DEF Crash
<1>3. faults' = {}
  BY DEF Crash
<1>4. Base'
  <2>1. crashes' \in 0..MaxCrashes
    BY <1>1, BoundAssumption DEF IInv, Base, TypeOK
  <2>2. queue' \in Seq(Message) /\ Len(queue') <= QueueMax
    BY <1>1, BoundAssumption
  <2> QED
    BY <1>1, <1>2, <1>3, <2>1, <2>2 DEF IInv, Base, TypeOK, Rows, Faults
<1>5. NothingForgotten' /\ OwnArgs'
  BY <1>1, SameRows DEF IInv
<1>6. ~Reliable
  BY <1>1 DEF IInv, Base, TypeOK, Reliable
<1>7. Faithful'
  <2>1. DOMAIN <<>> = {}
    OBVIOUS
  <2> QED
    BY <1>1, <1>2, <2>1 DEF Faithful, ThreadsOwn, QueueOwn, MessageOwn, Quiet, Places
<1> QED
  BY <1>4, <1>5, <1>6, <1>7 DEF IInv, ArgsKept

-----------------------------------------------------------------------------
LEMMA Initially == Init => IInv
<1> SUFFICES ASSUME Init PROVE IInv
  OBVIOUS
<1>1. Base
  <2>1. queue \in Seq(Message) /\ Len(queue) <= QueueMax /\ crashes \in 0..MaxCrashes
    BY BoundAssumption DEF Init
  <2>2. table \in [Nums -> Ops \cup {None}] /\ args \in [Nums -> Ops \cup {None}]
    BY DEF Init
  <2>3. dm \in Phases /\ dm.at = "idle"
    BY PhasesMade DEF Init
  <2>4. /\ active \subseteq Rows /\ todo = {} /\ conts \subseteq Controllers
        /\ threads \subseteq Thread /\ enabled \in BOOLEAN /\ issued \subseteq Ops
        /\ owed \subseteq issued /\ faults \subseteq Faults
    BY DEF Init
  <2> QED
    BY <2>1, <2>2, <2>3, <2>4 DEF Base, TypeOK
<1>2. NothingForgotten /\ OwnArgs /\ ArgsKept
  BY DEF Init, NothingForgotten, OwnArgs, Rows, ArgsKept, ArgsGoWithRow
<1>3. Faithful
  <2>1. DOMAIN <<>> = {} /\ dm.at = "idle"
    BY PhasesMade DEF Init
  <2> QED
    BY <2>1 DEF Init, Faithful, ThreadsOwn, QueueOwn, MessageOwn, Quiet, Places
<1> QED
  BY <1>1, <1>2, <1>3 DEF IInv

LEMMA Stutters == IInv /\ UNCHANGED vars => IInv'
BY DEF vars, IInv, Base, TypeOK, NothingForgotten, InTable, OwnArgs, Rows, ArgsKept, ArgsGoWithRow,
   Faithful, ThreadsOwn, QueueOwn, MessageOwn, Quiet, InRestart, Places

LEMMA DeleteControllerStep ==
    ASSUME IInv, NEW c \in Controllers, DeleteController(c)
    PROVE  IInv'
<1>1. UNCHANGED <<table, active, args, threads, queue, dm, todo, enabled, issued, owed, faults, crashes>>
      /\ conts' \subseteq conts
  BY DEF DeleteController
<1> QED
  BY <1>1 DEF IInv, Base, TypeOK, NothingForgotten, InTable, OwnArgs, Rows, ArgsKept, ArgsGoWithRow,
     Faithful, ThreadsOwn, QueueOwn, MessageOwn, Quiet, InRestart, Places

LEMMA Inductive == IInv /\ [Next]_vars => IInv'
<1> SUFFICES ASSUME IInv, [Next]_vars PROVE IInv'
  OBVIOUS
<1>1. CASE \E op \in Ops : HandleOperate(op)
  BY <1>1, OperateStep
<1>2. CASE \E t \in threads : TimerThread(t)
  BY <1>2, ThreadStep
<1>3. CASE ReceiveMessage
  BY <1>3, ReceiveStep
<1>4. CASE HandleMessage
  BY <1>4, OperCompleteStep, StatusStep, E2eStep DEF HandleMessage
<1>5. CASE DeleteRequestArgs
  BY <1>5, DeleteArgsStep
<1>6. CASE EnableNotifications
  BY <1>6, EnableStep
<1>7. CASE RestartStep
  BY <1>7, AllRestartedStep, GiveUpStep, RestartTimerStep, InterruptedStep DEF RestartStep
<1>8. CASE \E c \in Controllers : DeleteController(c)
  BY <1>8, DeleteControllerStep
<1>9. CASE Crash
  BY <1>9, CrashStep
<1>10. CASE UNCHANGED vars
  BY <1>10, Stutters
<1> QED
  BY <1>1, <1>2, <1>3, <1>4, <1>5, <1>6, <1>7, <1>8, <1>9, <1>10 DEF Next

(* The invariant holds in every reachable state. *)
THEOREM Invariance == Spec => []IInv
BY Initially, Inductive, PTL DEF Spec

(* The type invariant, with the bound of the queue. *)
THEOREM TypeCorrect == Spec => []TypeOK
<1>1. IInv => TypeOK
  BY DEF IInv, Base
<1> QED
  BY <1>1, Invariance, PTL

(* No accepted operation is forgotten (DEVICE_REQUEST_OperationComplete    *)
(* notifies before it deletes).                                            *)
THEOREM Remembered == Spec => []NothingForgotten
<1>1. IInv => NothingForgotten
  BY DEF IInv
<1> QED
  BY <1>1, Invariance, PTL

(* An operation is restarted with its own arguments                        *)
(* (DEVICE_REQUEST_PersistOperationArgs refuses a number whose arguments   *)
(* are still there).                                                       *)
THEOREM ArgumentsOwn == Spec => []OwnArgs
<1>1. IInv => OwnArgs
  BY DEF IInv
<1> QED
  BY <1>1, Invariance, PTL

(* A message reaches the operation that caused it, unless an Operate was   *)
(* not committed, was refused half way or came before the restart loop     *)
(* (DEVICE_REQUEST_OperationComplete knows rows by number alone).          *)
THEOREM MessagesOwn == Spec => []OwnMessage
<1>1. IInv => OwnMessage
  BY DEF IInv, Faithful, MessageOwn, OwnMessage
<1> QED
  BY <1>1, Invariance, PTL

(* As long as no commit fails and the process goes on, persisted arguments *)
(* live as long as their row (DeleteRequestArgs), on every path by which a *)
(* row is deleted, and whoever uses the number next.  Both hypotheses are  *)
(* needed: the two deletions are two transactions.                         *)
THEOREM ArgumentsGo ==
    ASSUME Reliable
    PROVE  Spec => []ArgsGoWithRow
<1>1. IInv => ArgsGoWithRow
  BY DEF IInv, ArgsKept
<1> QED
  BY <1>1, Invariance, PTL
=============================================================================
