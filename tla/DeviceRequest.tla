--------------------------- MODULE DeviceRequest ----------------------------
(***************************************************************************)
(* Asynchronous operations: the request table Device.LocalAgent.Request of *)
(* core/device_request.c, the Operate handler that fills it, the threads   *)
(* and messages that work on its rows, and the restart of what a reboot    *)
(* interrupted.                                                            *)
(*                                                                         *)
(* A row is known by its instance number alone: the thread that performs   *)
(* an operation, and every message about it in the DM thread's queue,      *)
(* carry the number, and the number is free again once the row is gone.    *)
(* Rows and the persisted input arguments (Internal.Request.{i}) are in    *)
(* the database and outlive the process; threads and messages do not.      *)
(*                                                                         *)
(* The build registers two asynchronous operations: Device.ScheduleTimer() *)
(* (restarted after a reboot, its arguments persisted) and Controller.{i}. *)
(* E2ESession.Reset() (not restarted).  An element of Ops stands for one   *)
(* invocation by a controller, which the code identifies by the row only.  *)
(***************************************************************************)
EXTENDS Naturals, Sequences, FiniteSets

CONSTANTS
    TimerOps,      \* invocations of ScheduleTimer()
    ResetOps,      \* invocations of E2ESession.Reset()
    Controllers,   \* rows of the controller table
    Target,        \* [ResetOps -> Controllers]: the object a Reset() is a command of
    None,          \* no operation
    QueueMax,      \* messages the DM thread's queue (a socket) holds
    CommitMayFail, \* whether a database commit may fail
    MaxCrashes     \* bound on the number of restarts of the process

Ops == TimerOps \cup ResetOps

ASSUME OpsAssumption ==
    /\ IsFiniteSet(Ops)
    /\ TimerOps \cap ResetOps = {}
    /\ None \notin Ops
    /\ Target \in [ResetOps -> Controllers]
ASSUME BoundAssumption ==
    /\ QueueMax \in Nat \ {0}
    /\ CommitMayFail \in BOOLEAN
    /\ MaxCrashes \in Nat

(* Instance numbers.  Every invocation is made once, so the highest number *)
(* in use is at most the number of invocations.                            *)
Nums == 1..Cardinality(Ops)

Message == [kind: {"OperStatus", "E2eSessionEvent", "OperComplete"}, num: Nums, op: Ops]
Thread == [num: Nums, op: Ops, again: BOOLEAN]

VARIABLES
    table,      \* the request table: number -> operation
    active,     \* the rows whose Status has been set to Active
    args,       \* the persisted arguments: number -> operation they belong to
    conts,      \* the controllers that exist
    threads,    \* the ScheduleTimer threads that have not signalled yet
    queue,      \* the messages of the DM thread's queue this module is about
    dm,         \* where the DM thread is: see Phases
    todo,       \* the rows the restart loop has still to look at
    enabled,    \* is_notifications_enabled
    issued,     \* history: the invocations made
    owed,       \* history: those accepted and whose completion the subscribers were
                \* not notified of yet
    faults,     \* history: what went wrong (see Faults)
    crashes

vars == <<table, active, args, conts, threads, queue, dm, todo, enabled,
          issued, owed, faults, crashes>>

(* Between messages, with a message to handle, in the cascaded transaction *)
(* that follows the deletion of a row, or between two rows of the restart  *)
(* loop.  A deletion is made either for a message or by the restart loop,  *)
(* to which the DM thread then returns (back).                             *)
Phases ==
    [at: {"idle", "restart"}]
        \cup [at: {"message"}, msg: Message]
        \cup [at: {"cascade"}, num: Nums, back: {"idle", "restart"}]

Idle == [at |-> "idle"]

(* stray: something works on a number that is not, or not only, that of    *)
(* its row: an Operate whose commit failed after the operation was         *)
(* started, a Reset() refused after its status was queued, an operation    *)
(* started before the restart loop has run, which will start it again.     *)
(* stuck: nothing is left that completes a row: the result of a Reset()    *)
(* found the queue full, the deletion of a completed row was not           *)
(* committed, or the restart loop returned at a row it could not look at.  *)
Faults == {"stray", "stuck"}

Rows == {n \in Nums : table[n] # None}
NewRow(n) == (\A m \in Rows : m < n) /\ (n = 1 \/ n - 1 \in Rows)
MayCommit == IF CommitMayFail THEN BOOLEAN ELSE {TRUE}

Post(q, kind, n, op) == Append(q, [kind |-> kind, num |-> n, op |-> op])

FaultyFull(q) == FALSE              \* Slip: an unbounded queue

Full(q) == Len(q) >= QueueMax

-----------------------------------------------------------------------------
(* What starting an operation may come to: whether it worked, and the      *)
(* threads, the queue and the persisted arguments it leaves.               *)
Outcome(ok, ts, q, as) == [ok |-> ok, threads |-> ts, queue |-> q, args |-> as]
Refusal == Outcome(FALSE, threads, queue, args)

(* Start_ScheduleTimer fails on bad arguments or when no thread is to be had. *)
Start_ScheduleTimer(op, n, again, as) ==
    {Refusal, Outcome(TRUE, threads \cup {[num |-> n, op |-> op, again |-> again]}, queue, as)}

(* Async_E2ESessionReset fails when the session has nothing to reset, and  *)
(* when the DM thread's own queue is full: for the status, or for the      *)
(* event that follows it.                                                  *)
Async_E2ESessionReset(op, n) ==
    LET status == Post(queue, "OperStatus", n, op)
    IN {Refusal} \cup
       IF Full(queue) THEN {}
       ELSE IF Full(status) THEN {Outcome(FALSE, threads, status, args)}
       ELSE {Outcome(TRUE, threads, Post(status, "E2eSessionEvent", n, op), args)}

FaultyPersistOperationArgs(op, n) ==       \* Slip: arguments that exist are good enough
    {IF args[n] = None THEN [args EXCEPT ![n] = op] ELSE args}

(* DEVICE_REQUEST_PersistOperationArgs fails when the shadow object of the *)
(* row exists.                                                             *)
PersistOperationArgs(op, n) ==
    IF args[n] # None THEN {} ELSE {[args EXCEPT ![n] = op]}

DATA_MODEL_Operate(op, n) ==
    {Refusal} \cup
    IF op \in TimerOps
    THEN UNION {Start_ScheduleTimer(op, n, FALSE, as) : as \in PersistOperationArgs(op, n)}
    ELSE IF Target[op] \in conts THEN Async_E2ESessionReset(op, n) ELSE {}

(* MSG_HANDLER_HandleOperate: the operation is started inside the          *)
(* transaction that adds its row, and the result of the commit is ignored. *)
HandleOperate(op) ==
    /\ dm = Idle
    /\ op \notin issued
    /\ issued' = issued \cup {op}
    /\ \E n \in Nums :
        /\ NewRow(n)
        /\ \E s \in DATA_MODEL_Operate(op, n), committed \in MayCommit :
            /\ threads' = s.threads
            /\ queue' = s.queue
            /\ IF s.ok /\ committed
               THEN /\ table' = [table EXCEPT ![n] = op]
                    /\ args' = s.args
                    /\ owed' = owed \cup {op}
                    /\ faults' = IF enabled THEN faults ELSE faults \cup {"stray"}
               ELSE /\ UNCHANGED <<table, args, owed>>
                    /\ faults' = IF s.ok \/ s.queue # queue THEN faults \cup {"stray"}
                                 ELSE faults
    /\ UNCHANGED <<active, conts, dm, todo, enabled, crashes>>

-----------------------------------------------------------------------------
(* Slip: the notification is left until the deletion has been committed. *)
FaultyOperationComplete(n, back) ==
    /\ \E committed \in MayCommit :
        IF table[n] # None /\ committed
        THEN /\ table' = [table EXCEPT ![n] = None]
             /\ active' = active \ {n}
             /\ dm' = [at |-> "cascade", num |-> n, back |-> back]
             /\ UNCHANGED <<faults, owed>>
        ELSE /\ dm' = [at |-> back]
             /\ UNCHANGED <<table, active, faults, owed>>
    /\ UNCHANGED <<args, conts, threads, issued, crashes>>

(* DEVICE_REQUEST_OperationComplete: a row that is not there has been      *)
(* completed already; otherwise the subscribers are notified and the row   *)
(* is deleted, which leaves the cascaded deletion of its arguments to do.  *)
OperationComplete(n, back) ==
    /\ IF table[n] = None
       THEN /\ dm' = [at |-> back]
            /\ UNCHANGED <<table, active, owed, faults>>
       ELSE /\ owed' = owed \ {table[n]}
            /\ \E committed \in MayCommit :
                IF committed
                THEN /\ table' = [table EXCEPT ![n] = None]
                     /\ active' = active \ {n}
                     /\ dm' = [at |-> "cascade", num |-> n, back |-> back]
                     /\ UNCHANGED faults
                ELSE /\ faults' = faults \cup {"stuck"}
                     /\ dm' = [at |-> back]
                     /\ UNCHANGED <<table, active>>
    /\ UNCHANGED <<args, conts, threads, issued, crashes>>

(* DeleteRequestArgs, called back when the deletion of a row has been      *)
(* committed, and the commit of the transaction it is called in.           *)
DeleteRequestArgs ==
    /\ dm.at = "cascade"
    /\ \E committed \in MayCommit :
        args' = IF committed THEN [args EXCEPT ![dm.num] = None] ELSE args
    /\ dm' = [at |-> dm.back]
    /\ UNCHANGED <<table, active, conts, threads, queue, todo, enabled,
                   issued, owed, faults, crashes>>

-----------------------------------------------------------------------------
(* Slip: the thread goes on after it has signalled. *)
FaultyTimerThread(t) ==
    /\ ~Full(queue)
    /\ queue' = Post(queue, "OperComplete", t.num, t.op)
    /\ UNCHANGED <<table, active, args, conts, threads, dm, todo, enabled, issued, owed,
                   faults, crashes>>

(* ScheduleTimerThreadMain: the delay is over.  A thread other than the DM *)
(* thread waits for room in the queue.                                     *)
TimerThread(t) ==
    /\ ~Full(queue)
    /\ threads' = threads \ {t}
    /\ queue' = Post(queue, "OperComplete", t.num, t.op)
    /\ UNCHANGED <<table, active, args, conts, dm, todo, enabled, issued, owed, faults, crashes>>

(* The DM thread takes a message off its queue, which other threads may    *)
(* then fill again before it is handled.                                   *)
ReceiveMessage ==
    /\ dm = Idle
    /\ queue # <<>>
    /\ dm' = [at |-> "message", msg |-> Head(queue)]
    /\ queue' = Tail(queue)
    /\ UNCHANGED <<table, active, args, conts, threads, todo, enabled, issued, owed, faults, crashes>>

Handles(kind) == dm.at = "message" /\ dm.msg.kind = kind

HandleOperComplete ==
    /\ Handles("OperComplete")
    /\ OperationComplete(dm.msg.num, "idle")
    /\ UNCHANGED <<queue, todo, enabled>>

UpdateOperationStatus ==
    /\ Handles("OperStatus")
    /\ dm' = Idle
    /\ \E committed \in MayCommit :
        active' = IF committed THEN active \cup ({dm.msg.num} \cap Rows) ELSE active
    /\ UNCHANGED <<table, args, conts, threads, queue, todo, enabled, issued, owed, faults, crashes>>

(* E2E_CONTEXT_E2eSessionEvent signals a completion in every case; a       *)
(* message the DM thread posts to itself is discarded when there is no     *)
(* room for it.                                                            *)
E2eSessionEvent ==
    /\ Handles("E2eSessionEvent")
    /\ dm' = Idle
    /\ IF Full(queue)
       THEN faults' = faults \cup {"stuck"} /\ UNCHANGED queue
       ELSE /\ queue' = Post(queue, "OperComplete", dm.msg.num, dm.msg.op)
            /\ UNCHANGED faults
    /\ UNCHANGED <<table, active, args, conts, threads, todo, enabled, issued, owed, crashes>>

-----------------------------------------------------------------------------
(* DM_EXEC_EnableNotifications, at the first connection to a broker, goes  *)
(* through the rows that are in the table then, lowest number first.       *)
EnableNotifications ==
    /\ dm = Idle
    /\ ~enabled
    /\ dm' = [at |-> "restart"]
    /\ todo' = Rows
    /\ UNCHANGED <<table, active, args, conts, threads, queue, enabled, issued, owed, faults, crashes>>

Restarting(n) == dm.at = "restart" /\ n \in todo /\ \A m \in todo : n <= m

(* DATA_MODEL_ShouldOperationRestart fails when the object of the command  *)
(* has been deleted, and the loop ends.                                    *)
GiveUp(n) ==
    /\ Restarting(n)
    /\ table[n] \in ResetOps /\ Target[table[n]] \notin conts
    /\ todo' = {}
    /\ faults' = faults \cup {"stuck"}
    /\ UNCHANGED <<table, active, args, conts, threads, queue, dm, enabled, issued,
                   owed, crashes>>

(* Slip: the operation is taken to be running still. *)
FaultyRestartTimer(n) ==
    /\ Restarting(n)
    /\ table[n] \in TimerOps
    /\ todo' = todo \ {n}
    /\ UNCHANGED <<table, active, args, conts, threads, queue, dm, enabled, issued, owed,
                   faults, crashes>>

(* RestartAsyncOperation: the arguments are read back and the operation is *)
(* started again, or completed with the error that prevents it.            *)
RestartTimer(n) ==
    /\ Restarting(n)
    /\ table[n] \in TimerOps
    /\ args[n] # None
    /\ todo' = todo \ {n}
    /\ \E s \in Start_ScheduleTimer(args[n], n, TRUE, args) : s.ok /\ threads' = s.threads
    /\ UNCHANGED <<table, active, args, conts, queue, dm, enabled, issued, owed, faults, crashes>>

(* A restart that fails, and an operation that is not to be restarted. *)
CompleteInterrupted(n) ==
    /\ Restarting(n)
    /\ table[n] \in ResetOps => Target[table[n]] \in conts
    /\ todo' = todo \ {n}
    /\ OperationComplete(n, "restart")
    /\ UNCHANGED <<queue, enabled>>

AllRestarted ==
    /\ dm.at = "restart"
    /\ todo = {}
    /\ dm' = Idle
    /\ enabled' = TRUE
    /\ UNCHANGED <<table, active, args, conts, threads, queue, todo, issued, owed, faults, crashes>>

-----------------------------------------------------------------------------
(* A controller is deleted from its table, by another request. *)
DeleteController(c) ==
    /\ dm = Idle
    /\ c \in conts
    /\ conts' = conts \ {c}
    /\ UNCHANGED <<table, active, args, threads, queue, dm, todo, enabled, issued,
                   owed, faults, crashes>>

(* The process ends, at any point, and is started again: the database is   *)
(* as it was last committed.  What went wrong in memory is forgotten.      *)
Crash ==
    /\ crashes < MaxCrashes
    /\ crashes' = crashes + 1
    /\ threads' = {}
    /\ queue' = <<>>
    /\ dm' = Idle
    /\ todo' = {}
    /\ enabled' = FALSE
    /\ faults' = {}
    /\ UNCHANGED <<table, active, args, conts, issued, owed>>

Init ==
    /\ table = [n \in Nums |-> None]
    /\ active = {}
    /\ args = [n \in Nums |-> None]
    /\ conts = Controllers
    /\ threads = {}
    /\ queue = <<>>
    /\ dm = Idle
    /\ todo = {}
    /\ enabled = FALSE
    /\ issued = {}
    /\ owed = {}
    /\ faults = {}
    /\ crashes = 0

RestartStep == AllRestarted \/ \E n \in Nums : GiveUp(n) \/ RestartTimer(n) \/ CompleteInterrupted(n)
HandleMessage == HandleOperComplete \/ UpdateOperationStatus \/ E2eSessionEvent

Next ==
    \/ \E op \in Ops : HandleOperate(op)
    \/ \E t \in threads : TimerThread(t)
    \/ ReceiveMessage
    \/ HandleMessage
    \/ DeleteRequestArgs
    \/ EnableNotifications
    \/ RestartStep
    \/ \E c \in Controllers : DeleteController(c)
    \/ Crash

Spec == Init /\ [][Next]_vars

(* Every thread of the process gets to run, a delay ends, a broker is      *)
(* reached in the end.                                                     *)
Fairness ==
    /\ SF_vars(\E t \in threads : TimerThread(t))
    /\ WF_vars(ReceiveMessage)
    /\ WF_vars(HandleMessage)
    /\ WF_vars(DeleteRequestArgs)
    /\ SF_vars(EnableNotifications)
    /\ WF_vars(RestartStep)

FairSpec == Spec /\ Fairness

-----------------------------------------------------------------------------
(* The table, the threads, the messages and the restart loop have their   *)
(* types: what is active, or still to be restarted, is a row, and the DM   *)
(* thread's queue (a socket) is never longer than it holds.                *)
TypeOK ==
    /\ table \in [Nums -> Ops \cup {None}]
    /\ active \subseteq Rows
    /\ args \in [Nums -> Ops \cup {None}]
    /\ conts \subseteq Controllers
    /\ threads \subseteq Thread
    /\ queue \in Seq(Message)
    /\ Len(queue) <= QueueMax
    /\ dm \in Phases
    /\ todo \subseteq Rows
    /\ enabled \in BOOLEAN
    /\ issued \subseteq Ops
    /\ owed \subseteq issued
    /\ faults \subseteq Faults
    /\ crashes \in 0..MaxCrashes

InTable(op) == \E n \in Nums : table[n] = op

(* No operation is forgotten: one that was accepted is in the table, in    *)
(* which a restart will find it, until the subscribers have been notified  *)
(* of its completion, whichever commit fails and wherever the process ends *)
(* (device_request.c:258-273, notification before deletion).               *)
NothingForgotten == \A op \in owed : InTable(op)

(* An operation is restarted with its own arguments: those in the database *)
(* under the number of a ScheduleTimer row were persisted for that row,    *)
(* even though arguments of an older row with the number may be left over. *)
OwnArgs == \A n \in Rows : table[n] \in TimerOps => args[n] = table[n]

(* A message about a row reaches the operation that caused it: a status or *)
(* a result is never taken for that of a later operation with the number,  *)
(* except after an Operate whose commit failed or that was refused when    *)
(* it had already queued its status, or one made before the restart loop   *)
(* has run, which starts it a second time.                                 *)
OwnMessage ==
    \/ "stray" \in faults
    \/ dm.at = "message" => table[dm.msg.num] \in {None, dm.msg.op}

(* "The lifetime of these shadow objects match those of the object in the  *)
(* request table" (device_request.c:100): persisted arguments go with      *)
(* their row, in the same call of the DM thread.  This is so only while no *)
(* commit fails and the process goes on: DeviceRequestProofs!ArgumentsGo.  *)
ArgsGoWithRow ==
    \A n \in Nums : args[n] # None => table[n] # None \/ (dm.at = "cascade" /\ dm.num = n)

(* No row stays for ever: every operation completes, or fails to restart,  *)
(* and its row is removed, unless since the process was started the result *)
(* was dropped from the full queue, the deletion was not committed, or the *)
(* restart loop gave up.                                                   *)
RowsGo == \A op \in Ops : InTable(op) ~> ~InTable(op) \/ "stuck" \in faults
=============================================================================
