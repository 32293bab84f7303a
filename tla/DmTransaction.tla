--------------------------- MODULE DmTransaction ----------------------------
(***************************************************************************)
(* Data model transactions: core/dm_trans.c, with the operations of        *)
(* core/data_model.c that it records, the instance vectors of              *)
(* core/dm_inst_vector.c and the SQLite database of core/database.c.       *)
(*                                                                         *)
(* A session is one pass of a caller through DM_TRANS_Start, operations    *)
(* and DM_TRANS_Commit or DM_TRANS_Abort.  The request handlers of the DM  *)
(* thread run one session after the other.  Java threads of the Android    *)
(* application run sessions of their own through the JNI functions of      *)
(* vendor/vendor.c; nothing keeps them from overlapping the DM thread's.   *)
(* A call into dm_trans.c or data_model.c is one step, and the loop over   *)
(* the children of a deleted instance and the loop over the notifications  *)
(* of a commit are one step per round.                                     *)
(*                                                                         *)
(* An instance stands for its rows in the database: a value, or Absent.    *)
(* Operators named Faulty... are plausible slips in the function defined   *)
(* next to them; no action uses them.                                      *)
(***************************************************************************)
EXTENDS Naturals, Sequences, FiniteSets

CONSTANTS
    Instances,      \* object instances of the data model
    Parent,         \* the instance each one is nested in, or None
    None,
    Values,         \* values of a parameter, other than its default
    Default,        \* the value an added instance starts with
    Threads,        \* the DM thread and the Java threads
    KindsOf,        \* the callers on each thread
    Overlap,        \* whether sessions of different threads overlap
    BeginMayFail,   \* SQLite may refuse to begin a transaction
    CommitMayFail,  \* SQLite may fail to commit
    WriteFaults,    \* callers during which SQLite may fail to write or delete a row
    MaxOps          \* most operations in a session, those of notify callbacks included

Absent == 0
Nobody == "nobody"
Contents == Values \cup {Default, Absent}

(* The callers, by what they do when an operation returns an error: the    *)
(* handlers abort; SK_TR369_DeleteInstance, DeleteExpiredSubscriptions and *)
(* DeleteNonPersistentSubscriptions commit what they have; and             *)
(* DEVICE_REQUEST_UpdateOperationStatus just returns.  The notify          *)
(* callbacks of a commit ("Cascade") have their errors ignored.            *)
Aborting == {"Set", "Add", "Delete", "Operate", "Complete", "JniAdd"}
Committing == {"JniDelete", "DeleteExpired"}
Kinds == Aborting \cup Committing \cup {"UpdateStatus"}
Careless == Committing \cup {"UpdateStatus", "Cascade"}
Adding == {"Add", "Operate", "JniAdd"}
Deleting == {"Delete", "Complete", "JniDelete", "DeleteExpired", "Cascade"}
Setting == {"Set", "Add", "Operate", "UpdateStatus", "Cascade"}

ASSUME TransactionAssumption ==
    /\ None \notin Instances
    /\ Parent \in [Instances -> Instances \cup {None}]
    /\ \A i \in Instances : Parent[i] # None => Parent[Parent[i]] = None
    /\ Absent \notin Values \cup {Default}
    /\ Nobody \notin Threads
    /\ KindsOf \in [Threads -> SUBSET Kinds]
    /\ WriteFaults \subseteq Kinds \cup {"Cascade"}
    /\ Overlap \in BOOLEAN /\ BeginMayFail \in BOOLEAN /\ CommitMayFail \in BOOLEAN
    /\ MaxOps \in Nat

VARIABLES
    data,       \* cur_transaction, the instance vectors and the database
    phase,      \* thread: "idle", in its session's "body", or calling "notify" functions
    kind,       \* thread: the caller
    failed,     \* thread: an operation of the session returned an error the caller acts on
    deleting,   \* thread: the instance whose children DATA_MODEL_DeleteInstance is deleting
    notify,     \* thread: operations still to be notified by DM_TRANS_Commit
    left,       \* thread: operations left, a bound
    before,     \* thread: the committed database when the session started
    alive       \* no USP_ASSERT has failed

vars == <<data, phase, kind, failed, deleting, notify, left, before, alive>>
-----------------------------------------------------------------------------
(* data.cur is cur_transaction: the session whose vector it points to, and *)
(* the vector.  data.work is what SQLite statements see; with no SQLite    *)
(* transaction open it is data.db, and every write commits by itself.      *)

Op == [op: {"Set", "Add", "Del"}, inst: Instances, by: Threads]
Data == [cur: [owner: Threads \cup {Nobody}, ops: Seq(Op)],
         inst: SUBSET Instances,
         db: [Instances -> Contents], work: [Instances -> Contents], open: BOOLEAN]

NullTransaction == [owner |-> Nobody, ops |-> <<>>]
InTransaction(d) == d.cur.owner # Nobody
Rows(content) == {i \in Instances : content[i] # Absent}
Children(i) == {c \in Instances : Parent[c] = i}

Write(d, i, v) ==
    [d EXCEPT !.work[i] = v, !.db[i] = IF d.open THEN @ ELSE v]

(* DM_TRANS_Start; "ok" is the outcome of DATABASE_StartTransaction, which *)
(* fails in any case when a SQLite transaction is already open.            *)
FaultyStart(d, t, ok) ==            \* Slip: no SQLite transaction
    IF InTransaction(d) THEN d ELSE [d EXCEPT !.cur = [owner |-> t, ops |-> <<>>]]

Start(d, t, ok) ==
    IF InTransaction(d) THEN d
    ELSE [d EXCEPT !.cur = [owner |-> t, ops |-> <<>>], !.open = d.open \/ ok]

Started(d, ok) == InTransaction(d) \/ (ok /\ ~d.open)

(* DM_TRANS_Add.  A set within an instance that the same transaction adds  *)
(* is not recorded.                                                        *)
Within(i, a) == i = a \/ Parent[i] = a
PartOfAdd(d, e) ==
    e.op = "Set" /\ \E k \in 1..Len(d.cur.ops) :
                        d.cur.ops[k].op = "Add" /\ Within(e.inst, d.cur.ops[k].inst)

Record(d, e) == IF PartOfAdd(d, e) THEN d ELSE [d EXCEPT !.cur.ops = Append(@, e)]

(* DM_TRANS_Abort undoes the recorded operations in the instance vectors   *)
(* from the first to the last: an Add by removing the instance and all     *)
(* that is nested in it, a Del by adding the instance.                     *)
Removes(e, i) == e.op = "Add" /\ Within(i, e.inst)
Restores(e, i) == e.op = "Del" /\ e.inst = i

FaultyUndo(inst, ops) ==            \* Slip: deletions stay
    {i \in inst : \A m \in 1..Len(ops) : ~Removes(ops[m], i)}

Undo(inst, ops) ==
    {i \in Instances :
        \/ i \in inst /\ \A m \in 1..Len(ops) : ~Removes(ops[m], i)
        \/ \E k \in 1..Len(ops) :
              Restores(ops[k], i) /\ \A m \in (k + 1)..Len(ops) : ~Removes(ops[m], i)}

(* Slip: an instance is put back together with its parent, which a top    *)
(* level instance does not have.                                           *)
FaultyAbort(d) ==
    IF InTransaction(d)
    THEN [d EXCEPT !.inst = LET back == Undo(d.inst, d.cur.ops)
                            IN  back \cup {Parent[i] : i \in back},
                   !.cur = NullTransaction, !.work = d.db, !.open = FALSE]
    ELSE d

Abort(d) ==
    IF InTransaction(d)
    THEN [d EXCEPT !.inst = Undo(d.inst, d.cur.ops), !.cur = NullTransaction,
                   !.work = d.db, !.open = FALSE]
    ELSE d

(* DM_TRANS_Commit, up to the notifications: these run inside a new        *)
(* transaction, whose start may fail unnoticed.                            *)
DbCommits(d, ok) == ok /\ d.open

FaultyCommit(d, t, ok, begin) ==    \* Slip: the notifications run outside a transaction
    IF ~DbCommits(d, ok) THEN Abort(d)
    ELSE [d EXCEPT !.cur = NullTransaction, !.db = d.work, !.open = FALSE]

Commit(d, t, ok, begin) ==
    IF ~DbCommits(d, ok) THEN Abort(d)
    ELSE LET done == [d EXCEPT !.cur = NullTransaction, !.db = d.work, !.open = FALSE]
         IN  IF d.cur.ops = <<>> THEN done ELSE Start(done, t, begin)

-----------------------------------------------------------------------------
BeginOutcomes == IF BeginMayFail THEN BOOLEAN ELSE {TRUE}
CommitOutcomes == IF CommitMayFail THEN BOOLEAN ELSE {TRUE}

(* What runs on the thread, and so which operations it may perform. *)
Runs(t) == IF phase[t] = "notify" THEN "Cascade" ELSE kind[t]
CanOperate(t) ==
    /\ alive /\ phase[t] # "idle" /\ deleting[t] = None
    /\ ~failed[t] \/ Runs(t) \in {"DeleteExpired", "Cascade"}
MayFail(t) == Runs(t) \in WriteFaults

(* An error of an operation; only the body of a session acts upon it. *)
Error(t) == failed' = [failed EXCEPT ![t] = (phase[t] = "body")]

SessionUnchanged == UNCHANGED <<phase, kind, notify, before>>
Spend(t) == left[t] > 0 /\ left' = [left EXCEPT ![t] = @ - 1]

(* A caller starts a session.  When DM_TRANS_Start fails only the JNI      *)
(* functions abort; the others return.                                     *)
SessionStarts(t, k, ok) ==
    /\ alive /\ phase[t] = "idle" /\ k \in KindsOf[t]
    /\ Overlap \/ \A s \in Threads : phase[s] = "idle"
    /\ IF Started(data, ok)
       THEN /\ data' = Start(data, t, ok)
            /\ phase' = [phase EXCEPT ![t] = "body"]
       ELSE /\ data' = IF k \in {"JniAdd", "JniDelete"}
                       THEN Abort(Start(data, t, ok)) ELSE Start(data, t, ok)
            /\ UNCHANGED phase
    /\ kind' = [kind EXCEPT ![t] = k]
    /\ failed' = [failed EXCEPT ![t] = FALSE]
    /\ left' = [left EXCEPT ![t] = MaxOps]
    /\ before' = [before EXCEPT ![t] = data.db]
    /\ UNCHANGED <<deleting, notify, alive>>

(* An operation returns an error before it changes anything: no such       *)
(* instance, no permission, an invalid value, or a vendor hook refuses.    *)
(* The error of a parameter that is not required to be set is not acted    *)
(* upon: nothing happens.                                                  *)
Rejected(t) ==
    /\ CanOperate(t) /\ Runs(t) # "UpdateStatus" /\ ~failed[t]
    /\ Error(t) /\ Spend(t)
    /\ UNCHANGED <<data, deleting, alive>> /\ SessionUnchanged

(* DM_TRANS_Add asserts that there is a transaction. *)
Recorded(t, d, op, i) ==
    /\ data' = IF InTransaction(d) THEN Record(d, [op |-> op, inst |-> i, by |-> t]) ELSE d
    /\ alive' = InTransaction(d)

(* DATA_MODEL_SetParameterValue *)
SetParameterValue(t, i, v) ==
    /\ CanOperate(t) /\ Runs(t) \in Setting /\ i \in data.inst /\ Spend(t)
    /\ Recorded(t, [Write(data, i, v) EXCEPT !.inst = @ \cup {i}], "Set", i)
    /\ UNCHANGED <<failed, deleting>> /\ SessionUnchanged

SetFails(t) ==
    /\ CanOperate(t) /\ Runs(t) \in Setting /\ MayFail(t) /\ Spend(t)
    /\ Error(t) /\ UNCHANGED <<data, deleting, alive>> /\ SessionUnchanged

(* DATA_MODEL_AddInstance *)
CanAdd(t, i) ==
    /\ CanOperate(t) /\ Runs(t) \in Adding /\ Spend(t)
    /\ i \notin data.inst /\ Parent[i] \in data.inst \cup {None}

AddInstance(t, i) ==
    /\ CanAdd(t, i)
    /\ Recorded(t, [Write(data, i, Default) EXCEPT !.inst = @ \cup {i}], "Add", i)
    /\ UNCHANGED <<failed, deleting>> /\ SessionUnchanged

(* Some default values may have been written, but the instance is gone. *)
AddFails(t, i) ==
    /\ CanAdd(t, i) /\ MayFail(t)
    /\ data' \in {data, Write(data, i, Default)}
    /\ Error(t) /\ UNCHANGED <<deleting, alive>> /\ SessionUnchanged

(* DATA_MODEL_DeleteInstance: the operation is recorded first, then        *)
(* DeleteChildParams deletes the rows and the nested instances, and last   *)
(* the instance leaves the instance vector.                                *)
DeleteInstance(t, i) ==
    /\ CanOperate(t) /\ Runs(t) \in Deleting /\ i \in data.inst /\ Spend(t)
    /\ Recorded(t, data, "Del", i)
    /\ deleting' = [deleting EXCEPT ![t] = i]
    /\ UNCHANGED failed /\ SessionUnchanged

InDelete(t) == alive /\ deleting[t] # None
DeleteStep(t) == InDelete(t) /\ SessionUnchanged /\ UNCHANGED left

DeleteRows(t) ==
    /\ DeleteStep(t) /\ data.work[deleting[t]] # Absent
    /\ data' = Write(data, deleting[t], Absent)
    /\ UNCHANGED <<failed, deleting, alive>>

DeleteChild(t, c) ==
    /\ DeleteStep(t) /\ Parent[c] = deleting[t] /\ c \in data.inst
    /\ Recorded(t, [Write(data, c, Absent) EXCEPT !.inst = @ \ {c}], "Del", c)
    /\ UNCHANGED <<failed, deleting>>

DeleteFails(t) ==
    /\ DeleteStep(t) /\ MayFail(t) /\ Error(t)
    /\ deleting' = [deleting EXCEPT ![t] = None]
    /\ UNCHANGED <<data, alive>>

DeleteEnds(t) ==
    /\ DeleteStep(t)
    /\ data.work[deleting[t]] = Absent /\ Children(deleting[t]) \cap data.inst = {}
    /\ data' = [data EXCEPT !.inst = @ \ ({deleting[t]} \cup Children(deleting[t]))]
    /\ deleting' = [deleting EXCEPT ![t] = None]
    /\ UNCHANGED <<failed, alive>>

-----------------------------------------------------------------------------
(* The end of a session. *)

FaultyEndsOnError(t) == failed[t] /\ kind[t] = "UpdateStatus"   \* Slip: errors are ignored
EndsOnError(t) == failed[t] /\ kind[t] \notin Committing

SessionFails(t) ==
    /\ alive /\ phase[t] = "body" /\ deleting[t] = None /\ EndsOnError(t)
    /\ data' = IF kind[t] \in Aborting THEN Abort(data) ELSE data
    /\ phase' = [phase EXCEPT ![t] = "idle"]
    /\ UNCHANGED <<kind, failed, deleting, notify, left, before, alive>>

(* DM_TRANS_Commit, called at the end of the body and, for the operations  *)
(* of the notify callbacks, once all callbacks have been called.  Errors   *)
(* of the latter are not reported.                                         *)
AtCommit(t) ==
    \/ phase[t] = "body" /\ ~EndsOnError(t)
    \/ phase[t] = "notify" /\ notify[t] = <<>>

CommitTransaction(t, ok, begin) ==
    /\ alive /\ deleting[t] = None /\ AtCommit(t)
    /\ LET notifies == InTransaction(data) /\ DbCommits(data, ok) /\ data.cur.ops # <<>>
       IN  /\ data' = IF InTransaction(data) THEN Commit(data, t, ok, begin) ELSE data
           /\ phase' = [phase EXCEPT ![t] = IF notifies THEN "notify" ELSE "idle"]
           /\ notify' = [notify EXCEPT ![t] = IF notifies THEN data.cur.ops ELSE <<>>]
           /\ failed' = [failed EXCEPT ![t] = ~notifies /\ phase[t] = "body"
                                              /\ InTransaction(data) /\ ~DbCommits(data, ok)]
    /\ UNCHANGED <<kind, deleting, left, before, alive>>

(* A notify callback returns; what it did to the data model are the        *)
(* operations above.                                                       *)
NotifyReturns(t) ==
    /\ alive /\ phase[t] = "notify" /\ deleting[t] = None /\ notify[t] # <<>>
    /\ notify' = [notify EXCEPT ![t] = Tail(@)]
    /\ UNCHANGED <<data, phase, kind, failed, deleting, left, before, alive>>

Session(t) ==
    \/ \E k \in Kinds, ok \in BeginOutcomes : SessionStarts(t, k, ok)
    \/ Rejected(t) \/ SetFails(t)
    \/ \E i \in Instances :
          \/ \E v \in Values : SetParameterValue(t, i, v)
          \/ AddInstance(t, i) \/ AddFails(t, i)
          \/ DeleteInstance(t, i) \/ DeleteChild(t, i)
    \/ DeleteRows(t) \/ DeleteFails(t) \/ DeleteEnds(t)
    \/ SessionFails(t) \/ NotifyReturns(t)
    \/ \E ok \in CommitOutcomes, begin \in BeginOutcomes : CommitTransaction(t, ok, begin)

Init ==
    /\ data = [cur |-> NullTransaction, inst |-> {}, open |-> FALSE,
               db |-> [i \in Instances |-> Absent], work |-> [i \in Instances |-> Absent]]
    /\ phase = [t \in Threads |-> "idle"] /\ kind = [t \in Threads |-> "Set"]
    /\ failed = [t \in Threads |-> FALSE] /\ deleting = [t \in Threads |-> None]
    /\ notify = [t \in Threads |-> <<>>] /\ left = [t \in Threads |-> 0]
    /\ before = [t \in Threads |-> [i \in Instances |-> Absent]]
    /\ alive = TRUE

Next == \E t \in Threads : Session(t)

Spec == Init /\ [][Next]_vars
-----------------------------------------------------------------------------
(* The transaction, the database and every session have their types: what  *)
(* is recorded and notified are operations on instances, also after an     *)
(* abort in the middle of a deletion (DM_TRANS_Add, DM_TRANS_Abort).       *)
TypeOK ==
    /\ data \in Data
    /\ phase \in [Threads -> {"idle", "body", "notify"}]
    /\ kind \in [Threads -> Kinds]
    /\ failed \in [Threads -> BOOLEAN]
    /\ deleting \in [Threads -> Instances \cup {None}]
    /\ notify \in [Threads -> Seq(Op)]
    /\ left \in [Threads -> Nat]
    /\ before \in [Threads -> [Instances -> Contents]]
    /\ alive \in BOOLEAN

(* Between sessions the instance vectors hold exactly the instances that   *)
(* have rows in the database, whatever was added, deleted (with nested     *)
(* instances), aborted or failed to commit, in bodies and in notify        *)
(* callbacks; and nothing is left open (DM_TRANS_Abort, DM_TRANS_Commit).  *)
InstancesMatchDb ==
    (\A t \in Threads : phase[t] = "idle") =>
        /\ data.inst = Rows(data.db)
        /\ data.cur = NullTransaction /\ ~data.open

(* What vendor code and controllers are notified of is so: the added       *)
(* instance is in the committed database and the deleted one is not, while *)
(* callbacks that run before change the data model (DM_TRANS_Commit).      *)
NotifiedIsTrue ==
    \A t \in Threads : \A k \in 1..Len(notify[t]) :
        /\ notify[t][k].op = "Add" => notify[t][k].inst \in Rows(data.db)
        /\ notify[t][k].op = "Del" => notify[t][k].inst \notin Rows(data.db)

(* No operation is performed outside a transaction: the assertion of       *)
(* DM_TRANS_Add holds, also in the notify callbacks of cascaded commits.   *)
AssertionsHold == alive

(* A request that is answered with an error, because one of its operations *)
(* or the commit failed, has left the committed database as it found it    *)
(* (the handlers with allow_partial false).                                *)
FailureChangesNothing ==
    [][ \A t \in Threads :
            phase[t] = "body" /\ phase'[t] = "idle" /\ failed'[t] => data'.db = before[t] ]_vars

(* data_model.c, DATA_MODEL_SetParameterValue, says of the operations it   *)
(* records: "They will be notified once the whole transaction has been     *)
(* completed successfully (or they will be forgotten if the transaction    *)
(* was aborted)".  No operation is notified while the session it belongs   *)
(* to is still performing operations.                                      *)
NotifiedWhenComplete ==
    \A t \in Threads : \A k \in 1..Len(notify[t]) :
        notify[t][k].by # t => phase[notify[t][k].by] # "body"
=============================================================================
