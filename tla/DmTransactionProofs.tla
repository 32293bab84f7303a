------------------------ MODULE DmTransactionProofs -------------------------
(***************************************************************************)
(* Proofs about DmTransaction, for all instances (nested once), threads,   *)
(* values and numbers of operations, when sessions do not overlap, SQLite  *)
(* begins a transaction when asked to, and writes fail only in callers     *)
(* that abort.                                                             *)
(***************************************************************************)
EXTENDS DmTransaction, TLAPS

Disciplined == ~Overlap /\ ~BeginMayFail /\ WriteFaults \cap Careless = {}

(***************************************************************************)
(* The inductive invariant.  Half way through a session the instance       *)
(* vectors match neither the committed database nor, while an instance is  *)
(* being deleted or after a write has failed, what SQLite sees.  What      *)
(* stays true is that undoing the recorded operations would give the       *)
(* committed database.  That needs every transaction to record additions   *)
(* or deletions, never both: DM_TRANS_Abort undoes them from first to last.*)
(***************************************************************************)
Closed(S) == \A i \in S : Parent[i] \in S \cup {None}
NoAdd(ops) == \A k \in 1..Len(ops) : ops[k].op # "Add"
NoDel(ops) == \A k \in 1..Len(ops) : ops[k].op # "Del"
Removed(ops, i) == \E m \in 1..Len(ops) : Removes(ops[m], i)
Restored(ops, i) == \E k \in 1..Len(ops) : Restores(ops[k], i)

(* Outside a session. *)
IdleOK(d) ==
    /\ d \in Data
    /\ d.cur = NullTransaction /\ ~d.open /\ d.work = d.db
    /\ d.inst = Rows(d.db) /\ Closed(d.inst)

(* In a session of a caller of kind "runs", in which instance "del" is     *)
(* being deleted; "hurt" says that an operation has failed and the caller  *)
(* will abort.                                                             *)
UndoOK(d, runs) ==
    /\ d \in Data /\ InTransaction(d) /\ d.open
    /\ Closed(Rows(d.db)) /\ Closed(d.inst)
    /\ Undo(d.inst, d.cur.ops) = Rows(d.db)
    /\ runs \in Adding => NoDel(d.cur.ops)
    /\ runs \notin Adding => NoAdd(d.cur.ops)

OpsTrue(d, hurt, del) ==
    \A k \in 1..Len(d.cur.ops) :
        /\ d.cur.ops[k].op = "Add" => d.cur.ops[k].inst \in d.inst
        /\ d.cur.ops[k].op = "Del" =>
              d.cur.ops[k].inst \notin d.inst \/ d.cur.ops[k].inst = del \/ hurt

WorkOK(d, runs, hurt, del) ==
    /\ del = None => hurt \/ d.inst = Rows(d.work)
    /\ del # None =>
        /\ runs \in Deleting /\ ~hurt /\ del \in d.inst
        /\ Restored(d.cur.ops, del)
        /\ d.inst = Rows(d.work) \cup {del}

SessionOK(d, runs, hurt, del) == UndoOK(d, runs) /\ OpsTrue(d, hurt, del) /\ WorkOK(d, runs, hurt, del)

Hurt(t) == failed[t] /\ phase[t] = "body" /\ kind[t] \in Aborting

IInv ==
    /\ TypeOK /\ alive
    /\ \A s, t \in Threads : phase[s] # "idle" /\ phase[t] # "idle" => s = t
    /\ (\A t \in Threads : phase[t] = "idle") => IdleOK(data)
    /\ \A t \in Threads :
        /\ phase[t] = "idle" => deleting[t] = None
        /\ phase[t] # "notify" => notify[t] = <<>>
        /\ phase[t] # "idle" => SessionOK(data, Runs(t), Hurt(t), deleting[t])
        /\ phase[t] = "body" => before[t] = data.db
        /\ phase[t] = "body" /\ kind[t] = "UpdateStatus" => ~failed[t]
    /\ NotifiedIsTrue
-----------------------------------------------------------------------------
(* What an abort undoes, for the two kinds of transaction. *)

(* Without additions an abort only puts instances back. *)
LEMMA UndoNoAdd ==
  ASSUME NEW inst \in SUBSET Instances, NEW ops \in Seq(Op), NoAdd(ops), NEW i \in Instances
  PROVE  i \in Undo(inst, ops) <=> i \in inst \/ Restored(ops, i)
<1>1. ASSUME NEW m \in 1..Len(ops)
      PROVE  ~Removes(ops[m], i)
  BY DEF NoAdd, Removes
<1>2. ASSUME NEW k \in 1..Len(ops), NEW m \in (k + 1)..Len(ops)
      PROVE  m \in 1..Len(ops)
  OBVIOUS
<1>3. ASSUME NEW k \in 1..Len(ops), NEW m \in (k + 1)..Len(ops)
      PROVE  ~Removes(ops[m], i)
  BY <1>1, <1>2
<1> QED
  BY <1>1, <1>3 DEF Undo, Restored

(* Without deletions an abort only removes instances. *)
LEMMA UndoNoDel ==
  ASSUME NEW inst \in SUBSET Instances, NEW ops \in Seq(Op), NoDel(ops), NEW i \in Instances
  PROVE  i \in Undo(inst, ops) <=> i \in inst /\ ~Removed(ops, i)
<1>1. ASSUME NEW k \in 1..Len(ops)
      PROVE  ~Restores(ops[k], i)
  BY DEF NoDel, Restores
<1> QED
  BY <1>1 DEF Undo, Removed

LEMMA AppendOps ==
  ASSUME NEW ops \in Seq(Op), NEW e \in Op
  PROVE  /\ Append(ops, e) \in Seq(Op)
         /\ Len(Append(ops, e)) = Len(ops) + 1
         /\ \A k \in 1..Len(ops) : Append(ops, e)[k] = ops[k]
         /\ Append(ops, e)[Len(ops) + 1] = e
         /\ \A k : k \in 1..(Len(ops) + 1) <=> k \in 1..Len(ops) \/ k = Len(ops) + 1
  OBVIOUS

LEMMA OpInst ==
  ASSUME NEW ops \in Seq(Op), NEW k \in 1..Len(ops)
  PROVE  ops[k].inst \in Instances /\ ops[k].inst # None
<1>1. ops[k] \in Op
  OBVIOUS
<1> QED
  BY <1>1, TransactionAssumption DEF Op

(* What one more record adds. *)
LEMMA OneMore ==
  ASSUME NEW ops \in Seq(Op), NEW e \in Op
  PROVE  /\ Append(ops, e) \in Seq(Op)
         /\ \A i : Removed(Append(ops, e), i) <=> Removed(ops, i) \/ Removes(e, i)
         /\ \A i : Restored(Append(ops, e), i) <=> Restored(ops, i) \/ Restores(e, i)
         /\ NoAdd(Append(ops, e)) <=> NoAdd(ops) /\ e.op # "Add"
         /\ NoDel(Append(ops, e)) <=> NoDel(ops) /\ e.op # "Del"
<1> DEFINE after == Append(ops, e)
           n == Len(ops)
<1>1. /\ after \in Seq(Op) /\ Len(after) = n + 1
      /\ \A k \in 1..n : after[k] = ops[k]
      /\ after[n + 1] = e
      /\ \A k : k \in 1..(n + 1) <=> k \in 1..n \/ k = n + 1
  BY AppendOps
<1> HIDE DEF after, n
<1>2. \A i : (\E m \in 1..Len(after) : Removes(after[m], i))
               <=> (\E m \in 1..n : Removes(ops[m], i)) \/ Removes(e, i)
  BY <1>1
<1>3. \A i : (\E m \in 1..Len(after) : Restores(after[m], i))
               <=> (\E m \in 1..n : Restores(ops[m], i)) \/ Restores(e, i)
  BY <1>1
<1>4. (\A k \in 1..Len(after) : after[k].op # "Add")
               <=> (\A k \in 1..n : ops[k].op # "Add") /\ e.op # "Add"
  BY <1>1
<1>5. (\A k \in 1..Len(after) : after[k].op # "Del")
               <=> (\A k \in 1..n : ops[k].op # "Del") /\ e.op # "Del"
  BY <1>1
<1> QED
  BY <1>1, <1>2, <1>3, <1>4, <1>5 DEF Removed, Restored, NoAdd, NoDel, after, n

LEMMA NoneYet ==
  /\ <<>> \in Seq(Op) /\ NoAdd(<<>>) /\ NoDel(<<>>)
  /\ \A inst \in SUBSET Instances : Undo(inst, <<>>) = inst
<1>1. <<>> \in Seq(Op) /\ NoAdd(<<>>) /\ NoDel(<<>>)
  BY DEF NoAdd, NoDel
<1>2. \A i : ~Restored(<<>>, i)
  BY DEF Restored
<1>3. ASSUME NEW inst \in SUBSET Instances PROVE Undo(inst, <<>>) = inst
  <2>1. \A i \in Instances : i \in Undo(inst, <<>>) <=> i \in inst
    BY <1>1, <1>2, UndoNoAdd
  <2>2. Undo(inst, <<>>) \subseteq Instances
    BY DEF Undo
  <2> QED
    BY <2>1, <2>2
<1> QED
  BY <1>1, <1>3

(* A recorded set is nothing to undo. *)
LEMMA UndoSet ==
  ASSUME NEW inst \in SUBSET Instances, NEW ops \in Seq(Op), NEW e \in Op, e.op = "Set",
         NoAdd(ops) \/ NoDel(ops)
  PROVE  Undo(inst, Append(ops, e)) = Undo(inst, ops)
<1>1. \A i : ~Restores(e, i) /\ ~Removes(e, i)
  BY DEF Restores, Removes
<1>2. Undo(inst, Append(ops, e)) \subseteq Instances /\ Undo(inst, ops) \subseteq Instances
  BY DEF Undo
<1>3. ASSUME NEW i \in Instances
      PROVE  i \in Undo(inst, Append(ops, e)) <=> i \in Undo(inst, ops)
  <2>1. CASE NoAdd(ops)
    BY <1>1, <2>1, OneMore, UndoNoAdd
  <2>2. CASE NoDel(ops)
    BY <1>1, <2>2, OneMore, UndoNoDel
  <2> QED
    BY <2>1, <2>2
<1> QED
  BY <1>2, <1>3

(* An added instance is removed again, and it has nothing nested in it. *)
LEMMA UndoAdd ==
  ASSUME NEW inst \in SUBSET Instances, NEW ops \in Seq(Op), NEW e \in Op, e.op = "Add",
         e.inst \notin inst, Closed(inst), NoDel(ops)
  PROVE  Undo(inst \cup {e.inst}, Append(ops, e)) = Undo(inst, ops)
<1>1. e.inst \in Instances /\ e.inst # None
  BY TransactionAssumption DEF Op
<1>2. \A i \in inst : ~Removes(e, i)
  BY <1>1 DEF Removes, Within, Closed
<1>3. Removes(e, e.inst)
  BY DEF Removes, Within
<1>4. Undo(inst \cup {e.inst}, Append(ops, e)) \subseteq Instances /\ Undo(inst, ops) \subseteq Instances
  BY DEF Undo
<1>5. ASSUME NEW i \in Instances
      PROVE  i \in Undo(inst \cup {e.inst}, Append(ops, e)) <=> i \in Undo(inst, ops)
  <2>1. inst \cup {e.inst} \in SUBSET Instances
    BY <1>1
  <2>2. i \in Undo(inst \cup {e.inst}, Append(ops, e)) <=>
           i \in inst \cup {e.inst} /\ ~Removed(Append(ops, e), i)
    BY <2>1, OneMore, UndoNoDel
  <2>3. i \in Undo(inst, ops) <=> i \in inst /\ ~Removed(ops, i)
    BY UndoNoDel
  <2> QED
    BY <1>2, <1>3, <2>2, <2>3, OneMore
<1> QED
  BY <1>4, <1>5

(* A deleted instance is put back, whether it has left the vector or not. *)
LEMMA UndoDel ==
  ASSUME NEW inst \in SUBSET Instances, NEW ops \in Seq(Op), NEW e \in Op, e.op = "Del",
         e.inst \in inst, NoAdd(ops), NEW S \in {inst, inst \ {e.inst}}
  PROVE  Undo(S, Append(ops, e)) = Undo(inst, ops)
<1>1. \A i : Restores(e, i) <=> i = e.inst
  BY DEF Restores
<1>2. Undo(S, Append(ops, e)) \subseteq Instances /\ Undo(inst, ops) \subseteq Instances
  BY DEF Undo
<1>3. S \in SUBSET Instances /\ \A i : i \in S \/ i = e.inst <=> i \in inst
  OBVIOUS
<1>4. ASSUME NEW i \in Instances
      PROVE  i \in Undo(S, Append(ops, e)) <=> i \in Undo(inst, ops)
  <2>1. i \in Undo(S, Append(ops, e)) <=> i \in S \/ Restored(Append(ops, e), i)
    BY <1>3, OneMore, UndoNoAdd
  <2>2. i \in Undo(inst, ops) <=> i \in inst \/ Restored(ops, i)
    BY UndoNoAdd
  <2> QED
    BY <1>1, <1>3, <2>1, <2>2, OneMore
<1> QED
  BY <1>2, <1>4

LEMMA UndoTaken ==
  ASSUME NEW inst \in SUBSET Instances, NEW ops \in Seq(Op), NEW i \in Instances,
         NoAdd(ops), Restored(ops, i)
  PROVE  Undo(inst \ {i}, ops) = Undo(inst, ops)
<1>1. Undo(inst \ {i}, ops) \subseteq Instances /\ Undo(inst, ops) \subseteq Instances
  BY DEF Undo
<1>2. ASSUME NEW j \in Instances
      PROVE  j \in Undo(inst \ {i}, ops) <=> j \in Undo(inst, ops)
  BY UndoNoAdd
<1> QED
  BY <1>1, <1>2
-----------------------------------------------------------------------------
(* The fields of data after the operators that change it. *)

LEMMA DataFields ==
  ASSUME NEW d \in Data
  PROVE  /\ d.cur.owner \in Threads \cup {Nobody} /\ d.cur.ops \in Seq(Op)
         /\ d.inst \in SUBSET Instances /\ d.open \in BOOLEAN
         /\ d.db \in [Instances -> Contents] /\ d.work \in [Instances -> Contents]
  BY DEF Data

(* A write in an open SQLite transaction leaves the committed database. *)
LEMMA WriteOpen ==
  ASSUME NEW d \in Data, d.open, NEW i \in Instances, NEW v \in Contents
  PROVE  LET w == Write(d, i, v)
         IN  /\ w \in Data /\ w.cur = d.cur /\ w.inst = d.inst /\ w.open /\ w.db = d.db
             /\ v = Absent => Rows(w.work) = Rows(d.work) \ {i}
             /\ v # Absent => Rows(w.work) = Rows(d.work) \cup {i}
<1> DEFINE w == Write(d, i, v)
<1>1. /\ w.cur = d.cur /\ w.inst = d.inst /\ w.open = d.open
      /\ w.work = [d.work EXCEPT ![i] = v] /\ w.db = [d.db EXCEPT ![i] = d.db[i]]
      /\ w = [cur |-> w.cur, inst |-> w.inst, db |-> w.db, work |-> w.work, open |-> w.open]
  <2> DEFINE V == [d.work EXCEPT ![i] = v]
             B == [d.db EXCEPT ![i] = IF d.open THEN @ ELSE v]
  <2>1. B = [d.db EXCEPT ![i] = d.db[i]]
    OBVIOUS
  <2>2. w = [[d EXCEPT !.work = V] EXCEPT !.db = B]
    BY DEF Write, Data
  <2> HIDE DEF V, B
  <2> QED
    BY <2>1, <2>2 DEF Data, V
<1>2. w.db = d.db /\ w.work \in [Instances -> Contents]
  BY <1>1, DataFields
<1>3. w \in Data
  <2> HIDE DEF w
  <2> QED
    BY <1>1, <1>2 DEF Data
<1>4. \A j \in Instances : w.work[j] = IF j = i THEN v ELSE d.work[j]
  BY <1>1, DataFields
<1> QED
  BY <1>1, <1>2, <1>3, <1>4 DEF Rows

Changed(d, i, v, S) == [Write(d, i, v) EXCEPT !.inst = S]

LEMMA Written ==
  ASSUME NEW d \in Data, d.open, NEW i \in Instances, NEW v \in Contents,
         NEW S \in SUBSET Instances, NEW w, w = Changed(d, i, v, S)
  PROVE  /\ w \in Data /\ w.cur = d.cur /\ w.inst = S /\ w.open /\ w.db = d.db
         /\ v = Absent => Rows(w.work) = Rows(d.work) \ {i}
         /\ v # Absent => Rows(w.work) = Rows(d.work) \cup {i}
<1> DEFINE u == Write(d, i, v)
<1>1. /\ u \in Data /\ u.cur = d.cur /\ u.inst = d.inst /\ u.open /\ u.db = d.db
      /\ v = Absent => Rows(u.work) = Rows(d.work) \ {i}
      /\ v # Absent => Rows(u.work) = Rows(d.work) \cup {i}
  BY WriteOpen
<1>2. w = [u EXCEPT !.inst = S]
  BY DEF Changed
<1> HIDE DEF u
<1>3. w \in Data /\ w.cur = u.cur /\ w.inst = S /\ w.open = u.open /\ w.db = u.db /\ w.work = u.work
  BY <1>1, <1>2 DEF Data
<1> QED
  BY <1>1, <1>3

LEMMA RecordFields ==
  ASSUME NEW d \in Data, NEW e \in Op
  PROVE  LET r == Record(d, e)
         IN  /\ r \in Data /\ r.inst = d.inst /\ r.open = d.open
             /\ r.db = d.db /\ r.work = d.work /\ r.cur.owner = d.cur.owner
             /\ \/ r.cur.ops = Append(d.cur.ops, e)
                \/ e.op = "Set" /\ r.cur.ops = d.cur.ops
<1>1. CASE PartOfAdd(d, e)
  BY <1>1 DEF Record, PartOfAdd
<1>2. CASE ~PartOfAdd(d, e)
  <2> DEFINE r == Record(d, e)
  <2>1. /\ r.inst = d.inst /\ r.open = d.open /\ r.db = d.db /\ r.work = d.work
        /\ r.cur = [owner |-> d.cur.owner, ops |-> Append(d.cur.ops, e)]
        /\ r = [cur |-> r.cur, inst |-> r.inst, db |-> r.db, work |-> r.work, open |-> r.open]
    BY <1>2 DEF Record, Data
  <2>2. Append(d.cur.ops, e) \in Seq(Op)
    BY OneMore, DataFields
  <2>3. r \in Data
    <3>1. r.cur \in [owner: Threads \cup {Nobody}, ops: Seq(Op)]
      BY <2>1, <2>2, DataFields
    <3> HIDE DEF r
    <3> QED
      BY <2>1, <3>1, DataFields DEF Data
  <2> QED
    BY <2>1, <2>3
<1> QED
  BY <1>1, <1>2

(* What remains to be shown of a recorded operation "e" that changes the   *)
(* instance vectors to S and the rows that SQLite sees to those of w.      *)
LEMMA Operation ==
  ASSUME NEW d, NEW runs, SessionOK(d, runs, FALSE, None),
         NEW w \in Data, w.cur = d.cur, w.open, w.db = d.db, Closed(w.inst),
         NEW e \in Op,
         Undo(w.inst, Append(d.cur.ops, e)) = Undo(d.inst, d.cur.ops),
         e.op = "Set" => Undo(w.inst, d.cur.ops) = Undo(d.inst, d.cur.ops),
         runs \in Adding => e.op # "Del",
         runs \notin Adding => e.op # "Add"
  PROVE  UndoOK(Record(w, e), runs)
<1> DEFINE r == Record(w, e)
<1>1. /\ r \in Data /\ r.inst = w.inst /\ r.open /\ r.db = d.db /\ r.cur.owner = d.cur.owner
      /\ \/ r.cur.ops = Append(d.cur.ops, e)
         \/ e.op = "Set" /\ r.cur.ops = d.cur.ops
  BY RecordFields
<1> HIDE DEF r
<1>2. InTransaction(r) /\ Closed(Rows(r.db)) /\ Closed(r.inst)
  BY <1>1 DEF SessionOK, UndoOK, InTransaction
<1>3. Undo(r.inst, r.cur.ops) = Rows(r.db)
  BY <1>1 DEF SessionOK, UndoOK
<1>4. d.cur.ops \in Seq(Op)
  BY DataFields DEF SessionOK, UndoOK
<1>5. runs \in Adding => NoDel(r.cur.ops)
  BY <1>1, <1>4, OneMore DEF SessionOK, UndoOK
<1>6. runs \notin Adding => NoAdd(r.cur.ops)
  BY ZenonT(30), <1>1, <1>4, OneMore DEF SessionOK, UndoOK
<1>7. UndoOK(r, runs)
  BY <1>1, <1>2, <1>3, <1>5, <1>6 DEF UndoOK
<1> QED
  BY <1>7 DEF r
-----------------------------------------------------------------------------
(* One lemma for each operation on the data model. *)

LEMMA SetOK ==
  ASSUME NEW d, NEW runs, SessionOK(d, runs, FALSE, None),
         NEW i \in d.inst, NEW v \in Values, NEW t \in Threads
  PROVE  LET w == [Write(d, i, v) EXCEPT !.inst = @ \cup {i}]
             r == Record(w, [op |-> "Set", inst |-> i, by |-> t])
         IN  InTransaction(w) /\ SessionOK(r, runs, FALSE, None) /\ r.db = d.db
<1> DEFINE w == [Write(d, i, v) EXCEPT !.inst = @ \cup {i}]
           e == [op |-> "Set", inst |-> i, by |-> t]
           r == Record(w, e)
<1>1. /\ d \in Data /\ InTransaction(d) /\ d.open /\ d.inst = Rows(d.work) /\ Closed(d.inst)
      /\ i \in Instances /\ v \in Contents /\ v # Absent /\ d.cur.ops \in Seq(Op)
      /\ d.inst \in SUBSET Instances
      /\ NoAdd(d.cur.ops) \/ NoDel(d.cur.ops)
  BY DataFields, TransactionAssumption DEF SessionOK, UndoOK, WorkOK, Contents
<1>2. /\ w \in Data /\ w.cur = d.cur /\ w.open /\ w.db = d.db /\ w.inst = d.inst
      /\ Rows(w.work) = d.inst
  <2> DEFINE S == Write(d, i, v).inst \cup {i}
  <2>1. S = d.inst
    BY <1>1, WriteOpen
  <2>2. w = Changed(d, i, v, S)
    BY DEF Changed
  <2>3. S \in SUBSET Instances
    BY <1>1, <2>1
  <2> HIDE DEF w, S
  <2>4. /\ w \in Data /\ w.cur = d.cur /\ w.inst = S /\ w.open /\ w.db = d.db
        /\ v # Absent => Rows(w.work) = Rows(d.work) \cup {i}
    <3>1. d \in Data /\ d.open /\ i \in Instances /\ v \in Contents
      BY <1>1
    <3> QED
      BY <2>2, <2>3, <3>1, Written
  <2> QED
    BY <1>1, <2>1, <2>4
<1>3. e \in Op /\ e.op = "Set"
  BY <1>1 DEF Op
<1> HIDE DEF w, e
<1>4. UndoOK(r, runs)
  BY ZenonT(30), <1>1, <1>2, <1>3, UndoSet, Operation
<1>5. /\ r.inst = d.inst /\ r.work = w.work /\ r.db = d.db
      /\ r.cur.ops = Append(d.cur.ops, e) \/ r.cur.ops = d.cur.ops
  BY <1>2, <1>3, RecordFields
<1> HIDE DEF r
<1>6. OpsTrue(r, FALSE, None)
  <2>1. ASSUME NEW k \in 1..Len(r.cur.ops)
        PROVE  (k \in 1..Len(d.cur.ops) /\ r.cur.ops[k] = d.cur.ops[k]) \/ r.cur.ops[k] = e
    BY <1>1, <1>3, <1>5, AppendOps
  <2> QED
    BY <1>3, <1>5, <2>1 DEF SessionOK, OpsTrue
<1>7. WorkOK(r, runs, FALSE, None)
  BY <1>2, <1>5 DEF WorkOK
<1> QED
  BY <1>1, <1>2, <1>4, <1>5, <1>6, <1>7 DEF SessionOK, InTransaction, w, e, r

LEMMA AddOK ==
  ASSUME NEW d, NEW runs \in Adding, SessionOK(d, runs, FALSE, None),
         NEW i \in Instances, i \notin d.inst, Parent[i] \in d.inst \cup {None},
         NEW t \in Threads
  PROVE  LET w == [Write(d, i, Default) EXCEPT !.inst = @ \cup {i}]
             r == Record(w, [op |-> "Add", inst |-> i, by |-> t])
         IN  InTransaction(w) /\ SessionOK(r, runs, FALSE, None) /\ r.db = d.db
<1> DEFINE w == [Write(d, i, Default) EXCEPT !.inst = @ \cup {i}]
           e == [op |-> "Add", inst |-> i, by |-> t]
           r == Record(w, e)
<1>1. /\ d \in Data /\ InTransaction(d) /\ d.open /\ d.inst = Rows(d.work) /\ Closed(d.inst)
      /\ Default \in Contents /\ Default # Absent /\ d.cur.ops \in Seq(Op)
      /\ d.inst \in SUBSET Instances /\ NoDel(d.cur.ops)
  BY DataFields, TransactionAssumption DEF SessionOK, UndoOK, WorkOK, Contents
<1>2. /\ w \in Data /\ w.cur = d.cur /\ w.open /\ w.db = d.db /\ w.inst = d.inst \cup {i}
      /\ Rows(w.work) = d.inst \cup {i}
  <2> DEFINE S == Write(d, i, Default).inst \cup {i}
  <2>1. S = d.inst \cup {i} /\ S \in SUBSET Instances
    BY <1>1, WriteOpen
  <2>2. w = Changed(d, i, Default, S)
    BY DEF Changed
  <2>3. S \in SUBSET Instances
    BY <1>1, <2>1
  <2> HIDE DEF w, S
  <2>4. /\ w \in Data /\ w.cur = d.cur /\ w.inst = S /\ w.open /\ w.db = d.db
        /\ Default # Absent => Rows(w.work) = Rows(d.work) \cup {i}
    BY <1>1, <2>2, <2>3, Written
  <2> QED
    BY <1>1, <2>1, <2>4
<1>3. e \in Op /\ e.op = "Add" /\ e.inst = i
  BY <1>1 DEF Op
<1> HIDE DEF w, e
<1>4. Closed(w.inst)
  BY <1>1, <1>2 DEF Closed
<1>5. UndoOK(r, runs)
  <2>1. Undo(w.inst, Append(d.cur.ops, e)) = Undo(d.inst, d.cur.ops)
    BY <1>1, <1>2, <1>3, UndoAdd
  <2> QED
    BY <1>2, <1>3, <1>4, <2>1, Operation
<1>6. /\ r.inst = d.inst \cup {i} /\ r.work = w.work /\ r.db = d.db
      /\ r.cur.ops = Append(d.cur.ops, e)
  BY ZenonT(30), <1>2, <1>3, RecordFields
<1> HIDE DEF r
<1>7. OpsTrue(r, FALSE, None)
  <2>1. ASSUME NEW k \in 1..Len(r.cur.ops)
        PROVE  (k \in 1..Len(d.cur.ops) /\ r.cur.ops[k] = d.cur.ops[k]) \/ r.cur.ops[k] = e
    BY <1>1, <1>3, <1>6, AppendOps
  <2>2. ASSUME NEW k \in 1..Len(d.cur.ops) PROVE d.cur.ops[k].op # "Del"
    BY <1>1 DEF NoDel
  <2> QED
    BY <1>3, <1>6, <2>1, <2>2 DEF SessionOK, OpsTrue
<1>8. WorkOK(r, runs, FALSE, None)
  BY <1>2, <1>6 DEF WorkOK
<1> QED
  BY <1>1, <1>2, <1>5, <1>6, <1>7, <1>8 DEF SessionOK, InTransaction, w, e, r

LEMMA AddFailsOK ==
  ASSUME NEW d, NEW runs, SessionOK(d, runs, FALSE, None), NEW i \in Instances
  PROVE  LET w == Write(d, i, Default)
         IN  SessionOK(w, runs, TRUE, None) /\ w.db = d.db
<1> DEFINE w == Write(d, i, Default)
<1>1. d \in Data /\ d.open /\ Default \in Contents
  BY DEF SessionOK, UndoOK, Contents
<1>2. w \in Data /\ w.cur = d.cur /\ w.inst = d.inst /\ w.open /\ w.db = d.db
  BY <1>1, WriteOpen
<1> HIDE DEF w
<1>3. UndoOK(w, runs)
  BY <1>2 DEF SessionOK, UndoOK, InTransaction
<1>4. OpsTrue(w, TRUE, None)
  BY <1>2 DEF SessionOK, OpsTrue
<1> QED
  BY <1>2, <1>3, <1>4 DEF SessionOK, WorkOK, w
LEMMA DelOK ==
  ASSUME NEW d, NEW runs \in Deleting, SessionOK(d, runs, FALSE, None),
         NEW i \in d.inst, NEW t \in Threads
  PROVE  LET r == Record(d, [op |-> "Del", inst |-> i, by |-> t])
         IN  InTransaction(d) /\ SessionOK(r, runs, FALSE, i) /\ r.db = d.db
<1> DEFINE e == [op |-> "Del", inst |-> i, by |-> t]
           r == Record(d, e)
<1>1. /\ d \in Data /\ InTransaction(d) /\ d.open /\ d.inst = Rows(d.work) /\ Closed(d.inst)
      /\ i \in Instances /\ d.cur.ops \in Seq(Op) /\ d.inst \in SUBSET Instances
      /\ NoAdd(d.cur.ops) /\ runs \notin Adding /\ None \notin Instances
  BY DataFields, TransactionAssumption DEF SessionOK, UndoOK, WorkOK, Adding, Deleting
<1>2. e \in Op /\ e.op = "Del" /\ e.inst = i
  BY <1>1 DEF Op
<1> HIDE DEF e
<1>3. Undo(d.inst, Append(d.cur.ops, e)) = Undo(d.inst, d.cur.ops)
  BY <1>1, <1>2, UndoDel
<1>4. UndoOK(r, runs)
  BY <1>1, <1>2, <1>3, Operation
<1>5. r.inst = d.inst /\ r.work = d.work /\ r.db = d.db /\ r.cur.ops = Append(d.cur.ops, e)
  BY <1>1, <1>2, RecordFields
<1> HIDE DEF r
<1>6. OpsTrue(r, FALSE, i)
  <2>1. ASSUME NEW k \in 1..Len(r.cur.ops)
        PROVE  (k \in 1..Len(d.cur.ops) /\ r.cur.ops[k] = d.cur.ops[k]) \/ r.cur.ops[k] = e
    BY <1>1, <1>2, <1>5, AppendOps
  <2>2. ASSUME NEW k \in 1..Len(d.cur.ops) PROVE d.cur.ops[k].inst # None
    BY <1>1, OpInst
  <2> QED
    BY <1>2, <1>5, <2>1, <2>2 DEF SessionOK, OpsTrue
<1>7. WorkOK(r, runs, FALSE, i)
  <2>1. Restored(r.cur.ops, i)
    BY <1>1, <1>2, <1>5, OneMore DEF Restores
  <2> QED
    BY <1>1, <1>5, <2>1 DEF WorkOK
<1> QED
  BY <1>1, <1>4, <1>5, <1>6, <1>7 DEF SessionOK, e, r

(* What a deletion under way knows. *)
LEMMA DeletingFacts ==
  ASSUME NEW d, NEW runs, NEW del \in Instances, SessionOK(d, runs, FALSE, del)
  PROVE  /\ d \in Data /\ InTransaction(d) /\ d.open /\ Closed(d.inst)
         /\ d.inst = Rows(d.work) \cup {del} /\ del \in d.inst
         /\ d.cur.ops \in Seq(Op) /\ d.inst \in SUBSET Instances
         /\ runs \in Deleting /\ runs \notin Adding /\ NoAdd(d.cur.ops)
         /\ Restored(d.cur.ops, del) /\ None \notin Instances /\ del # None
  BY DataFields, TransactionAssumption DEF SessionOK, UndoOK, WorkOK, Adding, Deleting

LEMMA RowsOK ==
  ASSUME NEW d, NEW runs, NEW del \in Instances, SessionOK(d, runs, FALSE, del)
  PROVE  LET w == Write(d, del, Absent)
         IN  SessionOK(w, runs, FALSE, del) /\ w.db = d.db
<1> DEFINE w == Write(d, del, Absent)
<1>1. d \in Data /\ d.open /\ d.inst = Rows(d.work) \cup {del} /\ Absent \in Contents
  BY DeletingFacts DEF Contents
<1>2. /\ w \in Data /\ w.cur = d.cur /\ w.inst = d.inst /\ w.open /\ w.db = d.db
      /\ Rows(w.work) = Rows(d.work) \ {del}
  <2>1. d \in Data /\ d.open /\ Absent \in Contents
    BY <1>1
  <2> QED
    BY <2>1, WriteOpen
<1> HIDE DEF w
<1>3. UndoOK(w, runs)
  BY <1>2 DEF SessionOK, UndoOK, InTransaction
<1>4. OpsTrue(w, FALSE, del)
  BY <1>2 DEF SessionOK, OpsTrue
<1>5. w.inst = Rows(w.work) \cup {del}
  BY <1>1, <1>2
<1>6. WorkOK(w, runs, FALSE, del)
  BY <1>2, <1>5, DeletingFacts DEF WorkOK
<1> QED
  BY <1>2, <1>3, <1>4, <1>6 DEF SessionOK, w

(* A nested instance goes: nothing is nested in it. *)
LEMMA ChildOK ==
  ASSUME NEW d, NEW runs, NEW del \in Instances, SessionOK(d, runs, FALSE, del),
         NEW c \in d.inst, Parent[c] = del, NEW t \in Threads
  PROVE  LET w == [Write(d, c, Absent) EXCEPT !.inst = @ \ {c}]
             r == Record(w, [op |-> "Del", inst |-> c, by |-> t])
         IN  InTransaction(w) /\ SessionOK(r, runs, FALSE, del) /\ r.db = d.db
<1> DEFINE w == [Write(d, c, Absent) EXCEPT !.inst = @ \ {c}]
           e == [op |-> "Del", inst |-> c, by |-> t]
           r == Record(w, e)
<1>1. /\ d \in Data /\ InTransaction(d) /\ d.open /\ Closed(d.inst)
      /\ d.inst = Rows(d.work) \cup {del} /\ del \in d.inst
      /\ d.cur.ops \in Seq(Op) /\ d.inst \in SUBSET Instances
      /\ runs \in Deleting /\ runs \notin Adding /\ NoAdd(d.cur.ops)
      /\ Restored(d.cur.ops, del) /\ None \notin Instances /\ del # None
  BY DeletingFacts
<1>2. c \in Instances /\ Absent \in Contents
  BY <1>1 DEF Contents
<1>3. c # del /\ \A j \in Instances : Parent[j] # c
  BY <1>1, <1>2, TransactionAssumption
<1>4. /\ w \in Data /\ w.cur = d.cur /\ w.open /\ w.db = d.db /\ w.inst = d.inst \ {c}
      /\ Rows(w.work) = Rows(d.work) \ {c}
  <2> DEFINE S == Write(d, c, Absent).inst \ {c}
  <2>1. S = d.inst \ {c} /\ S \in SUBSET Instances
    BY <1>1, <1>2, WriteOpen
  <2>2. w = Changed(d, c, Absent, S)
    BY DEF Changed
  <2> HIDE DEF w, S
  <2>3. /\ w \in Data /\ w.cur = d.cur /\ w.inst = S /\ w.open /\ w.db = d.db
        /\ Rows(w.work) = Rows(d.work) \ {c}
    <3>1. d \in Data /\ d.open /\ S \in SUBSET Instances
      BY <1>1, <2>1
    <3> QED
      BY <1>2, <2>2, <3>1, Written
  <2> QED
    BY <2>1, <2>3
<1>5. e \in Op /\ e.op = "Del" /\ e.inst = c
  BY <1>2 DEF Op
<1> HIDE DEF w, e
<1>6. Closed(w.inst)
  BY <1>1, <1>3, <1>4 DEF Closed
<1>7. UndoOK(r, runs)
  <2>1. Undo(w.inst, Append(d.cur.ops, e)) = Undo(d.inst, d.cur.ops)
    BY <1>1, <1>4, <1>5, UndoDel
  <2>2. /\ r \in Data /\ r.inst = w.inst /\ r.open /\ r.db = d.db /\ r.cur.owner = d.cur.owner
        /\ r.cur.ops = Append(d.cur.ops, e)
    BY <1>4, <1>5, RecordFields
  <2> HIDE DEF r
  <2>3. NoAdd(r.cur.ops)
    BY <1>1, <1>5, <2>2, OneMore
  <2> QED
    BY <1>1, <1>6, <2>1, <2>2, <2>3, <1>4 DEF SessionOK, UndoOK, InTransaction
<1>8. r.inst = d.inst \ {c} /\ r.work = w.work /\ r.db = d.db /\ r.cur.ops = Append(d.cur.ops, e)
  BY <1>4, <1>5, RecordFields
<1> HIDE DEF r
<1>9. OpsTrue(r, FALSE, del)
  <2>1. ASSUME NEW k \in 1..Len(r.cur.ops)
        PROVE  (k \in 1..Len(d.cur.ops) /\ r.cur.ops[k] = d.cur.ops[k]) \/ r.cur.ops[k] = e
    BY <1>1, <1>5, <1>8, AppendOps
  <2>2. ASSUME NEW k \in 1..Len(d.cur.ops) PROVE d.cur.ops[k].op # "Add"
    BY <1>1 DEF NoAdd
  <2> QED
    BY <1>5, <1>8, <2>1, <2>2 DEF SessionOK, OpsTrue
<1>10. WorkOK(r, runs, FALSE, del)
  <2>1. Restored(r.cur.ops, del)
    BY <1>1, <1>5, <1>8, OneMore
  <2>2. r.inst = Rows(r.work) \cup {del} /\ del \in r.inst
    BY <1>1, <1>3, <1>4, <1>8
  <2> QED
    BY <1>1, <2>1, <2>2 DEF WorkOK
<1> QED
  BY <1>1, <1>4, <1>7, <1>8, <1>9, <1>10 DEF SessionOK, InTransaction, w, e, r

LEMMA EndsOK ==
  ASSUME NEW d, NEW runs, NEW del \in Instances, SessionOK(d, runs, FALSE, del),
         d.work[del] = Absent, Children(del) \cap d.inst = {}
  PROVE  LET w == [d EXCEPT !.inst = @ \ ({del} \cup Children(del))]
         IN  SessionOK(w, runs, FALSE, None) /\ w.db = d.db
<1> DEFINE w == [d EXCEPT !.inst = @ \ ({del} \cup Children(del))]
<1>1. /\ d \in Data /\ InTransaction(d) /\ d.open /\ Closed(d.inst)
      /\ d.inst = Rows(d.work) \cup {del} /\ del \in d.inst
      /\ d.cur.ops \in Seq(Op) /\ d.inst \in SUBSET Instances
      /\ runs \in Deleting /\ runs \notin Adding /\ NoAdd(d.cur.ops)
      /\ Restored(d.cur.ops, del) /\ None \notin Instances /\ del # None
  BY DeletingFacts
<1>2. \A j \in d.inst : Parent[j] # del
  BY <1>1 DEF Children
<1>3. /\ w \in Data /\ w.cur = d.cur /\ w.open = d.open /\ w.db = d.db /\ w.work = d.work
      /\ w.inst = d.inst \ {del}
  <2>1. d.inst \ ({del} \cup Children(del)) = d.inst \ {del}
    OBVIOUS
  <2> QED
    BY <1>1, <2>1 DEF Data
<1> HIDE DEF w
<1>4. Closed(w.inst)
  BY <1>1, <1>2, <1>3 DEF Closed
<1>5. Undo(w.inst, w.cur.ops) = Undo(d.inst, d.cur.ops)
  BY <1>1, <1>3, UndoTaken
<1>6. UndoOK(w, runs)
  BY <1>1, <1>3, <1>4, <1>5 DEF SessionOK, UndoOK, InTransaction
<1>7. OpsTrue(w, FALSE, None)
  <2>1. ASSUME NEW k \in 1..Len(d.cur.ops) PROVE d.cur.ops[k].op # "Add"
    BY <1>1 DEF NoAdd
  <2> QED
    BY <1>3, <2>1 DEF SessionOK, OpsTrue
<1>8. w.inst = Rows(w.work)
  BY <1>1, <1>3 DEF Rows
<1> QED
  BY <1>3, <1>6, <1>7, <1>8 DEF SessionOK, WorkOK, w
-----------------------------------------------------------------------------
(* The beginning and the two ends of a transaction. *)

LEMMA StartOK ==
  ASSUME NEW d, IdleOK(d), NEW t \in Threads, NEW runs
  PROVE  LET s == Start(d, t, TRUE) IN SessionOK(s, runs, FALSE, None) /\ s.db = d.db
<1> DEFINE s == Start(d, t, TRUE)
<1>1. d \in Data /\ d.cur = NullTransaction /\ ~InTransaction(d) /\ t # Nobody
  BY TransactionAssumption DEF IdleOK, InTransaction, NullTransaction
<1>2. /\ s.inst = d.inst /\ s.db = d.db /\ s.work = d.work /\ s.open
      /\ s.cur = [owner |-> t, ops |-> <<>>]
      /\ s = [cur |-> s.cur, inst |-> s.inst, db |-> s.db, work |-> s.work, open |-> s.open]
  BY <1>1 DEF Start, Data
<1> HIDE DEF s
<1>3. s \in Data
  <2>1. s.cur \in [owner: Threads \cup {Nobody}, ops: Seq(Op)]
    BY <1>2, NoneYet
  <2> QED
    BY <1>1, <1>2, <2>1, DataFields DEF Data
<1>4. s.cur.ops = <<>> /\ InTransaction(s)
  BY <1>1, <1>2 DEF InTransaction
<1>5. Undo(s.inst, s.cur.ops) = Rows(s.db)
  BY <1>1, <1>2, <1>4, NoneYet, DataFields DEF IdleOK
<1>6. UndoOK(s, runs)
  BY <1>2, <1>3, <1>4, <1>5, NoneYet DEF UndoOK, IdleOK
<1>7. OpsTrue(s, FALSE, None) /\ WorkOK(s, runs, FALSE, None)
  BY <1>2, <1>4 DEF OpsTrue, WorkOK, IdleOK
<1> QED
  BY <1>2, <1>6, <1>7 DEF SessionOK, s

LEMMA AbortOK ==
  ASSUME NEW d, NEW runs, UndoOK(d, runs)
  PROVE  IdleOK(Abort(d)) /\ Abort(d).db = d.db
<1> DEFINE a == Abort(d)
<1>1. /\ a.inst = Undo(d.inst, d.cur.ops) /\ a.db = d.db /\ a.work = d.db /\ ~a.open
      /\ a.cur = NullTransaction
      /\ a = [cur |-> a.cur, inst |-> a.inst, db |-> a.db, work |-> a.work, open |-> a.open]
  BY DEF Abort, UndoOK, Data
<1> HIDE DEF a
<1>2. a \in Data
  <2>1. a.cur \in [owner: Threads \cup {Nobody}, ops: Seq(Op)]
    BY <1>1, NoneYet DEF NullTransaction
  <2>2. a.inst \in SUBSET Instances /\ a.open = FALSE
    BY <1>1 DEF Undo, UndoOK, Rows, Abort, a
  <2>3. d.db \in [Instances -> Contents]
    BY DataFields DEF UndoOK
  <2> QED
    BY <1>1, <2>1, <2>2, <2>3 DEF Data
<1> QED
  BY <1>1, <1>2 DEF IdleOK, UndoOK, a

(* A commit: what SQLite sees becomes the database.  Every recorded        *)
(* addition is then in it, and every recorded deletion is not.             *)
LEMMA CommitOK ==
  ASSUME NEW d, NEW runs, SessionOK(d, runs, FALSE, None), NEW t \in Threads
  PROVE  LET done == Commit(d, t, TRUE, TRUE)
         IN  /\ d.cur.ops = <<>> => IdleOK(done)
             /\ d.cur.ops # <<>> => SessionOK(done, "Cascade", FALSE, None)
             /\ \A k \in 1..Len(d.cur.ops) :
                   /\ d.cur.ops[k].op = "Add" => d.cur.ops[k].inst \in Rows(done.db)
                   /\ d.cur.ops[k].op = "Del" => d.cur.ops[k].inst \notin Rows(done.db)
<1> DEFINE n == [d EXCEPT !.cur = NullTransaction, !.db = d.work, !.open = FALSE]
           done == Commit(d, t, TRUE, TRUE)
<1>1. /\ d \in Data /\ d.open /\ d.inst = Rows(d.work) /\ Closed(d.inst) /\ None \notin Instances
      /\ d.cur.ops \in Seq(Op)
  BY DataFields, TransactionAssumption DEF SessionOK, UndoOK, WorkOK
<1>2. /\ n.inst = d.inst /\ n.db = d.work /\ n.work = d.work /\ ~n.open
      /\ n.cur = NullTransaction
      /\ n = [cur |-> n.cur, inst |-> n.inst, db |-> n.db, work |-> n.work, open |-> n.open]
  <2>1. d \in Data
    BY <1>1
  <2>2. /\ d = [cur |-> d.cur, inst |-> d.inst, db |-> d.db, work |-> d.work, open |-> d.open]
    BY <2>1 DEF Data
  <2> DEFINE N == NullTransaction
             B == d.work
             O == FALSE
  <2>3. n = [d EXCEPT !.cur = N, !.db = B, !.open = O]
    OBVIOUS
  <2> HIDE DEF n, N, B, O
  <2>4. /\ n.inst = d.inst /\ n.db = B /\ n.work = d.work /\ n.open = O /\ n.cur = N
        /\ n = [cur |-> n.cur, inst |-> n.inst, db |-> n.db, work |-> n.work, open |-> n.open]
    BY <2>2, <2>3
  <2> QED
    BY <2>4 DEF N, B, O
<1>3. done = IF d.cur.ops = <<>> THEN n ELSE Start(n, t, TRUE)
  BY <1>1 DEF Commit, DbCommits
<1> HIDE DEF n, done
<1>4. n \in Data
  <2>1. n.cur \in [owner: Threads \cup {Nobody}, ops: Seq(Op)]
    BY <1>2, NoneYet DEF NullTransaction
  <2>2. n.open \in BOOLEAN
    BY <1>1 DEF n, Data
  <2> QED
    BY <1>1, <1>2, <2>1, <2>2, DataFields DEF Data
<1>5. IdleOK(n)
  BY <1>1, <1>2, <1>4 DEF IdleOK
<1>6. done.db = d.work
  BY <1>2, <1>3, <1>5, StartOK
<1>7. ASSUME NEW k \in 1..Len(d.cur.ops)
      PROVE  /\ d.cur.ops[k].op = "Add" => d.cur.ops[k].inst \in Rows(done.db)
             /\ d.cur.ops[k].op = "Del" => d.cur.ops[k].inst \notin Rows(done.db)
  <2>1. d.cur.ops[k].inst # None
    BY <1>1, OpInst
  <2> QED
    BY <1>1, <1>6, <2>1 DEF SessionOK, OpsTrue
<1>8. /\ d.cur.ops = <<>> => IdleOK(done)
      /\ d.cur.ops # <<>> => SessionOK(done, "Cascade", FALSE, None)
  BY <1>3, <1>5, StartOK
<1> QED
  BY <1>7, <1>8 DEF done
-----------------------------------------------------------------------------
(* Steps of a thread within its session. *)

(* What such a step owes the invariant. *)
LEMMA InSession ==
  ASSUME IInv, NEW t \in Threads, phase[t] # "idle", SessionUnchanged,
         data' \in Data, data'.db = data.db,
         SessionOK(data, Runs(t), Hurt(t), deleting[t])
           => SessionOK(data', Runs(t), Hurt(t)', deleting'[t]),
         \A s \in Threads \ {t} : failed'[s] = failed[s] /\ deleting'[s] = deleting[s],
         failed' \in [Threads -> BOOLEAN], deleting' \in [Threads -> Instances \cup {None}],
         left' \in [Threads -> Nat], alive',
         phase[t] = "body" /\ kind[t] = "UpdateStatus" => ~failed'[t]
  PROVE  IInv'
<1>1. UNCHANGED <<phase, kind, notify, before>>
  BY DEF SessionUnchanged
<1>2. TypeOK' /\ alive'
  <2>1. alive' \in BOOLEAN
    BY DEF IInv, TypeOK
  <2> QED
    BY <1>1, <2>1 DEF IInv, TypeOK
<1>3. NotifiedIsTrue'
  BY <1>1 DEF IInv, NotifiedIsTrue
<1>4. \A s, r \in Threads : phase'[s] # "idle" /\ phase'[r] # "idle" => s = r
  BY <1>1 DEF IInv
<1>5. ~(\A s \in Threads : phase'[s] = "idle")
  BY <1>1
<1>6. ASSUME NEW s \in Threads
      PROVE  /\ phase'[s] = "idle" => deleting'[s] = None
             /\ phase'[s] # "notify" => notify'[s] = <<>>
             /\ phase'[s] # "idle" => SessionOK(data', Runs(s)', Hurt(s)', deleting'[s])
             /\ phase'[s] = "body" => before'[s] = data'.db
             /\ phase'[s] = "body" /\ kind'[s] = "UpdateStatus" => ~failed'[s]
  <2>1. CASE s = t
    <3>1. Runs(t)' = Runs(t)
      BY <1>1 DEF Runs
    <3> QED
      BY <1>1, <2>1, <3>1 DEF IInv
  <2>2. CASE s # t
    <3>1. phase[s] = "idle"
      BY <2>2 DEF IInv
    <3> QED
      BY <1>1, <2>2, <3>1 DEF IInv
  <2> QED
    BY <2>1, <2>2
<1> QED
  BY <1>2, <1>3, <1>4, <1>5, <1>6 DEF IInv

LEMMA SpendOK ==
  ASSUME TypeOK, NEW t \in Threads, Spend(t)
  PROVE  left' \in [Threads -> Nat]
  BY DEF TypeOK, Spend

(* Before an operation nothing is being deleted and nothing needs undoing. *)
LEMMA BeforeOperation ==
  ASSUME IInv, NEW t \in Threads, CanOperate(t)
  PROVE  /\ phase[t] # "idle" /\ deleting[t] = None /\ ~Hurt(t)
         /\ SessionOK(data, Runs(t), FALSE, None)
         /\ data \in Data /\ data.inst \in SUBSET Instances
<1>1. phase[t] # "idle" /\ deleting[t] = None /\ ~Hurt(t)
  BY DEF CanOperate, Hurt, Runs, Aborting
<1>2. SessionOK(data, Runs(t), Hurt(t), None)
  BY <1>1 DEF IInv
<1>3. SessionOK(data, Runs(t), FALSE, None)
  BY <1>1, <1>2 DEF SessionOK, OpsTrue, WorkOK
<1>4. data \in Data
  BY DEF IInv, TypeOK
<1> QED
  BY <1>1, <1>3, <1>4, DataFields

(* An operation that succeeds. *)
LEMMA Succeeds ==
  ASSUME IInv, NEW t \in Threads, phase[t] # "idle", ~Hurt(t), SessionUnchanged,
         SessionOK(data', Runs(t), FALSE, deleting'[t]), data'.db = data.db,
         failed' = failed, \A s \in Threads \ {t} : deleting'[s] = deleting[s],
         deleting' \in [Threads -> Instances \cup {None}],
         left' \in [Threads -> Nat], alive'
  PROVE  IInv'
<1>1. ~Hurt(t)'
  BY DEF SessionUnchanged, Hurt
<1>2. SessionOK(data', Runs(t), Hurt(t)', deleting'[t])
  BY <1>1 DEF SessionOK, OpsTrue, WorkOK
<1>3. data' \in Data
  BY <1>2 DEF SessionOK, UndoOK
<1>4. failed' \in [Threads -> BOOLEAN]
  BY DEF IInv, TypeOK
<1>5. phase[t] = "body" /\ kind[t] = "UpdateStatus" => ~failed'[t]
  BY DEF IInv
<1> QED
  BY <1>2, <1>3, <1>4, <1>5, InSession

(* An operation that fails in a caller that will abort. *)
LEMMA Fails ==
  ASSUME IInv, NEW t \in Threads, phase[t] # "idle", SessionUnchanged, Error(t),
         SessionOK(data', Runs(t), TRUE, None), data'.db = data.db,
         Hurt(t)' \/ SessionOK(data', Runs(t), FALSE, None),
         deleting' = [deleting EXCEPT ![t] = None],
         left' \in [Threads -> Nat], alive',
         phase[t] = "body" => kind[t] # "UpdateStatus"
  PROVE  IInv'
<1>1. deleting' \in [Threads -> Instances \cup {None}] /\ deleting'[t] = None
      /\ \A s \in Threads \ {t} : deleting'[s] = deleting[s]
  BY DEF IInv, TypeOK
<1>2. failed' \in [Threads -> BOOLEAN] /\ \A s \in Threads \ {t} : failed'[s] = failed[s]
  BY DEF IInv, TypeOK, Error
<1>3. SessionOK(data', Runs(t), Hurt(t)', None)
  BY DEF SessionOK, OpsTrue, WorkOK
<1>4. data' \in Data
  BY <1>3 DEF SessionOK, UndoOK
<1> QED
  BY <1>1, <1>2, <1>3, <1>4, InSession

(* In a disciplined run only callers that abort meet a failed write. *)
LEMMA FaultAborts ==
  ASSUME Disciplined, IInv, NEW t \in Threads, phase[t] # "idle", MayFail(t), Error(t), SessionUnchanged
  PROVE  phase[t] = "body" /\ kind[t] \in Aborting /\ Hurt(t)'
<1>1. Runs(t) \in Kinds \cup {"Cascade"} /\ Runs(t) \notin Careless
  BY TransactionAssumption DEF Disciplined, MayFail
<1>2. phase[t] = "body" /\ kind[t] \in Aborting
  <2>1. phase[t] \in {"body", "notify"}
    BY DEF IInv, TypeOK
  <2> QED
    BY <1>1, <2>1 DEF Runs, Careless, Kinds
<1>3. failed'[t]
  BY <1>2 DEF IInv, TypeOK, Error
<1> QED
  BY <1>2, <1>3 DEF Hurt, SessionUnchanged
-----------------------------------------------------------------------------
(* Each action of a session preserves the invariant. *)

LEMMA StartsInv ==
  ASSUME Disciplined, IInv, NEW t \in Threads, NEW k \in Kinds, NEW ok \in BeginOutcomes,
         SessionStarts(t, k, ok)
  PROVE  IInv'
<1>1. ok = TRUE /\ \A s \in Threads : phase[s] = "idle"
  BY DEF Disciplined, BeginOutcomes, SessionStarts
<1>2. IdleOK(data)
  BY <1>1 DEF IInv
<1>3. Started(data, ok)
  BY <1>1, <1>2 DEF Started, IdleOK
<1>4. /\ data' = Start(data, t, TRUE)
      /\ phase' = [phase EXCEPT ![t] = "body"] /\ kind' = [kind EXCEPT ![t] = k]
      /\ failed' = [failed EXCEPT ![t] = FALSE] /\ left' = [left EXCEPT ![t] = MaxOps]
      /\ before' = [before EXCEPT ![t] = data.db] /\ UNCHANGED <<deleting, notify, alive>>
  BY <1>1, <1>3 DEF SessionStarts
<1>5. SessionOK(data', k, FALSE, None) /\ data'.db = data.db
  BY <1>2, <1>4, StartOK
<1>6. data' \in Data /\ data.db \in [Instances -> Contents]
  BY <1>2, <1>5, DataFields DEF SessionOK, UndoOK, IdleOK
<1>7. TypeOK' /\ alive'
  BY <1>4, <1>6, TransactionAssumption DEF IInv, TypeOK
<1>8. /\ phase'[t] = "body" /\ kind'[t] = k /\ ~failed'[t] /\ before'[t] = data.db
      /\ deleting'[t] = None /\ notify'[t] = <<>>
      /\ \A s \in Threads \ {t} : phase'[s] = "idle" /\ deleting'[s] = None /\ notify'[s] = <<>>
  BY <1>1, <1>4 DEF IInv, TypeOK
<1>9. SessionOK(data', Runs(t)', Hurt(t)', deleting'[t])
  BY <1>5, <1>8 DEF Runs, Hurt, SessionOK, OpsTrue, WorkOK
<1>10. NotifiedIsTrue'
  BY <1>8 DEF NotifiedIsTrue
<1> QED
  BY <1>5, <1>7, <1>8, <1>9, <1>10 DEF IInv

LEMMA RejectedInv ==
  ASSUME IInv, NEW t \in Threads, Rejected(t)
  PROVE  IInv'
<1>1. CanOperate(t) /\ Error(t) /\ Spend(t) /\ SessionUnchanged /\ UNCHANGED <<data, deleting, alive>>
      /\ Runs(t) # "UpdateStatus"
  BY DEF Rejected
<1>2. /\ phase[t] # "idle" /\ deleting[t] = None /\ SessionOK(data, Runs(t), FALSE, None)
  BY <1>1, BeforeOperation
<1>3. deleting' = [deleting EXCEPT ![t] = None]
  BY <1>1, <1>2 DEF IInv, TypeOK
<1>4. SessionOK(data', Runs(t), TRUE, None) /\ SessionOK(data', Runs(t), FALSE, None)
  BY <1>1, <1>2 DEF SessionOK, OpsTrue, WorkOK
<1>5. left' \in [Threads -> Nat] /\ alive' /\ data'.db = data.db
  BY <1>1, SpendOK DEF IInv
<1>6. phase[t] = "body" => kind[t] # "UpdateStatus"
  BY <1>1 DEF Runs
<1> QED
  BY <1>1, <1>2, <1>3, <1>4, <1>5, <1>6, Fails

LEMMA SetInv ==
  ASSUME IInv, NEW t \in Threads, NEW i \in Instances, NEW v \in Values, SetParameterValue(t, i, v)
  PROVE  IInv'
<1> DEFINE w == [Write(data, i, v) EXCEPT !.inst = @ \cup {i}]
           r == Record(w, [op |-> "Set", inst |-> i, by |-> t])
<1>1. /\ CanOperate(t) /\ Spend(t) /\ SessionUnchanged /\ i \in data.inst
      /\ UNCHANGED <<failed, deleting>> /\ Recorded(t, w, "Set", i)
  BY DEF SetParameterValue
<1>2. phase[t] # "idle" /\ deleting[t] = None /\ ~Hurt(t) /\ SessionOK(data, Runs(t), FALSE, None)
  BY <1>1, BeforeOperation
<1>3. InTransaction(w) /\ SessionOK(r, Runs(t), FALSE, None) /\ r.db = data.db
  BY <1>1, <1>2, SetOK
<1>4. data' = r /\ alive'
  BY <1>1, <1>3 DEF Recorded
<1> HIDE DEF r, w
<1>5. SessionOK(data', Runs(t), FALSE, deleting'[t]) /\ data'.db = data.db
  BY <1>1, <1>2, <1>3, <1>4
<1>6. left' \in [Threads -> Nat] /\ deleting' \in [Threads -> Instances \cup {None}]
  BY <1>1, SpendOK DEF IInv, TypeOK
<1> QED
  BY <1>1, <1>2, <1>4, <1>5, <1>6, Succeeds

LEMMA AddInv ==
  ASSUME IInv, NEW t \in Threads, NEW i \in Instances, AddInstance(t, i)
  PROVE  IInv'
<1> DEFINE w == [Write(data, i, Default) EXCEPT !.inst = @ \cup {i}]
           r == Record(w, [op |-> "Add", inst |-> i, by |-> t])
<1>1. /\ CanOperate(t) /\ Spend(t) /\ SessionUnchanged /\ i \notin data.inst
      /\ Runs(t) \in Adding /\ Parent[i] \in data.inst \cup {None}
      /\ UNCHANGED <<failed, deleting>> /\ Recorded(t, w, "Add", i)
  BY DEF AddInstance, CanAdd
<1>2. phase[t] # "idle" /\ deleting[t] = None /\ ~Hurt(t) /\ SessionOK(data, Runs(t), FALSE, None)
  BY <1>1, BeforeOperation
<1>3. InTransaction(w) /\ SessionOK(r, Runs(t), FALSE, None) /\ r.db = data.db
  BY <1>1, <1>2, AddOK
<1>4. data' = r /\ alive'
  BY <1>1, <1>3 DEF Recorded
<1> HIDE DEF r, w
<1>5. SessionOK(data', Runs(t), FALSE, deleting'[t]) /\ data'.db = data.db
  BY <1>1, <1>2, <1>3, <1>4
<1>6. left' \in [Threads -> Nat] /\ deleting' \in [Threads -> Instances \cup {None}]
  BY <1>1, SpendOK DEF IInv, TypeOK
<1> QED
  BY <1>1, <1>2, <1>4, <1>5, <1>6, Succeeds

LEMMA DeleteInv ==
  ASSUME IInv, NEW t \in Threads, NEW i \in Instances, DeleteInstance(t, i)
  PROVE  IInv'
<1> DEFINE r == Record(data, [op |-> "Del", inst |-> i, by |-> t])
<1>1. /\ CanOperate(t) /\ Spend(t) /\ SessionUnchanged /\ i \in data.inst
      /\ Runs(t) \in Deleting /\ UNCHANGED failed /\ Recorded(t, data, "Del", i)
      /\ deleting' = [deleting EXCEPT ![t] = i]
  BY DEF DeleteInstance
<1>2. phase[t] # "idle" /\ ~Hurt(t) /\ SessionOK(data, Runs(t), FALSE, None)
  BY <1>1, BeforeOperation
<1>3. InTransaction(data) /\ SessionOK(r, Runs(t), FALSE, i) /\ r.db = data.db
  BY <1>1, <1>2, DelOK
<1>4. data' = r /\ alive'
  BY <1>1, <1>3 DEF Recorded
<1> HIDE DEF r
<1>5. /\ deleting' \in [Threads -> Instances \cup {None}] /\ deleting'[t] = i
      /\ \A s \in Threads \ {t} : deleting'[s] = deleting[s]
  BY <1>1 DEF IInv, TypeOK
<1>6. SessionOK(data', Runs(t), FALSE, deleting'[t]) /\ data'.db = data.db
  BY <1>3, <1>4, <1>5
<1>7. left' \in [Threads -> Nat]
  BY <1>1, SpendOK DEF IInv
<1> QED
  BY <1>1, <1>2, <1>4, <1>5, <1>6, <1>7, Succeeds

LEMMA SetFailsInv ==
  ASSUME Disciplined, IInv, NEW t \in Threads, SetFails(t)
  PROVE  IInv'
<1>1. CanOperate(t) /\ Error(t) /\ Spend(t) /\ SessionUnchanged /\ MayFail(t)
      /\ UNCHANGED <<data, deleting, alive>>
  BY DEF SetFails
<1>2. /\ phase[t] # "idle" /\ deleting[t] = None /\ SessionOK(data, Runs(t), FALSE, None)
  BY <1>1, BeforeOperation
<1>3. deleting' = [deleting EXCEPT ![t] = None]
  BY <1>1, <1>2 DEF IInv, TypeOK
<1>4. SessionOK(data', Runs(t), TRUE, None)
  BY <1>1, <1>2 DEF SessionOK, OpsTrue, WorkOK
<1>5. left' \in [Threads -> Nat] /\ alive' /\ data'.db = data.db
  BY <1>1, SpendOK DEF IInv
<1>6. Hurt(t)' /\ kind[t] # "UpdateStatus"
  BY <1>1, <1>2, FaultAborts DEF Aborting
<1> QED
  BY <1>1, <1>2, <1>3, <1>4, <1>5, <1>6, Fails

LEMMA AddFailsInv ==
  ASSUME Disciplined, IInv, NEW t \in Threads, NEW i \in Instances, AddFails(t, i)
  PROVE  IInv'
<1>1. CanOperate(t) /\ Error(t) /\ Spend(t) /\ SessionUnchanged /\ MayFail(t)
      /\ UNCHANGED <<deleting, alive>> /\ data' \in {data, Write(data, i, Default)}
  BY DEF AddFails, CanAdd
<1>2. /\ phase[t] # "idle" /\ deleting[t] = None /\ SessionOK(data, Runs(t), FALSE, None)
  BY <1>1, BeforeOperation
<1>3. deleting' = [deleting EXCEPT ![t] = None]
  BY <1>1, <1>2 DEF IInv, TypeOK
<1>4. SessionOK(data, Runs(t), TRUE, None)
  BY <1>2 DEF SessionOK, OpsTrue, WorkOK
<1>5. SessionOK(data', Runs(t), TRUE, None) /\ data'.db = data.db
  BY <1>1, <1>2, <1>4, AddFailsOK
<1>6. left' \in [Threads -> Nat] /\ alive'
  BY <1>1, SpendOK DEF IInv
<1>7. Hurt(t)' /\ kind[t] # "UpdateStatus"
  BY <1>1, <1>2, FaultAborts DEF Aborting
<1> QED
  BY <1>1, <1>2, <1>3, <1>5, <1>6, <1>7, Fails

(* In a deletion: it is under way and has not failed. *)
LEMMA InDeletion ==
  ASSUME IInv, NEW t \in Threads, DeleteStep(t)
  PROVE  /\ phase[t] # "idle" /\ ~Hurt(t) /\ deleting[t] \in Instances /\ SessionUnchanged
         /\ SessionOK(data, Runs(t), FALSE, deleting[t])
         /\ left' \in [Threads -> Nat] /\ data \in Data
<1>1. deleting[t] # None /\ SessionUnchanged /\ UNCHANGED left
  BY DEF DeleteStep, InDelete
<1>2. phase[t] # "idle" /\ deleting[t] \in Instances /\ left' \in [Threads -> Nat] /\ data \in Data
  BY <1>1 DEF IInv, TypeOK
<1>3. SessionOK(data, Runs(t), Hurt(t), deleting[t])
  BY <1>2 DEF IInv
<1>4. ~Hurt(t)
  BY <1>1, <1>3 DEF SessionOK, WorkOK
<1>5. SessionOK(data, Runs(t), FALSE, deleting[t])
  BY <1>3, <1>4 DEF SessionOK, OpsTrue, WorkOK
<1> QED
  BY <1>1, <1>2, <1>4, <1>5

LEMMA DeleteRowsInv ==
  ASSUME IInv, NEW t \in Threads, DeleteRows(t)
  PROVE  IInv'
<1>1. /\ DeleteStep(t) /\ data' = Write(data, deleting[t], Absent)
      /\ UNCHANGED <<failed, deleting, alive>>
  BY DEF DeleteRows
<1>2. /\ phase[t] # "idle" /\ ~Hurt(t) /\ deleting[t] \in Instances /\ SessionUnchanged
      /\ SessionOK(data, Runs(t), FALSE, deleting[t]) /\ left' \in [Threads -> Nat]
  BY <1>1, InDeletion
<1>3. SessionOK(data', Runs(t), FALSE, deleting'[t]) /\ data'.db = data.db
  BY <1>1, <1>2, RowsOK
<1>4. deleting' \in [Threads -> Instances \cup {None}] /\ alive'
  BY <1>1 DEF IInv, TypeOK
<1> QED
  BY <1>1, <1>2, <1>3, <1>4, Succeeds

LEMMA DeleteChildInv ==
  ASSUME IInv, NEW t \in Threads, NEW c \in Instances, DeleteChild(t, c)
  PROVE  IInv'
<1> DEFINE w == [Write(data, c, Absent) EXCEPT !.inst = @ \ {c}]
           r == Record(w, [op |-> "Del", inst |-> c, by |-> t])
<1>1. /\ DeleteStep(t) /\ Parent[c] = deleting[t] /\ c \in data.inst
      /\ Recorded(t, w, "Del", c) /\ UNCHANGED <<failed, deleting>>
  BY DEF DeleteChild
<1>2. /\ phase[t] # "idle" /\ ~Hurt(t) /\ deleting[t] \in Instances /\ SessionUnchanged
      /\ SessionOK(data, Runs(t), FALSE, deleting[t]) /\ left' \in [Threads -> Nat]
  BY <1>1, InDeletion
<1>3. InTransaction(w) /\ SessionOK(r, Runs(t), FALSE, deleting[t]) /\ r.db = data.db
  BY <1>1, <1>2, ChildOK
<1>4. data' = r /\ alive'
  BY <1>1, <1>3 DEF Recorded
<1> HIDE DEF r, w
<1>5. SessionOK(data', Runs(t), FALSE, deleting'[t]) /\ data'.db = data.db
  BY <1>1, <1>3, <1>4
<1>6. deleting' \in [Threads -> Instances \cup {None}]
  BY <1>1 DEF IInv, TypeOK
<1> QED
  BY <1>1, <1>2, <1>4, <1>5, <1>6, Succeeds

LEMMA DeleteEndsInv ==
  ASSUME IInv, NEW t \in Threads, DeleteEnds(t)
  PROVE  IInv'
<1> DEFINE w == [data EXCEPT !.inst = @ \ ({deleting[t]} \cup Children(deleting[t]))]
<1>1. /\ DeleteStep(t) /\ data.work[deleting[t]] = Absent
      /\ Children(deleting[t]) \cap data.inst = {} /\ data' = w
      /\ deleting' = [deleting EXCEPT ![t] = None] /\ UNCHANGED <<failed, alive>>
  BY DEF DeleteEnds
<1>2. /\ phase[t] # "idle" /\ ~Hurt(t) /\ deleting[t] \in Instances /\ SessionUnchanged
      /\ SessionOK(data, Runs(t), FALSE, deleting[t]) /\ left' \in [Threads -> Nat]
  BY <1>1, InDeletion
<1>3. SessionOK(w, Runs(t), FALSE, None) /\ w.db = data.db
  BY <1>1, <1>2, EndsOK
<1> HIDE DEF w
<1>4. /\ deleting' \in [Threads -> Instances \cup {None}] /\ deleting'[t] = None
      /\ \A s \in Threads \ {t} : deleting'[s] = deleting[s]
      /\ alive'
  BY <1>1 DEF IInv, TypeOK
<1>5. SessionOK(data', Runs(t), FALSE, deleting'[t]) /\ data'.db = data.db
  BY <1>1, <1>3, <1>4
<1> QED
  BY <1>1, <1>2, <1>4, <1>5, Succeeds

LEMMA DeleteFailsInv ==
  ASSUME Disciplined, IInv, NEW t \in Threads, DeleteFails(t)
  PROVE  IInv'
<1>1. /\ DeleteStep(t) /\ MayFail(t) /\ Error(t)
      /\ deleting' = [deleting EXCEPT ![t] = None] /\ UNCHANGED <<data, alive>>
  BY DEF DeleteFails
<1>2. /\ phase[t] # "idle" /\ SessionUnchanged
      /\ SessionOK(data, Runs(t), FALSE, deleting[t]) /\ left' \in [Threads -> Nat]
  BY <1>1, InDeletion
<1>3. SessionOK(data', Runs(t), TRUE, None) /\ data'.db = data.db
  BY <1>1, <1>2 DEF SessionOK, OpsTrue, WorkOK
<1>4. Hurt(t)' /\ kind[t] # "UpdateStatus"
  BY <1>1, <1>2, FaultAborts DEF Aborting
<1>5. alive'
  BY <1>1 DEF IInv
<1> QED
  BY <1>1, <1>2, <1>3, <1>4, <1>5, Fails
(* The end of a session: afterwards no thread is in one. *)
LEMMA EndOfSession ==
  ASSUME IInv, NEW t \in Threads, phase[t] # "idle", deleting[t] = None,
         phase' = [phase EXCEPT ![t] = "idle"], notify' = [notify EXCEPT ![t] = <<>>],
         failed' \in [Threads -> BOOLEAN], UNCHANGED <<kind, deleting, left, before, alive>>,
         IdleOK(data')
  PROVE  IInv'
<1>1. data' \in Data /\ <<>> \in Seq(Op)
  BY NoneYet DEF IdleOK
<1>2. TypeOK' /\ alive'
  BY <1>1 DEF IInv, TypeOK
<1>3. \A s \in Threads : phase'[s] = "idle" /\ notify'[s] = <<>> /\ deleting'[s] = None
  BY DEF IInv, TypeOK
<1>4. NotifiedIsTrue'
  BY <1>3 DEF NotifiedIsTrue
<1> QED
  BY <1>2, <1>3, <1>4 DEF IInv

(* A session that has met an error aborts, and leaves the database. *)
LEMMA SessionFailsInv ==
  ASSUME IInv, NEW t \in Threads, SessionFails(t)
  PROVE  IInv' /\ data'.db = before[t]
<1>1. /\ phase[t] = "body" /\ deleting[t] = None /\ failed[t] /\ kind[t] \notin Committing
      /\ data' = (IF kind[t] \in Aborting THEN Abort(data) ELSE data)
      /\ phase' = [phase EXCEPT ![t] = "idle"]
      /\ UNCHANGED <<kind, failed, deleting, notify, left, before, alive>>
  BY DEF SessionFails, EndsOnError
<1>2. kind[t] \in Aborting
  <2>1. kind[t] \in Kinds /\ kind[t] # "UpdateStatus"
    BY <1>1 DEF IInv, TypeOK
  <2> QED
    BY <1>1, <2>1 DEF Kinds
<1>3. UndoOK(data, Runs(t)) /\ data' = Abort(data)
  BY <1>1, <1>2 DEF IInv, SessionOK
<1>4. IdleOK(data') /\ data'.db = data.db
  BY <1>3, AbortOK
<1>5. data.db = before[t]
  BY <1>1 DEF IInv
<1>6. notify' = [notify EXCEPT ![t] = <<>>] /\ failed' \in [Threads -> BOOLEAN]
  BY <1>1 DEF IInv, TypeOK
<1> QED
  BY <1>1, <1>4, <1>5, <1>6, EndOfSession

(* A commit that fails aborts; one that succeeds has nothing to notify, or *)
(* goes on to notify in a new transaction.                                 *)
LEMMA CommitInv ==
  ASSUME Disciplined, IInv, NEW t \in Threads, NEW ok \in CommitOutcomes, NEW begin \in BeginOutcomes,
         CommitTransaction(t, ok, begin)
  PROVE  /\ IInv'
         /\ phase[t] = "body" /\ phase'[t] = "idle" /\ failed'[t] => data'.db = before[t]
<1>1. begin = TRUE /\ ok \in BOOLEAN
  BY DEF Disciplined, BeginOutcomes, CommitOutcomes
<1>2. /\ deleting[t] = None /\ phase[t] # "idle"
      /\ phase[t] = "body" => ~failed[t] \/ kind[t] \in Committing
  BY DEF CommitTransaction, AtCommit, EndsOnError
<1>3. ~Hurt(t)
  BY <1>2 DEF Hurt, Committing, Aborting
<1>4. SessionOK(data, Runs(t), Hurt(t), None)
  BY <1>2 DEF IInv
<1>5. SessionOK(data, Runs(t), FALSE, None)
  BY <1>3, <1>4 DEF SessionOK, OpsTrue, WorkOK
<1>6. data \in Data /\ InTransaction(data) /\ data.open /\ UndoOK(data, Runs(t))
  BY <1>5 DEF SessionOK, UndoOK
<1>7. DbCommits(data, ok) <=> ok
  BY <1>6 DEF DbCommits
<1> DEFINE notifies == ok /\ data.cur.ops # <<>>
<1>8. /\ data' = Commit(data, t, ok, TRUE)
      /\ phase' = [phase EXCEPT ![t] = IF notifies THEN "notify" ELSE "idle"]
      /\ notify' = [notify EXCEPT ![t] = IF notifies THEN data.cur.ops ELSE <<>>]
      /\ failed' = [failed EXCEPT ![t] = ~notifies /\ phase[t] = "body" /\ ~ok]
      /\ UNCHANGED <<kind, deleting, left, before, alive>>
  BY <1>1, <1>6, <1>7 DEF CommitTransaction
<1>9. failed' \in [Threads -> BOOLEAN] /\ (failed'[t] => ~ok)
  BY <1>1, <1>8 DEF IInv, TypeOK
<1>10. CASE ~ok
  <2>1. data' = Abort(data)
    BY <1>7, <1>8, <1>10 DEF Commit
  <2>2. IdleOK(data') /\ data'.db = data.db
    BY <1>6, <2>1, AbortOK
  <2>3. phase[t] = "body" => data.db = before[t]
    BY DEF IInv
  <2> QED
    BY <1>2, <1>8, <1>9, <1>10, <2>2, <2>3, EndOfSession
<1>11. CASE ok
  <2>1. data' = Commit(data, t, TRUE, TRUE)
    BY <1>1, <1>8, <1>11
  <2>2. /\ data.cur.ops = <<>> => IdleOK(data')
        /\ data.cur.ops # <<>> => SessionOK(data', "Cascade", FALSE, None)
        /\ \A k \in 1..Len(data.cur.ops) :
              /\ data.cur.ops[k].op = "Add" => data.cur.ops[k].inst \in Rows(data'.db)
              /\ data.cur.ops[k].op = "Del" => data.cur.ops[k].inst \notin Rows(data'.db)
    BY <1>5, <2>1, CommitOK
  <2>3. CASE data.cur.ops = <<>>
    BY <1>2, <1>8, <1>9, <1>11, <2>2, <2>3, EndOfSession
  <2>4. CASE data.cur.ops # <<>>
    <3>1. /\ phase' = [phase EXCEPT ![t] = "notify"] /\ notify' = [notify EXCEPT ![t] = data.cur.ops]
          /\ SessionOK(data', "Cascade", FALSE, None) /\ ~failed'[t]
      BY <1>8, <1>9, <1>11, <2>2, <2>4
    <3>2. data' \in Data /\ data.cur.ops \in Seq(Op)
      BY <1>6, <3>1, DataFields DEF SessionOK, UndoOK
    <3>3. TypeOK' /\ alive'
      BY <1>8, <1>9, <3>1, <3>2 DEF IInv, TypeOK
    <3>4. /\ phase'[t] = "notify" /\ notify'[t] = data.cur.ops /\ deleting'[t] = None
          /\ \A s \in Threads \ {t} : phase'[s] = "idle" /\ notify'[s] = <<>> /\ deleting'[s] = None
      BY <1>2, <1>8, <3>1 DEF IInv, TypeOK
    <3>5. SessionOK(data', Runs(t)', Hurt(t)', deleting'[t])
      <4>1. Runs(t)' = "Cascade" /\ ~Hurt(t)'
        BY <3>4 DEF Runs, Hurt
      <4> QED
        BY <3>1, <3>4, <4>1 DEF SessionOK, OpsTrue, WorkOK
    <3>6. NotifiedIsTrue'
      BY <2>2, <3>4 DEF NotifiedIsTrue
    <3> QED
      BY <3>3, <3>4, <3>5, <3>6 DEF IInv
  <2> QED
    BY <2>3, <2>4
<1> QED
  BY <1>1, <1>10, <1>11

LEMMA TailOps ==
  ASSUME NEW q \in Seq(Op), q # <<>>
  PROVE  /\ Tail(q) \in Seq(Op)
         /\ \A k \in 1..Len(Tail(q)) : k + 1 \in 1..Len(q) /\ Tail(q)[k] = q[k + 1]
  OBVIOUS

LEMMA NotifyInv ==
  ASSUME IInv, NEW t \in Threads, NotifyReturns(t)
  PROVE  IInv'
<1>1. /\ phase[t] = "notify" /\ notify[t] # <<>> /\ notify' = [notify EXCEPT ![t] = Tail(@)]
      /\ UNCHANGED <<data, phase, kind, failed, deleting, left, before, alive>>
  BY DEF NotifyReturns
<1>2. notify[t] \in Seq(Op) /\ notify \in [Threads -> Seq(Op)]
  BY DEF IInv, TypeOK
<1>3. /\ Tail(notify[t]) \in Seq(Op)
      /\ \A k \in 1..Len(Tail(notify[t])) :
            k + 1 \in 1..Len(notify[t]) /\ Tail(notify[t])[k] = notify[t][k + 1]
  BY <1>1, <1>2, TailOps
<1>4. /\ notify'[t] = Tail(notify[t]) /\ \A s \in Threads \ {t} : notify'[s] = notify[s]
      /\ notify' \in [Threads -> Seq(Op)]
  BY <1>1, <1>2, <1>3
<1>5. TypeOK' /\ alive'
  BY <1>1, <1>4 DEF IInv, TypeOK
<1>6. NotifiedIsTrue'
  <2> SUFFICES ASSUME NEW s \in Threads, NEW k \in 1..Len(notify'[s])
               PROVE  /\ notify'[s][k].op = "Add" => notify'[s][k].inst \in Rows(data.db)
                      /\ notify'[s][k].op = "Del" => notify'[s][k].inst \notin Rows(data.db)
    BY <1>1 DEF NotifiedIsTrue
  <2>1. CASE s = t
    <3>1. k + 1 \in 1..Len(notify[t]) /\ notify'[s][k] = notify[t][k + 1]
      BY <1>3, <1>4, <2>1
    <3> QED
      BY <3>1 DEF IInv, NotifiedIsTrue
  <2>2. CASE s # t
    BY <1>4, <2>2 DEF IInv, NotifiedIsTrue
  <2> QED
    BY <2>1, <2>2
<1>7. ASSUME NEW s \in Threads
      PROVE  Runs(s)' = Runs(s) /\ (Hurt(s)' <=> Hurt(s))
  BY <1>1 DEF Runs, Hurt
<1>8. ASSUME NEW s \in Threads
      PROVE  /\ phase'[s] = "idle" => deleting'[s] = None
             /\ phase'[s] # "notify" => notify'[s] = <<>>
             /\ phase'[s] # "idle" => SessionOK(data', Runs(s)', Hurt(s)', deleting'[s])
             /\ phase'[s] = "body" => before'[s] = data'.db
             /\ phase'[s] = "body" /\ kind'[s] = "UpdateStatus" => ~failed'[s]
  <2>1. phase[s] # "idle" => SessionOK(data, Runs(s), Hurt(s), deleting[s])
    BY DEF IInv
  <2>2. phase'[s] # "idle" => SessionOK(data', Runs(s)', Hurt(s)', deleting'[s])
    BY <1>1, <1>7, <2>1 DEF SessionOK, OpsTrue, WorkOK
  <2> QED
    BY <1>1, <1>4, <2>2 DEF IInv
<1> QED
  BY <1>1, <1>5, <1>6, <1>8 DEF IInv
-----------------------------------------------------------------------------
LEMMA InitInv == Init => IInv
<1> SUFFICES ASSUME Init PROVE IInv
  OBVIOUS
<1>1. /\ data.cur = NullTransaction /\ data.inst = {} /\ ~data.open
      /\ data.db = [i \in Instances |-> Absent] /\ data.work = [i \in Instances |-> Absent]
      /\ data \in Data
  <2>1. NullTransaction \in [owner: Threads \cup {Nobody}, ops: Seq(Op)]
    BY NoneYet DEF NullTransaction
  <2>2. [i \in Instances |-> Absent] \in [Instances -> Contents]
    BY DEF Contents
  <2> QED
    BY <2>1, <2>2 DEF Init, Data
<1>2. IdleOK(data)
  BY <1>1 DEF IdleOK, Rows, Closed
<1>3. TypeOK
  <2>1. data.db \in [Instances -> Contents]
    BY <1>1, DataFields
  <2> QED
    BY <1>1, <2>1, NoneYet DEF Init, TypeOK, Kinds, Aborting
<1>4. \A t \in Threads : phase[t] = "idle" /\ notify[t] = <<>> /\ deleting[t] = None
  BY DEF Init
<1>5. NotifiedIsTrue
  BY <1>4 DEF NotifiedIsTrue
<1> QED
  BY <1>2, <1>3, <1>4, <1>5 DEF Init, IInv

(* The step of a request that ends with an error. *)
FailsCleanly ==
    \A t \in Threads :
        phase[t] = "body" /\ phase'[t] = "idle" /\ failed'[t] => data'.db = before[t]

LEMMA NextInv ==
  ASSUME Disciplined, IInv, [Next]_vars
  PROVE  IInv' /\ FailsCleanly
<1>1. CASE UNCHANGED vars
  <2>1. FailsCleanly
    BY <1>1 DEF vars, FailsCleanly
  <2>2. ASSUME NEW s \in Threads
        PROVE  phase'[s] # "idle" => SessionOK(data', Runs(s)', Hurt(s)', deleting'[s])
    <3>1. phase[s] # "idle" => SessionOK(data, Runs(s), Hurt(s), deleting[s])
      BY DEF IInv
    <3>2. Runs(s)' = Runs(s) /\ (Hurt(s)' <=> Hurt(s))
      BY <1>1 DEF vars, Runs, Hurt
    <3> QED
      BY <1>1, <3>1, <3>2 DEF vars, SessionOK, OpsTrue, WorkOK
  <2>3. TypeOK' /\ NotifiedIsTrue'
    BY <1>1 DEF vars, IInv, TypeOK, NotifiedIsTrue
  <2> QED
    BY <1>1, <2>1, <2>2, <2>3 DEF vars, IInv
<1>2. ASSUME NEW t \in Threads, Session(t)
      PROVE  IInv' /\ FailsCleanly
  <2>1. ASSUME UNCHANGED phase PROVE FailsCleanly
    BY <2>1 DEF FailsCleanly
  <2>2. ASSUME NEW k \in Kinds, NEW ok \in BeginOutcomes, SessionStarts(t, k, ok)
        PROVE  IInv' /\ FailsCleanly
    <3>1. \A s \in Threads : phase[s] # "body"
      BY <2>2 DEF SessionStarts, Disciplined
    <3> QED
      BY <2>2, <3>1, StartsInv DEF FailsCleanly
  <2>3. CASE Rejected(t)
    BY <2>1, <2>3, RejectedInv DEF Rejected, SessionUnchanged
  <2>4. CASE SetFails(t)
    BY <2>1, <2>4, SetFailsInv DEF SetFails, SessionUnchanged
  <2>5. ASSUME NEW i \in Instances, NEW v \in Values, SetParameterValue(t, i, v)
        PROVE  IInv' /\ FailsCleanly
    BY <2>1, <2>5, SetInv DEF SetParameterValue, SessionUnchanged
  <2>6. ASSUME NEW i \in Instances, AddInstance(t, i)
        PROVE  IInv' /\ FailsCleanly
    BY <2>1, <2>6, AddInv DEF AddInstance, SessionUnchanged
  <2>7. ASSUME NEW i \in Instances, AddFails(t, i)
        PROVE  IInv' /\ FailsCleanly
    BY <2>1, <2>7, AddFailsInv DEF AddFails, SessionUnchanged
  <2>8. ASSUME NEW i \in Instances, DeleteInstance(t, i)
        PROVE  IInv' /\ FailsCleanly
    BY <2>1, <2>8, DeleteInv DEF DeleteInstance, SessionUnchanged
  <2>9. ASSUME NEW i \in Instances, DeleteChild(t, i)
        PROVE  IInv' /\ FailsCleanly
    BY <2>1, <2>9, DeleteChildInv DEF DeleteChild, DeleteStep, SessionUnchanged
  <2>10. CASE DeleteRows(t)
    BY <2>1, <2>10, DeleteRowsInv DEF DeleteRows, DeleteStep, SessionUnchanged
  <2>11. CASE DeleteFails(t)
    BY <2>1, <2>11, DeleteFailsInv DEF DeleteFails, DeleteStep, SessionUnchanged
  <2>12. CASE DeleteEnds(t)
    BY <2>1, <2>12, DeleteEndsInv DEF DeleteEnds, DeleteStep, SessionUnchanged
  <2>13. CASE SessionFails(t)
    <3>1. \A s \in Threads : phase[s] = "body" => s = t
      BY <2>13 DEF SessionFails, IInv
    <3> QED
      BY <2>13, <3>1, SessionFailsInv DEF FailsCleanly
  <2>14. CASE NotifyReturns(t)
    BY <2>1, <2>14, NotifyInv DEF NotifyReturns
  <2>15. ASSUME NEW ok \in CommitOutcomes, NEW begin \in BeginOutcomes, CommitTransaction(t, ok, begin)
         PROVE  IInv' /\ FailsCleanly
    <3>1. \A s \in Threads : phase[s] = "body" => s = t
      BY <2>15 DEF CommitTransaction, AtCommit, IInv
    <3> QED
      BY <2>15, <3>1, CommitInv DEF FailsCleanly
  <2> QED
    BY <1>2, <2>2, <2>3, <2>4, <2>5, <2>6, <2>7, <2>8, <2>9, <2>10, <2>11, <2>12, <2>13, <2>14, <2>15
       DEF Session
<1> QED
  BY <1>1, <1>2 DEF Next

LEMMA Invariant == ASSUME Disciplined PROVE Spec => []IInv
<1>1. IInv /\ [Next]_vars => IInv'
  BY NextInv
<1> QED
  BY <1>1, InitInv, PTL DEF Spec

(* Sessions only ever reach states of the expected shape (dm_trans.c).     *)
THEOREM TypeCorrect == ASSUME Disciplined PROVE Spec => []TypeOK
<1>1. IInv => TypeOK
  BY DEF IInv
<1> QED
  BY <1>1, Invariant, PTL

(* Whatever sessions did and however they ended, between them the instance *)
(* vectors agree with the database (DM_TRANS_Abort, DM_TRANS_Commit).      *)
THEOREM InstancesAgree == ASSUME Disciplined PROVE Spec => []InstancesMatchDb
<1>1. IInv => InstancesMatchDb
  BY DEF IInv, IdleOK, InstancesMatchDb
<1> QED
  BY <1>1, Invariant, PTL

(* Notifications tell what the committed database holds (DM_TRANS_Commit). *)
THEOREM NotificationsTrue == ASSUME Disciplined PROVE Spec => []NotifiedIsTrue
<1>1. IInv => NotifiedIsTrue
  BY DEF IInv
<1> QED
  BY <1>1, Invariant, PTL

(* No operation runs outside a transaction: the assertion of DM_TRANS_Add  *)
(* never fails, nor in the notify callbacks of cascaded commits.           *)
THEOREM NeverAsserts == ASSUME Disciplined PROVE Spec => []AssertionsHold
<1>1. IInv => AssertionsHold
  BY DEF IInv, AssertionsHold
<1> QED
  BY <1>1, Invariant, PTL

(* A session that ends with an error leaves the committed database as it   *)
(* was when the session started.                                           *)
THEOREM FailureIsClean == ASSUME Disciplined PROVE Spec => FailureChangesNothing
<1>1. IInv /\ [Next]_vars => [FailsCleanly]_vars
  BY NextInv
<1> QED
  BY <1>1, Invariant, PTL DEF Spec, FailureChangesNothing, FailsCleanly
=============================================================================
