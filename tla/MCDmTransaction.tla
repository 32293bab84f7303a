-------------------------- MODULE MCDmTransaction ---------------------------
(***************************************************************************)
(* Small instances of DmTransaction for TLC.                               *)
(***************************************************************************)
EXTENDS DmTransaction, TLC

CONSTANTS p, c, q, dm, java         \* model values

(* Instance c is nested in p; q stands alone. *)
NestedParent == (p :> None) @@ (c :> p) @@ (q :> None)
FlatParent == [i \in Instances |-> None]

(* Sessions that do not overlap: one thread can run them all. *)
AllKinds == [t \in Threads |-> Kinds]

(* The handlers on the DM thread, the JNI functions on a Java thread. *)
KindsByThread == (dm :> {"Set", "Add", "Delete"}) @@ (java :> {"JniAdd", "JniDelete"})
=============================================================================
