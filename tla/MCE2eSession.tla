---------------------------- MODULE MCE2eSession ----------------------------
(***************************************************************************)
(* The instance of E2eSession that TLC checks.  In the first session the   *)
(* controller sends two messages of two segments, in the second an empty   *)
(* record and a message of three segments, in the third a message of one.  *)
(***************************************************************************)
EXTENDS E2eSession

MCRecord(sid, seq, part, of) == [sid |-> sid, seq |-> seq, part |-> part, of |-> of]

MCRecords ==
    {MCRecord(2, 1, 1, 2), MCRecord(2, 2, 2, 2), MCRecord(2, 3, 1, 2), MCRecord(2, 4, 2, 2)}
        \cup {MCRecord(3, 1, 0, 0), MCRecord(3, 2, 1, 3), MCRecord(3, 3, 2, 3), MCRecord(3, 4, 3, 3)}
        \cup {MCRecord(4, 1, 1, 1)}
=============================================================================
