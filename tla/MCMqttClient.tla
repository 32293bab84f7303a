---------------------------- MODULE MCMqttClient ----------------------------
(***************************************************************************)
(* Small instances of MqttClient for TLC; the configurations give the     *)
(* constants their values.                                                 *)
(***************************************************************************)
EXTENDS MqttClient, TLC

(* ResponsesIn selects by position; it agrees with SelectSeq. *)
IsResponse(r) == r \in Responses
ASSUME ResponsesInSelects ==
    \A n \in 0..4 : \A q \in [1..n -> Records] : ResponsesIn(q) = SelectSeq(q, IsResponse)

(* MqttClient treats all responses alike. *)
ResponseSymmetry == Permutations(Responses)
=============================================================================
