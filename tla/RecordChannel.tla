--------------------------- MODULE RecordChannel ----------------------------
(***************************************************************************)
(* What an MQTT slot promises the rest of the agent about the USP          *)
(* responses and notifications it is given.  They wait in "queued", are    *)
(* handed to the broker connection in the order given ("sending") and      *)
(* leave the agent in that order.  Losing a connection loses at most what  *)
(* had been handed to it; only closing the slot loses what is queued.      *)
(***************************************************************************)
EXTENDS Sequences

CONSTANT Responses

VARIABLES queued, sending

Init == queued = <<>> /\ sending = <<>>

Accept(r) == queued' = Append(queued, r) /\ UNCHANGED sending

Publish ==
    /\ queued # <<>>
    /\ sending' = Append(sending, Head(queued))
    /\ queued' = Tail(queued)

Sent == sending # <<>> /\ sending' = Tail(sending) /\ UNCHANGED queued

ConnectionLost == sending' = <<>> /\ UNCHANGED queued

Closed == queued' = <<>> /\ sending' \in {<<>>, sending}

Next == ConnectionLost \/ Closed \/ Publish \/ Sent \/ \E r \in Responses : Accept(r)

Spec == Init /\ [][Next]_<<queued, sending>>
=============================================================================
