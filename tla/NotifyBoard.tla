---------------------------- MODULE NotifyBoard -----------------------------
(***************************************************************************)
(* What the agent promises of a notification that asks for a response      *)
(* (NotifRetry): it stays on the board, and may be sent again, until it is *)
(* answered, until the controller or the subscription it comes from is     *)
(* deleted, until a newer one takes its place, or, if it has a             *)
(* NotifExpiration, until it is given up.  What has left the board is      *)
(* never sent again.  A restart clears the board.                          *)
(*                                                                         *)
(* A place on the board is a subscription, a path and a controller.        *)
(***************************************************************************)
EXTENDS Naturals

CONSTANTS Keys              \* places: records with a field inst

VARIABLES
    board,      \* notifications waiting for a response
    out,        \* messages handed to the MTP by the last step
    made        \* notifications so far

vars == <<board, out, made>>

Notices == [key: Keys, msg: Nat, forever: BOOLEAN]

Init == board = {} /\ out = {} /\ made = 0

(* A new notification; it replaces the one in its place. *)
Notify(k, forever) ==
    /\ board' = {b \in board : b.key # k}
                    \cup {[key |-> k, msg |-> made + 1, forever |-> forever]}
    /\ out' = {made + 1}
    /\ made' = made + 1

(* A notification that asks for no response. *)
NotifyOnce ==
    /\ made' = made + 1
    /\ out' = {made + 1}
    /\ UNCHANGED board

(* Notifications are sent again, others are given up. *)
Serve ==
    /\ board' \subseteq board
    /\ \A b \in board \ board' : ~b.forever
    /\ out' \subseteq {b.msg : b \in board}
    /\ UNCHANGED made

Answer(m) ==
    /\ board' = {b \in board : b.msg # m}
    /\ out' = {}
    /\ UNCHANGED made

(* Everything of a set of subscriptions is withdrawn. *)
Withdraw(I) ==
    /\ board' = {b \in board : b.key.inst \notin I}
    /\ out' = {}
    /\ UNCHANGED made

Clear ==
    /\ board' = {}
    /\ out' = {}
    /\ UNCHANGED made

Next ==
    \/ \E k \in Keys, forever \in BOOLEAN : Notify(k, forever)
    \/ NotifyOnce
    \/ Serve
    \/ \E m \in 1..made : Answer(m)
    \/ \E I \in SUBSET {k.inst : k \in Keys} : Withdraw(I)
    \/ Clear

Spec == Init /\ [][Next]_vars
=============================================================================
