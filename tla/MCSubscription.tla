--------------------------- MODULE MCSubscription ---------------------------
(***************************************************************************)
(* Small instances of Subscription for TLC.                                *)
(***************************************************************************)
EXTENDS Subscription, TLC

CONSTANTS c1, c2                    \* model values

(* A row of the subscription table, as a controller adds it. *)
Fresh(c, type, refs, retry, period, persistent, expiry) ==
    [cont |-> c, enable |-> TRUE, type |-> type, refs |-> refs, retry |-> retry,
     period |-> period, persistent |-> persistent, expiry |-> expiry,
     last |-> NoValues, resolved |-> {}]

ValueRow == Fresh(c1, "ValueChange", {"param"}, TRUE, 0, TRUE, Never)
ObjectRow == Fresh(c1, "ObjectDeletion", {"object"}, TRUE, 3, FALSE, 2)
BootRow == Fresh(c1, "Event", {"Boot", "Event"}, TRUE, 0, TRUE, Never)

MCOffers == {ObjectRow}
NoRows == {[s \in Subs |-> None]}
MCTables == {(1 :> ValueRow) @@ (2 :> ObjectRow), (1 :> ObjectRow) @@ (2 :> None),
             (1 :> BootRow) @@ (2 :> ValueRow)}
MCTimers == {"SubsRetryExec", "DEVICE_SUBSCRIPTION_Update"}
=============================================================================
