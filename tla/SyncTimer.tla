----------------------------- MODULE SyncTimer ------------------------------
(***************************************************************************)
(* The timers of the DM thread: core/sync_timer.c.  A vector of timers, of *)
(* which the enabled ones have a time to fire, and a cached copy of the    *)
(* earliest of these times, which the DM thread sleeps until.              *)
(*                                                                         *)
(* Times are relative to the present: 0 is now or in the past, Never is    *)
(* END_OF_TIME.  The order of the vector, in which timers due in the same  *)
(* pass of SYNC_TIMER_Execute are called, is left open.                    *)
(***************************************************************************)
EXTENDS Naturals, FiniteSetsExt

CONSTANTS
    Timers,     \* pairs of a callback and an id
    Never       \* END_OF_TIME, later than every other time

ASSUME NeverAssumption == Never \in Nat \ {0}

Times == 0..Never

TimerVector == [reg: SUBSET Timers, on: SUBSET Timers, at: [Timers -> Times], first: Times]

(* UpdateFirstSyncTimerTime *)
Earliest(tm) == Min({tm.at[t] : t \in tm.on} \cup {Never})
UpdateFirst(tm) == [tm EXCEPT !.first = Earliest(tm)]

SYNC_TIMER_Init ==
    [reg |-> {}, on |-> {}, at |-> [t \in Timers |-> Never], first |-> Never]

(* SYNC_TIMER_Add refuses a timer that is already registered. *)
SYNC_TIMER_Add(tm, t, time) ==
    IF t \in tm.reg THEN tm
    ELSE UpdateFirst([tm EXCEPT !.reg = @ \cup {t}, !.on = @ \cup {t}, !.at[t] = time])

(* Slip: a timer that has fired is left disabled. *)
FaultyReload(tm, t, time) ==
    IF t \notin tm.reg THEN tm ELSE UpdateFirst([tm EXCEPT !.at[t] = time])

SYNC_TIMER_Reload(tm, t, time) ==
    IF t \notin tm.reg THEN tm
    ELSE UpdateFirst([tm EXCEPT !.on = @ \cup {t}, !.at[t] = time])

FaultyRemove(tm, t) ==              \* Slip: the earliest time is not worked out again
    [tm EXCEPT !.reg = @ \ {t}, !.on = @ \ {t}]

SYNC_TIMER_Remove(tm, t) ==
    IF t \notin tm.reg THEN tm
    ELSE UpdateFirst([tm EXCEPT !.reg = @ \ {t}, !.on = @ \ {t}])

(* SYNC_TIMER_Execute: whether it goes through the vector at all, the      *)
(* timers it calls, and what it does to one before it calls it.            *)
AnyDue(tm) == tm.first = 0
Due(tm, t) == t \in tm.on /\ tm.at[t] = 0
Fire(tm, t) == [tm EXCEPT !.on = @ \ {t}]

(* A second passes: what is due stays due. *)
FaultySooner(time) == IF time = Never THEN time ELSE time - 1    \* Slip: past due

Sooner(time) == IF time \in {0, Never} THEN time ELSE time - 1

Elapse(tm) == [tm EXCEPT !.at = [t \in Timers |-> Sooner(tm.at[t])], !.first = Sooner(@)]

(* The cached time is the earliest time of the enabled timers: a timer     *)
(* that is due is never slept through (UpdateFirstSyncTimerTime is called  *)
(* wherever a timer is added, reloaded or removed, sync_timer.c:163).      *)
FirstIsEarliest(tm) == tm.first = Earliest(tm)
=============================================================================
