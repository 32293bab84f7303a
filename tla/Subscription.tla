---------------------------- MODULE Subscription ----------------------------
(***************************************************************************)
(* Subscriptions, notifications and their retries, as the DM thread runs   *)
(* them: core/device_subscription.c with core/subs_vector.c,               *)
(* core/subs_retry.c with core/retry_wait.c, HandleNotifyResp of           *)
(* core/handle_notify.c, the on-board request and the deletion of a        *)
(* controller of core/device_controller.c, and the loop of core/dm_exec.c  *)
(* that calls them together with the timers of SyncTimer.                  *)
(*                                                                         *)
(* One round of the loop fires the timers that are due, handles at most    *)
(* one message of the queue and one command of the command line, and sends *)
(* the object creation and deletion events of the round.  SendNotify is a  *)
(* step of its own: `todo' holds the calls still to make.  The network may *)
(* lose, delay and repeat everything: a NotifyResponse to any notification *)
(* that was ever sent may arrive at any time, any number of times.         *)
(*                                                                         *)
(* Paths stand for themselves: which paths an expression resolves to, the  *)
(* permissions and the contents of a message are left out.                 *)
(***************************************************************************)
EXTENDS SyncTimer

CONSTANTS
    Controllers,    \* entries of the controller table
    Subs,           \* instance numbers of the subscription table
    Params, Objects, Events,  \* paths, by what they lead to
    BootEvent,      \* Device.Boot!, one of the Events
    Values,         \* values of a parameter
    NoValue,        \* no value recorded for a parameter
    None,           \* no such subscription
    Offers,         \* the subscriptions a controller may add
    Tables,         \* what the database may hold at first
    OnBoarding,     \* controllers that SendOnBoardRequest() is called for
    Periods,        \* values of NotifExpiration, 0 for never
    PollPeriod,     \* VALUE_CHANGE_POLL_PERIOD
    MinWait,        \* SubsRetry MinimumWaitInterval
    Multiplier,     \* SubsRetry IntervalMultiplier, in thousandths
    RetryCap,       \* the retry count beyond which waits no longer grow (10)
    MaxInputs       \* most inputs, other than responses, a bound

OnBoard == 0        \* ON_BOARD_REQUEST_SUBS_INSTANCE
Empty == "empty"    \* the empty differentiator of an on-board request
Paths == Params \cup Objects \cup Events \cup {Empty}
LifeEvents == {"ObjectCreation", "ObjectDeletion"}
Types == {"ValueChange", "Event"} \cup LifeEvents

(* A row of the subscription table together with its entry in the vector   *)
(* of subscriptions.                                                       *)
Sub == [cont: Controllers, enable: BOOLEAN, type: Types, refs: SUBSET Paths,
        retry: BOOLEAN, period: Periods, persistent: BOOLEAN, expiry: Times,
        last: [Params -> Values \cup {NoValue}], resolved: SUBSET Objects]
Entry == [inst: Subs \cup {OnBoard}, path: Paths, cont: Controllers, msg: Nat \ {0},
          count: 1..RetryCap, next: Times, expiry: Times]
Call == [inst: Subs, path: Paths]
Phases == {"select", "timers", "enable", "poll", "rearm", "mq", "cli", "events"}

ASSUME SubscriptionAssumption ==
    /\ OnBoard \notin Subs /\ None \notin Sub
    /\ Values # {} /\ NoValue \notin Values
    /\ BootEvent \in Events
    /\ Timers = {"SubsRetryExec", "DEVICE_SUBSCRIPTION_Update"}
    /\ Offers \subseteq Sub /\ Tables \subseteq [Subs -> Sub \cup {None}]
    /\ OnBoarding \subseteq Controllers
    /\ Periods \subseteq 0..(Never - 1) /\ PollPeriod \in 1..(Never - 1)
    /\ MinWait \in Nat \ {0} /\ Multiplier \in Nat /\ RetryCap \in Nat \ {0}
    /\ MaxInputs \in Nat

VARIABLES
    cont,       \* controller: "on", "off" (not enabled) or "gone"
    subs,       \* instance: the subscription, or None
    val,        \* parameter: its value in the device
    objs,       \* the object instances of the data model
    retries,    \* the vector of subs_retry.c
    first,      \* first_retry_time
    tm,         \* the timers
    events,     \* object_life_events
    resolved,   \* object_deletion_paths_resolved
    booted,     \* is_notifications_enabled and boot_subs_processed
    phase,      \* where the DM thread is in its loop
    todo,       \* the calls of SendNotify it is about to make
    wire,       \* messages handed to the MTP by the last step
    msgs,       \* notifications created so far
    inputs,     \* inputs so far, a bound
    alive,      \* no USP_ASSERT has failed
    watch       \* history: what was watched for deletion when the round began

vars == <<cont, subs, val, objs, retries, first, tm, events, resolved, booted, phase,
          todo, wire, msgs, inputs, alive, watch>>
-----------------------------------------------------------------------------
Live == {s \in Subs : subs[s] # None}
Active(s, type) == subs[s] # None /\ subs[s].enable /\ subs[s].type = type

(* RETRY_WAIT_Calculate: the waits it may pick for a retry count. *)
WaitTimes(count) ==
    LET n == IF count > RetryCap THEN RetryCap ELSE count
        shortest == (MinWait * Multiplier^(n - 1)) \div 1000^(n - 1)
        longest == (MinWait * Multiplier^n) \div 1000^n
    IN  IF longest > shortest THEN shortest..(longest - 1) ELSE {shortest}

(* A wait ends before the end of time: with the parameters' default values *)
(* the longest one is of 5120 seconds.  The code does not limit them, and  *)
(* values with which a wait overflows are left out.                        *)
ASSUME WaitAssumption ==
    \A n \in 1..(RetryCap + 1) : WaitTimes(n) \subseteq 0..(Never - 1)

(* UpdateFirstRetryTime, for the new vector of retries and the timers t *)
FirstOf(entries) == Min({e.next : e \in entries} \cup {Never})

FaultyUpdateFirstRetryTime(t) ==    \* Slip: the timer is set before the new time is stored
    /\ first' = FirstOf(retries')
    /\ tm' = SYNC_TIMER_Reload(t, "SubsRetryExec", first)

UpdateFirstRetryTime(t) ==
    /\ first' = FirstOf(retries')
    /\ tm' = SYNC_TIMER_Reload(t, "SubsRetryExec", first')

(* FindRetryEntry looks at the subscription and the path, not at the       *)
(* controller.                                                             *)
Matches(e, inst, path) == e.inst = inst /\ e.path = path

(* SUBS_RETRY_Add.  Its own check of the controller never fails: both      *)
(* callers have just found it enabled.                                     *)
FaultySUBS_RETRY_Add(inst, path, c, expiry, wait) ==    \* Slip: an earlier entry stays
    LET entry == [inst |-> inst, path |-> path, cont |-> c, msg |-> msgs + 1,
                  count |-> 1, next |-> wait, expiry |-> expiry]
    IN  retries' = retries \cup {entry} /\ UpdateFirstRetryTime(tm)

SUBS_RETRY_Add(inst, path, c, expiry, wait) ==
    LET others == {e \in retries : ~Matches(e, inst, path)}
        entry == [inst |-> inst, path |-> path, cont |-> c, msg |-> msgs + 1,
                  count |-> 1, next |-> wait, expiry |-> expiry]
    IN  retries' = others \cup {entry} /\ UpdateFirstRetryTime(tm)

(* SUBS_RETRY_Remove *)
SUBS_RETRY_Remove(m) ==
    IF \A e \in retries : e.msg # m THEN UNCHANGED <<retries, first, tm>>
    ELSE retries' = {e \in retries : e.msg # m} /\ UpdateFirstRetryTime(tm)

(* SUBS_RETRY_Delete, for each subscription of S, with the timers t *)
FaultySUBS_RETRY_Delete(S, t) ==    \* Slip: the retries of a deleted subscription stay
    tm' = t /\ UNCHANGED <<retries, first>>

SUBS_RETRY_Delete(S, t) ==
    IF S = {} THEN tm' = t /\ UNCHANGED <<retries, first>>
    ELSE retries' = {e \in retries : e.inst \notin S} /\ UpdateFirstRetryTime(t)
-----------------------------------------------------------------------------
(* DEVICE_SUBSCRIPTION_ResolveObjectDeletionPaths, called before an object *)
(* leaves the data model, resolves the paths once in a round of the loop.  *)
ResolveDeletions(sb) ==
    [s \in Subs |-> IF ~resolved /\ Active(s, "ObjectDeletion")
                    THEN [sb[s] EXCEPT !.resolved = subs[s].refs \cap objs] ELSE sb[s]]

(* Deleting the subscriptions S: DATA_MODEL_DeleteInstance, which resolves *)
(* the deletion paths, and NotifySubsDeleted when the commit calls it.     *)
WithoutSubs(S) ==
    LET sb == IF S = {} THEN subs ELSE ResolveDeletions(subs)
    IN  [s \in Subs |-> IF s \in S THEN None ELSE sb[s]]

DeleteSubs(S) ==
    /\ subs' = WithoutSubs(S)
    /\ SUBS_RETRY_Delete(S, tm)
    /\ resolved' = (resolved \/ S # {})

(* GetAllPathExpressionParameterValues *)
CurrentValues(refs) == [p \in Params |-> IF p \in refs THEN val[p] ELSE NoValue]
NoValues == [p \in Params |-> NoValue]

(* ProcessSubscriptionAdded *)
Seeded(sub) ==
    [sub EXCEPT !.resolved = {},
                !.last = IF sub.enable /\ sub.type = "ValueChange"
                         THEN CurrentValues(sub.refs) ELSE NoValues]
-----------------------------------------------------------------------------
(* SendNotify, and SendOnBoardRequestNotify, which differs in that it      *)
(* retries in any case and for ever.                                       *)
Expiry(sub) == IF sub.retry /\ sub.period # 0 THEN sub.period ELSE Never

SendNotify(n) ==
    LET sub == subs[n.inst] IN
    /\ n \in todo
    /\ todo' = todo \ {n}
    /\ IF cont[sub.cont] # "on"
       THEN wire' = {} /\ UNCHANGED <<msgs, retries, first, tm>>
       ELSE /\ msgs' = msgs + 1
            /\ wire' = {msgs + 1}
            /\ IF sub.retry
               THEN \E wait \in WaitTimes(1) :
                        SUBS_RETRY_Add(n.inst, n.path, sub.cont, Expiry(sub), wait)
               ELSE UNCHANGED <<retries, first, tm>>
    /\ UNCHANGED <<cont, subs, val, objs, events, resolved, booted, phase, inputs, alive, watch>>

(* The calls that an event leads to: ProcessAllEventCompleteSubscriptions, *)
(* ProcessAllBootSubscriptions and SendPeriodicEvent.  An operation's      *)
(* completion takes the same way.                                          *)
Subscribers(e, sb) ==
    {n \in Call : /\ sb[n.inst] # None /\ sb[n.inst].enable /\ sb[n.inst].type = "Event"
                  /\ e \in sb[n.inst].refs /\ n.path = e}

(* ProcessAllObjectLifeEventSubscriptions: a subscription to creations is  *)
(* resolved now, one to deletions has been when the round deleted its      *)
(* first object.                                                           *)
Watched(sub) == IF sub.type = "ObjectCreation" THEN sub.refs \cap objs ELSE sub.resolved

FaultyLifeCalls ==                  \* Slip: the resolved paths are not kept until now
    {n \in Call : \E ev \in events : /\ n.path = ev.obj /\ Active(n.inst, ev.type)
                                     /\ ev.obj \in subs[n.inst].refs \cap objs}

LifeCalls ==
    {n \in Call : \E ev \in events : /\ n.path = ev.obj /\ Active(n.inst, ev.type)
                                     /\ ev.obj \in Watched(subs[n.inst])}

ProcessLifeEvents ==
    /\ todo' = LifeCalls
    /\ subs' = [s \in Subs |-> IF Active(s, "ObjectCreation") \/ Active(s, "ObjectDeletion")
                               THEN [subs[s] EXCEPT !.resolved = {}] ELSE subs[s]]
    /\ events' = {}
    /\ resolved' = FALSE
-----------------------------------------------------------------------------
(* DM_EXEC_Main.  Time passes while the thread waits in select(). *)
Idle == alive /\ todo = {}

Tick ==
    /\ Idle /\ phase = "select"
    /\ subs' = [s \in Subs |-> IF subs[s] = None THEN None
                                ELSE [subs[s] EXCEPT !.expiry = Sooner(@)]]
    /\ retries' = {[e EXCEPT !.next = Sooner(@), !.expiry = Sooner(@)] : e \in retries}
    /\ first' = Sooner(first)
    /\ tm' = Elapse(tm)
    /\ wire' = {}
    /\ UNCHANGED <<cont, val, objs, events, resolved, booted, phase, todo, msgs, inputs, alive, watch>>

(* SYNC_TIMER_Execute goes through the timers, or returns at once. *)
Wake ==
    /\ Idle /\ phase = "select"
    /\ phase' = IF AnyDue(tm) THEN "timers" ELSE "mq"
    /\ watch' = {w \in Subs \X Objects : Active(w[1], "ObjectDeletion")
                                         /\ w[2] \in subs[w[1]].refs \cap objs}
    /\ wire' = {}
    /\ UNCHANGED <<cont, subs, val, objs, retries, first, tm, events, resolved, booted,
                   todo, msgs, inputs, alive>>

EndTimers ==
    /\ Idle /\ phase = "timers"
    /\ \A t \in Timers : ~Due(tm, t)
    /\ tm' = UpdateFirst(tm)
    /\ phase' = "mq"
    /\ wire' = {}
    /\ UNCHANGED <<cont, subs, val, objs, retries, first, events, resolved, booted,
                   todo, msgs, inputs, alive, watch>>

Expired(e) == e.expiry = 0
ToRetry(e) == ~Expired(e) /\ e.next = 0
Retried(e, wait) ==
    [e EXCEPT !.count = IF @ < RetryCap THEN @ + 1 ELSE @, !.next = wait]

(* The waits that the entries to be retried may be given *)
Waits == {w \in [{e \in retries : ToRetry(e)} -> UNION {WaitTimes(n) : n \in 1..(RetryCap + 1)}] :
             \A e \in DOMAIN w : w[e] \in WaitTimes(e.count + 1)}

AfterRetries(w) ==
    {e \in retries : ~Expired(e) /\ ~ToRetry(e)}
        \cup {Retried(e, w[e]) : e \in {x \in DOMAIN w : w[x] < x.expiry}}

SubsRetryExec ==
    /\ Idle /\ phase = "timers" /\ Due(tm, "SubsRetryExec")
    /\ alive' = (first = 0)
    /\ \E w \in Waits : retries' = AfterRetries(w)
    /\ wire' = {e.msg : e \in {x \in retries : ToRetry(x) /\ cont[x.cont] = "on"}}
    /\ UpdateFirstRetryTime(Fire(tm, "SubsRetryExec"))
    /\ UNCHANGED <<cont, subs, val, objs, events, resolved, booted, phase, todo, msgs, inputs, watch>>

(* DEVICE_SUBSCRIPTION_Update, called by its timer and by                  *)
(* DM_EXEC_EnableNotifications, in three steps: the subscriptions that     *)
(* have expired and the Boot! event; the subscriptions that are not        *)
(* persistent and the values; the timer.                                   *)
UpdateStart ==
    LET gone == {s \in Live : subs[s].expiry = 0} IN
    /\ Idle
    /\ \/ phase = "timers" /\ Due(tm, "DEVICE_SUBSCRIPTION_Update")
          /\ SUBS_RETRY_Delete(gone, Fire(tm, "DEVICE_SUBSCRIPTION_Update"))
       \/ phase = "enable" /\ SUBS_RETRY_Delete(gone, tm)
    /\ subs' = WithoutSubs(gone)
    /\ resolved' = (resolved \/ gone # {})
    /\ todo' = IF booted THEN {} ELSE Subscribers(BootEvent, subs')
    /\ phase' = "poll"
    /\ wire' = {}
    /\ UNCHANGED <<cont, val, objs, events, booted, msgs, inputs, alive, watch>>

Changed(sub) ==
    {p \in Params \cap sub.refs : sub.last[p] # NoValue /\ sub.last[p] # val[p]}
Polled(s, sb) == sb[s] # None /\ sb[s].enable /\ sb[s].type = "ValueChange"

(* ProcessValueChangeSubscription: what is sent, before the current values *)
(* replace the ones seen last.                                             *)
FaultyValueChanges(sb) ==           \* Slip: they are replaced first
    {n \in Call : /\ Polled(n.inst, sb)
                  /\ n.path \in Changed([sb[n.inst] EXCEPT !.last = CurrentValues(sb[n.inst].refs)])}
ValueChanges(sb) ==
    {n \in Call : Polled(n.inst, sb) /\ n.path \in Changed(sb[n.inst])}

UpdatePoll ==
    LET gone == {s \in Live : ~booted /\ (~subs[s].persistent \/ subs[s].expiry = 0)}
        kept == WithoutSubs(gone)
    IN
    /\ Idle /\ phase = "poll"
    /\ subs' = [s \in Subs |-> IF Polled(s, kept)
                                THEN [kept[s] EXCEPT !.last = CurrentValues(kept[s].refs)]
                                ELSE kept[s]]
    /\ SUBS_RETRY_Delete(gone, tm)
    /\ resolved' = (resolved \/ gone # {})
    /\ todo' = ValueChanges(kept)
    /\ phase' = "rearm"
    /\ wire' = {}
    /\ UNCHANGED <<cont, val, objs, events, booted, msgs, inputs, alive, watch>>

FaultyUpdateRearm ==                \* Slip: the timer is started, but not restarted
    /\ Idle /\ phase = "rearm"
    /\ tm' = IF booted THEN tm
             ELSE SYNC_TIMER_Reload(tm, "DEVICE_SUBSCRIPTION_Update", PollPeriod)
    /\ booted' = TRUE
    /\ phase' = IF booted THEN "timers" ELSE "cli"
    /\ wire' = {}
    /\ UNCHANGED <<cont, subs, val, objs, retries, first, events, resolved, todo, msgs,
                   inputs, alive, watch>>

UpdateRearm ==
    /\ Idle /\ phase = "rearm"
    /\ tm' = SYNC_TIMER_Reload(tm, "DEVICE_SUBSCRIPTION_Update", PollPeriod)
    /\ booted' = TRUE
    /\ phase' = IF booted THEN "timers" ELSE "cli"
    /\ wire' = {}
    /\ UNCHANGED <<cont, subs, val, objs, retries, first, events, resolved, todo, msgs,
                   inputs, alive, watch>>

ProcessEvents ==
    /\ Idle /\ phase = "events"
    /\ ProcessLifeEvents
    /\ phase' = "select"
    /\ watch' = {}
    /\ wire' = {}
    /\ UNCHANGED <<cont, val, objs, retries, first, tm, booted, msgs, inputs, alive>>
-----------------------------------------------------------------------------
(* What the DM thread handles: a message of its queue, then a command of   *)
(* the command line, each at most once in a round.                         *)
Turn(slots) ==
    /\ Idle /\ phase \in slots
    /\ phase' = IF phase = "mq" THEN "cli" ELSE "events"
Handles(slots) == Turn(slots) /\ wire' = {}
AnySlot == {"mq", "cli"}
Input == inputs < MaxInputs /\ inputs' = inputs + 1

NoActivity ==
    /\ Handles(AnySlot)
    /\ UNCHANGED <<cont, subs, val, objs, retries, first, tm, events, resolved, booted,
                   todo, msgs, inputs, alive, watch>>

(* An Add, and the commit's NotifySubsAdded.  Only a controller adds       *)
(* subscriptions: the command line has no recipient to give them.          *)
AddSubs(s, sub) ==
    /\ Handles({"mq"}) /\ Input
    /\ subs[s] = None /\ cont[sub.cont] = "on"
    /\ subs' = [subs EXCEPT ![s] = Seeded(sub)]
    /\ watch' = {w \in watch : w[1] # s}
    /\ UNCHANGED <<cont, val, objs, retries, first, tm, events, resolved, booted, todo,
                   msgs, alive>>

DelSubs(s) ==
    /\ Handles(AnySlot) /\ Input
    /\ subs[s] # None
    /\ DeleteSubs({s})
    /\ UNCHANGED <<cont, val, objs, events, booted, todo, msgs, alive, watch>>

(* A Set of one parameter of a subscription, up to the notify callback of  *)
(* the commit.                                                             *)
SetSubs(s, sub) ==
    /\ Handles(AnySlot) /\ Input
    /\ subs[s] # None /\ sub # subs[s]
    /\ subs' = [subs EXCEPT ![s] = sub]
    /\ UNCHANGED <<cont, val, objs, retries, first, tm, events, resolved, booted, todo,
                   msgs, alive, watch>>

NotifyChange_SubsEnable(s) ==
    SetSubs(s, [subs[s] EXCEPT !.enable = ~@,
                               !.last = IF ~subs[s].enable /\ subs[s].type = "ValueChange"
                                        THEN CurrentValues(subs[s].refs) ELSE @])

(* Validate_SubsNotifType and Validate_SubsRefList: the paths must suit    *)
(* the type.                                                               *)
Suits(refs, type) ==
    refs \subseteq (CASE type = "ValueChange" -> Params
                     [] type = "Event" -> Events
                     [] type \in LifeEvents -> Objects)

NotifyChange_NotifyType(s, type) ==
    /\ Suits(subs[s].refs, type)
    /\ SetSubs(s, [subs[s] EXCEPT
            !.type = type,
            !.last = IF subs[s].enable /\ type = "ValueChange" /\ subs[s].type # type
                     THEN CurrentValues(subs[s].refs) ELSE @])

NotifyChange_SubsRefList(s, refs) ==
    /\ Suits(refs, subs[s].type)
    /\ SetSubs(s, [subs[s] EXCEPT !.refs = refs])

NotifyChange_NotifRetry(s) == SetSubs(s, [subs[s] EXCEPT !.retry = ~@])
NotifyChange_NotifExpiration(s, period) == SetSubs(s, [subs[s] EXCEPT !.period = period])

(* A new TimeToLive: `left' is the lifetime it leaves from now on.         *)
NotifyChange_SubsTimeToLive(s, left) == SetSubs(s, [subs[s] EXCEPT !.expiry = left])

(* One that ended before now deletes the subscription. *)
TimeToLiveOver(s) == DelSubs(s)

(* Notify_ControllerEnable and Notify_ControllerDeleted, which deletes the *)
(* controller's subscriptions in the cascaded transaction.                 *)
SetControllerEnable(c) ==
    /\ Handles(AnySlot) /\ Input
    /\ cont[c] # "gone"
    /\ cont' = [cont EXCEPT ![c] = IF @ = "on" THEN "off" ELSE "on"]
    /\ UNCHANGED <<subs, val, objs, retries, first, tm, events, resolved, booted, todo,
                   msgs, alive, watch>>

DeleteController(c) ==
    /\ Handles(AnySlot) /\ Input
    /\ cont[c] # "gone"
    /\ cont' = [cont EXCEPT ![c] = "gone"]
    /\ DeleteSubs({s \in Live : subs[s].cont = c})
    /\ UNCHANGED <<val, objs, events, booted, todo, msgs, alive, watch>>

(* Objects come and go through transactions, and through                   *)
(* DATA_MODEL_NotifyInstanceAdded and NotifyInstanceDeleted.  A deletion   *)
(* that is aborted has resolved the paths, too.                            *)
AddObject(o) ==
    /\ Handles(AnySlot) /\ Input
    /\ o \notin objs
    /\ objs' = objs \cup {o}
    /\ events' = events \cup {[obj |-> o, type |-> "ObjectCreation"]}
    /\ UNCHANGED <<cont, subs, val, retries, first, tm, resolved, booted, todo, msgs, alive, watch>>

DeleteObject(o, committed) ==
    /\ Handles(AnySlot) /\ Input
    /\ o \in objs
    /\ subs' = ResolveDeletions(subs)
    /\ resolved' = TRUE
    /\ IF committed
       THEN /\ objs' = objs \ {o}
            /\ events' = events \cup {[obj |-> o, type |-> "ObjectDeletion"]}
       ELSE UNCHANGED <<objs, events>>
    /\ UNCHANGED <<cont, val, retries, first, tm, booted, todo, msgs, alive, watch>>

(* An event of the vendor layer or of a controller's period. *)
SignalEvent(e) ==
    /\ Handles(AnySlot) /\ Input
    /\ e # BootEvent
    /\ todo' = Subscribers(e, subs)
    /\ UNCHANGED <<cont, subs, val, objs, retries, first, tm, events, resolved, booted, msgs,
                   alive, watch>>

(* SendOnBoardRequest() *)
SendOnBoardRequest(c) ==
    /\ Turn(AnySlot) /\ Input
    /\ cont[c] = "on"
    /\ msgs' = msgs + 1
    /\ wire' = {msgs + 1}
    /\ \E wait \in WaitTimes(1) : SUBS_RETRY_Add(OnBoard, Empty, c, Never, wait)
    /\ UNCHANGED <<cont, subs, val, objs, events, resolved, booted, todo, alive, watch>>

(* MSG_HANDLER_HandleNotifyResp *)
HandleNotifyResp(m) ==
    /\ Handles({"mq"})
    /\ SUBS_RETRY_Remove(m)
    /\ UNCHANGED <<cont, subs, val, objs, events, resolved, booted, todo, msgs, inputs, alive, watch>>

(* DM_EXEC_EnableNotifications, at the first connection to a controller *)
EnableNotifications ==
    /\ Idle /\ phase = "mq" /\ ~booted
    /\ ProcessLifeEvents
    /\ phase' = "enable"
    /\ wire' = {}
    /\ UNCHANGED <<cont, val, objs, retries, first, tm, booted, msgs, inputs, alive, watch>>

(* A parameter of the device changes, at any time. *)
ChangeValue(p, v) ==
    /\ alive /\ Input
    /\ v # val[p]
    /\ val' = [val EXCEPT ![p] = v]
    /\ wire' = {}
    /\ UNCHANGED <<cont, subs, objs, retries, first, tm, events, resolved, booted, phase,
                   todo, msgs, alive, watch>>

(* The process ends and starts again: the tables are read from the         *)
(* database, the rest is lost (SUBS_RETRY_Init, DEVICE_SUBSCRIPTION_Init   *)
(* and _Start).                                                            *)
StartTimers ==
    SYNC_TIMER_Add(SYNC_TIMER_Add(SYNC_TIMER_Init, "SubsRetryExec", Never),
                   "DEVICE_SUBSCRIPTION_Update", Never)

Restart ==
    /\ Input
    /\ subs' = [s \in Subs |-> IF subs[s] = None THEN None ELSE Seeded(subs[s])]
    /\ retries' = {} /\ first' = Never /\ tm' = StartTimers
    /\ events' = {} /\ resolved' = FALSE /\ booted' = FALSE
    /\ phase' = "select" /\ todo' = {} /\ wire' = {} /\ alive' = TRUE
    /\ watch' = {}
    /\ UNCHANGED <<cont, val, objs, msgs>>
-----------------------------------------------------------------------------
Init ==
    /\ cont = [c \in Controllers |-> "on"]
    /\ val = [p \in Params |-> CHOOSE v \in Values : TRUE]      \* one value is like another
    /\ objs = Objects
    /\ \E rows \in Tables :
            subs = [s \in Subs |-> IF rows[s] = None THEN None ELSE Seeded(rows[s])]
    /\ retries = {} /\ first = Never /\ tm = StartTimers
    /\ events = {} /\ resolved = FALSE /\ booted = FALSE
    /\ phase = "select" /\ todo = {} /\ wire = {}
    /\ msgs = 0 /\ inputs = 0 /\ alive = TRUE /\ watch = {}

Send == \E n \in todo : SendNotify(n)
TimerStep == SubsRetryExec \/ UpdateStart \/ UpdatePoll \/ UpdateRearm
Round == Wake \/ EndTimers \/ ProcessEvents \/ NoActivity

Administer ==
    \/ \E s \in Subs : \/ \E sub \in Offers : AddSubs(s, sub)
                       \/ DelSubs(s) \/ TimeToLiveOver(s)
    \/ \E s \in Live : \/ NotifyChange_SubsEnable(s)
                       \/ \E type \in Types : NotifyChange_NotifyType(s, type)
                       \/ \E refs \in SUBSET Paths : NotifyChange_SubsRefList(s, refs)
                       \/ NotifyChange_NotifRetry(s)
                       \/ \E period \in Periods : NotifyChange_NotifExpiration(s, period)
                       \/ \E sub \in Offers : NotifyChange_SubsTimeToLive(s, sub.expiry)
    \/ \E c \in Controllers : SetControllerEnable(c) \/ DeleteController(c)

Environment ==
    \/ \E o \in Objects : AddObject(o) \/ \E committed \in BOOLEAN : DeleteObject(o, committed)
    \/ \E e \in Events : SignalEvent(e)
    \/ \E c \in OnBoarding : SendOnBoardRequest(c)
    \/ \E m \in 1..msgs : HandleNotifyResp(m)
    \/ EnableNotifications
    \/ \E p \in Params, v \in Values : ChangeValue(p, v)

Next == Send \/ TimerStep \/ Round \/ Tick \/ Administer \/ Environment \/ Restart

(* The loop of the DM thread keeps turning, and the clock keeps running;   *)
(* nothing is assumed of the controllers and the network.                  *)
Fairness ==
    /\ WF_vars(Send) /\ WF_vars(TimerStep) /\ WF_vars(Round)
    /\ SF_vars(Tick)

Spec == Init /\ [][Next]_vars
FairSpec == Spec /\ Fairness
-----------------------------------------------------------------------------
(* The variables have their types. *)
TypeOK ==
    /\ cont \in [Controllers -> {"on", "off", "gone"}]
    /\ subs \in [Subs -> Sub \cup {None}]
    /\ val \in [Params -> Values] /\ objs \subseteq Objects
    /\ retries \subseteq Entry /\ first \in Times /\ tm \in TimerVector
    /\ events \subseteq [obj: Objects, type: LifeEvents]
    /\ resolved \in BOOLEAN /\ booted \in BOOLEAN /\ alive \in BOOLEAN
    /\ phase \in Phases /\ todo \subseteq Call /\ msgs \in Nat /\ wire \subseteq 1..msgs
    /\ inputs \in 0..MaxInputs
    /\ watch \subseteq Subs \X Objects

(* Whenever the thread sleeps, the retry timer is enabled for the first    *)
(* retry time, no retry is to be made before that, and the thread wakes    *)
(* for it.  subs_retry.c sets the timer again in each of its functions.    *)
RetryTimerArmed ==
    phase = "select" =>
        /\ "SubsRetryExec" \in tm.on /\ tm.at["SubsRetryExec"] = first
        /\ \A e \in retries : first <= e.next
        /\ FirstIsEarliest(tm)

(* A retry belongs to a subscription that exists, and goes to its          *)
(* controller; there is one for a path of a subscription, and one for a    *)
(* message (FindRetryEntry, SUBS_RETRY_Delete from NotifySubsDeleted).     *)
RetriesOwned ==
    /\ \A e \in retries :
          e.inst # OnBoard => subs[e.inst] # None /\ subs[e.inst].cont = e.cont
    /\ \A e, f \in retries :
          Matches(e, f.inst, f.path) \/ e.msg = f.msg => e = f

(* USP_ASSERT(cur_time >= first_retry_time) in SubsRetryExec holds. *)
AssertionsHold == alive

(* An object that was there when the round began, and that an enabled      *)
(* subscription to deletions covered then and still covers, does not go    *)
(* without a notification, although the paths are resolved only once in a  *)
(* round, when a timer, a message or an aborted deletion comes first.      *)
DeletionNotified ==
    [][\A ev \in events, s \in Subs :
          events' = {} /\ inputs' = inputs /\ ev.type = "ObjectDeletion"
            /\ <<s, ev.obj>> \in watch /\ Active(s, "ObjectDeletion")
            /\ ev.obj \in subs[s].refs
          => [inst |-> s, path |-> ev.obj] \in todo']_vars

(* A value seen last gives way to another one only with a call of          *)
(* SendNotify for the change: no poll, no other change of the subscription *)
(* and no message takes a new value as seen without one                    *)
(* (ProcessValueChangeSubscription replaces them all after it has compared *)
(* them).  A restart does.                                                 *)
SeenIsReported ==
    [][\A s \in Subs, p \in Params :
          /\ Polled(s, subs) /\ p \in subs[s].refs /\ subs[s].last[p] # NoValue
          /\ subs'[s] # None /\ subs'[s].last[p] # subs[s].last[p]
          /\ ~Restart
          => [inst |-> s, path |-> p] \in todo']_vars

(* An on-board request is retried until a response to it is received       *)
(* (device_controller.c:1674): another request does not take its place,    *)
(* unless it goes to the same controller.                                  *)
OnBoardKept ==
    [][\A e \in retries :
          e.inst = OnBoard /\ msgs' # msgs
          => \E f \in retries' : f.inst = OnBoard /\ f.cont = e.cont]_vars

(* The retries implement the board. *)
Board == INSTANCE NotifyBoard WITH
    Keys <- [inst: Subs \cup {OnBoard}, path: Paths, cont: Controllers],
    board <- {[key |-> [inst |-> e.inst, path |-> e.path, cont |-> e.cont],
               msg |-> e.msg, forever |-> e.expiry = Never] : e \in retries},
    out <- wire, made <- msgs

BoardKept == Board!Spec

(* A notification that waits for its response is retried again and again,  *)
(* or leaves the vector for good.  MaxMsgs bounds the notifications of an  *)
(* instance in which an input leads to one of each subscription at most.   *)
MaxMsgs == MaxInputs * Cardinality(Subs) + Cardinality(Subs)
RetriedNow(m) ==
    \E e \in retries : e.msg = m /\ e.next = 0 /\ \E f \in retries' : f.msg = m /\ f.next > 0
RetriesGoOn ==
    \A m \in 1..MaxMsgs :
        <>[](\A e \in retries : e.msg # m) \/ []<><<RetriedNow(m)>>_vars

(* A value that an enabled subscription watches, and that differs from the *)
(* value v seen last, is reported, whatever was polled in the meantime,    *)
(* unless it becomes v again or the subscription no longer watches it      *)
(* (DEVICE_SUBSCRIPTION_Update arms its own timer).                        *)
DiffersFrom(s, p, v) == Polled(s, subs) /\ booted /\ p \in subs[s].refs /\ val[p] # v
ChangeReported ==
    \A s \in Subs, p \in Params, v \in Values :
        DiffersFrom(s, p, v) /\ subs[s].last[p] = v
            ~> [inst |-> s, path |-> p] \in todo \/ ~DiffersFrom(s, p, v)
=============================================================================
