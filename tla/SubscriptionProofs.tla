------------------------- MODULE SubscriptionProofs -------------------------
(***************************************************************************)
(* Proofs about Subscription: for every number of controllers and          *)
(* subscriptions, every offer and every table, and without a bound on the  *)
(* notifications.                                                          *)
(*                                                                         *)
(* RetryTimerArmed is about the moments at which the thread sleeps.  Inv   *)
(* says what the timers and the first retry time are while it works, whom  *)
(* the calls of SendNotify and the retries belong to, and, slot by slot of *)
(* the loop, which objects watched for deletion are still there or have    *)
(* been resolved.                                                          *)
(***************************************************************************)
EXTENDS Subscription, WellFoundedInduction, TLAPS

(* The retry timer is always registered, enabled and set for the first     *)
(* retry time, which is that of the vector.  The earliest time of the      *)
(* timers is out of date only while DEVICE_SUBSCRIPTION_Update runs.       *)
TimerSet(r, f, t) ==
    /\ t.reg = Timers
    /\ "SubsRetryExec" \in t.on /\ t.at["SubsRetryExec"] = f
    /\ f = FirstOf(r)

TimerKept ==
    /\ TimerSet(retries, first, tm)
    /\ phase \notin {"poll", "rearm"} => FirstIsEarliest(tm)

(* A call of SendNotify finds its subscription; a retry is of a message    *)
(* that was made; an on-board request has no path.                         *)
CallsOwned == \A n \in todo : subs[n.inst] # None
RetriesMade ==
    \A e \in retries :
        /\ e.msg <= msgs
        /\ e.inst = OnBoard => e.path = Empty /\ e.cont \in OnBoarding

(* Until a message is handled, what is watched is there or resolved, and   *)
(* the subscription has not changed.                                       *)
Early == {"timers", "mq", "enable", "poll", "rearm"}
Deletion(o) == [obj |-> o, type |-> "ObjectDeletion"]

StillWatched(s, o) ==
    subs[s] # None =>
        /\ Active(s, "ObjectDeletion") /\ o \in subs[s].refs \cap objs
        /\ resolved => o \in subs[s].resolved

(* After a message: the subscription may have changed since. *)
WatchedOrThere(s, o) ==
    subs[s] # None => o \in (IF resolved THEN subs[s].resolved ELSE objs)

(* When the events are sent: what matters has been resolved. *)
ResolvedInTime(s, o) ==
    Active(s, "ObjectDeletion") /\ o \in subs[s].refs /\ Deletion(o) \in events
        => o \in subs[s].resolved

DeletionKept ==
    /\ phase = "select" => watch = {} /\ ~resolved
    /\ phase \notin {"cli", "events"} => events = {}
    /\ phase \in Early => \A w \in watch : StillWatched(w[1], w[2])
    /\ phase = "cli" => /\ \A w \in watch : WatchedOrThere(w[1], w[2])
                        /\ ~resolved => \A o \in Objects : Deletion(o) \notin events
    /\ phase = "events" => \A w \in watch : ResolvedInTime(w[1], w[2])

Inv ==
    /\ TypeOK /\ TimerKept /\ CallsOwned /\ RetriesMade /\ RetriesOwned /\ DeletionKept
    /\ alive

-----------------------------------------------------------------------------
(* The least element, and the passing of time.                             *)

(* A set of natural numbers that is not empty has a least element.         *)
LEMMA MinNat ==
    ASSUME NEW S \in SUBSET Nat, S # {}
    PROVE  Min(S) \in S /\ \A y \in S : Min(S) <= y
<1>1. PICK x \in S : \A y \in S : <<y, x>> \notin OpToRel(<, Nat)
    BY NatLessThanWellFounded, WFMin
<1>2. \A y \in Nat : y < x => <<y, x>> \in OpToRel(<, Nat)
    BY Zenon DEF OpToRel
<1>3. \A y \in S : ~(y < x)
    BY <1>1, <1>2, Zenon
<1>4. \A y \in S : x <= y
    BY <1>3
<1> QED
    BY <1>4 DEF Min

(* There is only one. *)
LEMMA MinIs ==
    ASSUME NEW S \in SUBSET Nat, NEW x \in S, \A y \in S : x <= y
    PROVE  Min(S) = x
<1>1. Min(S) \in S /\ Min(S) <= x
    BY MinNat
<1>2. x <= Min(S)
    BY <1>1
<1>3. x \in Nat /\ Min(S) \in Nat
    BY <1>1
<1> QED
    BY <1>1, <1>2, <1>3

(* Time passes for all alike: the earliest stays the earliest.             *)
LEMMA SoonerFacts ==
    ASSUME NEW x \in Times, NEW y \in Times
    PROVE  /\ Sooner(x) \in Times
           /\ x <= y => Sooner(x) <= Sooner(y)
           /\ Sooner(x) = Never <=> x = Never
           /\ Sooner(Never) = Never
BY NeverAssumption DEF Sooner, Times

LEMMA MinSooner ==
    ASSUME NEW S \in SUBSET Times, S # {}
    PROVE  Min({Sooner(x) : x \in S}) = Sooner(Min(S))
<1> DEFINE T == {Sooner(x) : x \in S}
<1>1. S \in SUBSET Nat
    BY NeverAssumption DEF Times
<1>2. Min(S) \in S /\ \A y \in S : Min(S) <= y
    BY <1>1, MinNat
<1>3. T \in SUBSET Nat
    BY SoonerFacts, NeverAssumption DEF Times
<1>4. Sooner(Min(S)) \in T
    BY <1>2
<1>5. \A y \in T : Sooner(Min(S)) <= y
    BY <1>2, SoonerFacts
<1> QED
    BY <1>3, <1>4, <1>5, MinIs

(* UpdateFirstRetryTime: the time it finds is that of an entry, or that    *)
(* there is none, and no entry is earlier.                                 *)
LEMMA FirstOfFacts ==
    ASSUME NEW E \in SUBSET Entry
    PROVE  /\ FirstOf(E) \in Times
           /\ \A e \in E : FirstOf(E) <= e.next
           /\ FirstOf({[e EXCEPT !.next = Sooner(@), !.expiry = Sooner(@)] : e \in E})
                = Sooner(FirstOf(E))
<1> DEFINE S == {e.next : e \in E} \cup {Never}
           G == {[e EXCEPT !.next = Sooner(@), !.expiry = Sooner(@)] : e \in E}
<1>1. S \in SUBSET Times /\ S # {} /\ S \in SUBSET Nat
    BY NeverAssumption DEF Times, Entry
<1>2. Min(S) \in S /\ \A y \in S : Min(S) <= y
    BY <1>1, MinNat
<1>3. {e.next : e \in G} \cup {Never} = {Sooner(x) : x \in S}
  <2>1. \A e \in E : [e EXCEPT !.next = Sooner(@), !.expiry = Sooner(@)].next = Sooner(e.next)
    BY DEF Entry
  <2>2. Sooner(Never) = Never
    BY DEF Sooner
  <2>3. {e.next : e \in G} = {Sooner(e.next) : e \in E}
    BY <2>1
  <2>4. {Sooner(x) : x \in S} = {Sooner(e.next) : e \in E} \cup {Never}
    BY <2>2
  <2> QED
    BY <2>3, <2>4
<1>4. FirstOf(E) = Min(S) /\ FirstOf(G) = Min({Sooner(x) : x \in S})
    BY <1>3 DEF FirstOf
<1>5. FirstOf(G) = Sooner(FirstOf(E))
    BY <1>1, <1>4, MinSooner
<1> QED
    BY <1>1, <1>2, <1>4, <1>5

(* UpdateFirstSyncTimerTime: it depends on which timers are enabled and    *)
(* on their times only.                                                    *)
LEMMA EarliestFacts ==
    ASSUME NEW t \in TimerVector
    PROVE  /\ Earliest(t) \in Times
           /\ \A k \in t.on : Earliest(t) <= t.at[k]
           /\ UpdateFirst(t) \in TimerVector
           /\ UpdateFirst(t) = [t EXCEPT !.first = Earliest(t)]
           /\ FirstIsEarliest(UpdateFirst(t))
<1> DEFINE S == {t.at[k] : k \in t.on} \cup {Never}
<1>1. S \in SUBSET Times /\ S # {} /\ S \in SUBSET Nat
    BY NeverAssumption DEF Times, TimerVector
<1>2. Min(S) \in S /\ \A y \in S : Min(S) <= y
    BY <1>1, MinNat
<1>3. Earliest(t) \in Times /\ \A k \in t.on : Earliest(t) <= t.at[k]
    BY <1>1, <1>2 DEF Earliest
<1>4. UpdateFirst(t) \in TimerVector
    BY <1>3 DEF UpdateFirst, TimerVector
<1>5. UpdateFirst(t).on = t.on /\ UpdateFirst(t).at = t.at /\ UpdateFirst(t).first = Earliest(t)
    BY DEF UpdateFirst, TimerVector
<1>6. Earliest(UpdateFirst(t)) = Earliest(t)
    BY <1>5 DEF Earliest
<1> QED
    BY <1>3, <1>4, <1>5, <1>6 DEF UpdateFirst, FirstIsEarliest

(* SYNC_TIMER_Reload of a registered timer.                                *)
LEMMA ReloadFacts ==
    ASSUME NEW t \in TimerVector, t.reg = Timers, NEW k \in Timers, NEW f \in Times,
           NEW r, r = SYNC_TIMER_Reload(t, k, f)
    PROVE  /\ r \in TimerVector
           /\ r.reg = Timers /\ r.on = t.on \cup {k} /\ r.at = [t.at EXCEPT ![k] = f]
           /\ FirstIsEarliest(r)
<1> DEFINE u == [t EXCEPT !.on = @ \cup {k}, !.at[k] = f]
<1>1. u \in TimerVector
    BY DEF TimerVector
<1>2. u.reg = Timers /\ u.on = t.on \cup {k} /\ u.at = [t.at EXCEPT ![k] = f]
    BY DEF TimerVector
<1>3. r = UpdateFirst(u)
    BY DEF SYNC_TIMER_Reload
<1>4. r \in TimerVector /\ r = [u EXCEPT !.first = Earliest(u)] /\ FirstIsEarliest(r)
    BY <1>1, <1>3, EarliestFacts
<1>5. r.reg = u.reg /\ r.on = u.on /\ r.at = u.at
    BY <1>1, <1>4 DEF TimerVector
<1> QED
    BY <1>2, <1>4, <1>5

(* SYNC_TIMER_Execute disables a timer before it calls it.                 *)
LEMMA FireFacts ==
    ASSUME NEW t \in TimerVector, NEW k \in Timers
    PROVE  /\ Fire(t, k) \in TimerVector
           /\ Fire(t, k).reg = t.reg /\ Fire(t, k).on = t.on \ {k} /\ Fire(t, k).at = t.at
BY DEF Fire, TimerVector

(* A second passes: the cached time stays the earliest.                    *)
LEMMA ElapseFacts ==
    ASSUME NEW t \in TimerVector
    PROVE  /\ Elapse(t) \in TimerVector
           /\ Elapse(t).reg = t.reg /\ Elapse(t).on = t.on
           /\ \A k \in Timers : Elapse(t).at[k] = Sooner(t.at[k])
           /\ FirstIsEarliest(t) => FirstIsEarliest(Elapse(t))
<1> DEFINE S == {t.at[k] : k \in t.on} \cup {Never}
           r == Elapse(t)
<1>1. /\ t.on \in SUBSET Timers /\ t.first \in Times
      /\ \A k \in Timers : t.at[k] \in Times
    BY DEF TimerVector
<1>2. \A x \in Times : Sooner(x) \in Times
    BY SoonerFacts
<1>3. /\ r.reg = t.reg /\ r.on = t.on /\ r.first = Sooner(t.first)
      /\ r.at = [k \in Timers |-> Sooner(t.at[k])]
    BY DEF Elapse, TimerVector
<1>4. [k \in Timers |-> Sooner(t.at[k])] \in [Timers -> Times] /\ Sooner(t.first) \in Times
    BY <1>1, <1>2
<1>5. r \in TimerVector
    BY <1>4 DEF Elapse, TimerVector
<1>6. S \in SUBSET Times /\ S # {}
    BY <1>1, NeverAssumption DEF Times
<1>7. {r.at[k] : k \in r.on} \cup {Never} = {Sooner(x) : x \in S}
  <2>1. Sooner(Never) = Never
    BY DEF Sooner
  <2>2. \A k \in t.on : r.at[k] = Sooner(t.at[k])
    BY <1>1, <1>3
  <2> QED
    BY <1>3, <2>1, <2>2
<1>8. Earliest(r) = Sooner(Earliest(t))
    BY <1>6, <1>7, MinSooner DEF Earliest
<1> QED
    BY <1>3, <1>5, <1>8 DEF FirstIsEarliest

-----------------------------------------------------------------------------
(* The vector of retries.                                                  *)

RetriesFine ==
    retries \in SUBSET Entry /\ first \in Times /\ tm \in TimerVector
        /\ TimerSet(retries, first, tm)

LEMMA RetryTimer == "SubsRetryExec" \in Timers /\ "DEVICE_SUBSCRIPTION_Update" \in Timers
BY SubscriptionAssumption

(* UpdateFirstRetryTime sets first_retry_time and the timer together.      *)
LEMMA UpdateFirstRetryTimeSets ==
    ASSUME NEW t \in TimerVector, t.reg = Timers, retries' \in SUBSET Entry,
           UpdateFirstRetryTime(t)
    PROVE  RetriesFine' /\ FirstIsEarliest(tm)'
<1>1. first' = FirstOf(retries') /\ first' \in Times
    BY FirstOfFacts DEF UpdateFirstRetryTime
<1>2. tm' = SYNC_TIMER_Reload(t, "SubsRetryExec", first')
    BY DEF UpdateFirstRetryTime
<1>3. /\ tm' \in TimerVector /\ tm'.reg = Timers /\ FirstIsEarliest(tm')
      /\ tm'.on = t.on \cup {"SubsRetryExec"}
      /\ tm'.at = [t.at EXCEPT !["SubsRetryExec"] = first']
    BY <1>1, <1>2, ReloadFacts, RetryTimer
<1>4. tm'.at["SubsRetryExec"] = first'
    BY <1>3, RetryTimer DEF TimerVector
<1> QED
    BY <1>1, <1>3, <1>4 DEF RetriesFine, TimerSet, FirstIsEarliest

(* SUBS_RETRY_Add keeps one entry for a subscription and a path.           *)
LEMMA AddKeeps ==
    ASSUME RetriesFine, msgs \in Nat,
           NEW inst \in Subs \cup {OnBoard}, NEW path \in Paths, NEW c \in Controllers,
           NEW expiry \in Times, NEW wait \in Times,
           SUBS_RETRY_Add(inst, path, c, expiry, wait)
    PROVE  /\ RetriesFine' /\ FirstIsEarliest(tm)'
           /\ retries' = {e \in retries : ~Matches(e, inst, path)}
                \cup {[inst |-> inst, path |-> path, cont |-> c, msg |-> msgs + 1,
                       count |-> 1, next |-> wait, expiry |-> expiry]}
<1>1. retries' = {e \in retries : ~Matches(e, inst, path)}
                \cup {[inst |-> inst, path |-> path, cont |-> c, msg |-> msgs + 1,
                       count |-> 1, next |-> wait, expiry |-> expiry]}
    BY DEF SUBS_RETRY_Add
<1>2. [inst |-> inst, path |-> path, cont |-> c, msg |-> msgs + 1,
       count |-> 1, next |-> wait, expiry |-> expiry] \in Entry
    BY SubscriptionAssumption DEF Entry
<1>3. retries' \in SUBSET Entry
    BY <1>1, <1>2 DEF RetriesFine
<1>4. tm \in TimerVector /\ tm.reg = Timers /\ UpdateFirstRetryTime(tm)
    BY DEF RetriesFine, TimerSet, SUBS_RETRY_Add
<1> QED
    BY <1>1, <1>3, <1>4, UpdateFirstRetryTimeSets

(* SUBS_RETRY_Remove *)
LEMMA RemoveKeeps ==
    ASSUME RetriesFine, NEW m, SUBS_RETRY_Remove(m)
    PROVE  /\ RetriesFine' /\ (FirstIsEarliest(tm) => FirstIsEarliest(tm)')
           /\ retries' = {e \in retries : e.msg # m}
<1>1. CASE \A e \in retries : e.msg # m
  <2>1. retries' = retries /\ first' = first /\ tm' = tm
    BY <1>1 DEF SUBS_RETRY_Remove
  <2>2. retries' = {e \in retries : e.msg # m}
    BY <1>1, <2>1
  <2> QED
    BY <2>1, <2>2 DEF RetriesFine, TimerSet, FirstIsEarliest
<1>2. CASE ~(\A e \in retries : e.msg # m)
  <2>1. retries' = {e \in retries : e.msg # m} /\ UpdateFirstRetryTime(tm)
    BY <1>2 DEF SUBS_RETRY_Remove
  <2>2. retries' \in SUBSET Entry /\ tm \in TimerVector /\ tm.reg = Timers
    BY <2>1 DEF RetriesFine, TimerSet
  <2> QED
    BY <2>1, <2>2, UpdateFirstRetryTimeSets
<1> QED
    BY <1>1, <1>2

(* SUBS_RETRY_Delete *)
LEMMA DeleteKeeps ==
    ASSUME RetriesFine, NEW S, NEW t \in TimerVector, t.reg = Timers,
           "SubsRetryExec" \in t.on, t.at["SubsRetryExec"] = first,
           SUBS_RETRY_Delete(S, t)
    PROVE  /\ RetriesFine' /\ (FirstIsEarliest(t) => FirstIsEarliest(tm)')
           /\ retries' = {e \in retries : e.inst \notin S}
<1>1. CASE S = {}
  <2>1. retries' = retries /\ first' = first /\ tm' = t
    BY <1>1 DEF SUBS_RETRY_Delete
  <2>2. retries' = {e \in retries : e.inst \notin S}
    BY <1>1, <2>1
  <2> QED
    BY <2>1, <2>2 DEF RetriesFine, TimerSet, FirstIsEarliest
<1>2. CASE S # {}
  <2>1. retries' = {e \in retries : e.inst \notin S} /\ UpdateFirstRetryTime(t)
    BY <1>2 DEF SUBS_RETRY_Delete
  <2>2. retries' \in SUBSET Entry
    BY <2>1 DEF RetriesFine
  <2> QED
    BY <2>1, <2>2, UpdateFirstRetryTimeSets
<1> QED
    BY <1>1, <1>2

(* What is left of the vector is owned as before.                          *)
LEMMA FewerOwned ==
    ASSUME RetriesFine, RetriesOwned, RetriesMade, retries' \subseteq retries,
           msgs \in Nat, msgs' \in Nat, msgs <= msgs',
           \A e \in retries' : e.inst # OnBoard =>
                subs'[e.inst] # None /\ subs'[e.inst].cont = subs[e.inst].cont
    PROVE  RetriesOwned' /\ RetriesMade'
<1>1. \A e \in retries : e.msg \in Nat
    BY DEF RetriesFine, Entry
<1>2. RetriesOwned'
    BY DEF RetriesOwned, Matches
<1>3. RetriesMade'
    BY <1>1 DEF RetriesMade
<1> QED
    BY <1>2, <1>3
-----------------------------------------------------------------------------
(* The subscriptions.                                                      *)

SubTypeOK == subs \in [Subs -> Sub \cup {None}]

(* The same subscription, but for what is cached with it.                  *)
Alike(a, b) == a.cont = b.cont /\ a.enable = b.enable /\ a.type = b.type /\ a.refs = b.refs

(* ResolveDeletions changes only what is resolved. *)
LEMMA ResolveFacts ==
    ASSUME SubTypeOK, objs \subseteq Objects, NEW R, R = ResolveDeletions(subs)
    PROVE  /\ R \in [Subs -> Sub \cup {None}]
           /\ \A s \in Subs :
                /\ R[s] = None <=> subs[s] = None
                /\ subs[s] # None =>
                    /\ Alike(R[s], subs[s])
                    /\ R[s].resolved = IF ~resolved /\ Active(s, "ObjectDeletion")
                                       THEN subs[s].refs \cap objs ELSE subs[s].resolved
<1>1. R = [s \in Subs |-> IF ~resolved /\ Active(s, "ObjectDeletion")
                    THEN [subs[s] EXCEPT !.resolved = subs[s].refs \cap objs] ELSE subs[s]]
    BY DEF ResolveDeletions
<1>2. SUFFICES ASSUME NEW s \in Subs
      PROVE  /\ R[s] \in Sub \cup {None}
             /\ R[s] = None <=> subs[s] = None
             /\ subs[s] # None =>
                    /\ Alike(R[s], subs[s])
                    /\ R[s].resolved = IF ~resolved /\ Active(s, "ObjectDeletion")
                                       THEN subs[s].refs \cap objs ELSE subs[s].resolved
    BY <1>1
<1>3. subs[s] \in Sub \cup {None}
    BY DEF SubTypeOK
<1>4. CASE ~resolved /\ Active(s, "ObjectDeletion")
  <2>1. subs[s] # None /\ subs[s] \in Sub
    BY <1>3, <1>4 DEF Active
  <2>2. R[s] = [subs[s] EXCEPT !.resolved = subs[s].refs \cap objs]
    BY <1>1, <1>4
  <2>3. R[s] \in Sub /\ Alike(R[s], subs[s]) /\ R[s].resolved = subs[s].refs \cap objs
    BY <2>1, <2>2 DEF Sub, Alike
  <2> QED
    BY <1>4, <2>1, <2>3, SubscriptionAssumption
<1>5. CASE ~(~resolved /\ Active(s, "ObjectDeletion"))
  <2>1. R[s] = subs[s]
    BY <1>1, <1>5
  <2> QED
    BY <1>3, <1>5, <2>1 DEF Alike
<1> QED
    BY <1>4, <1>5

LEMMA WithoutSubsFacts ==
    ASSUME SubTypeOK, objs \subseteq Objects, NEW S \in SUBSET Subs, NEW R, R = WithoutSubs(S)
    PROVE  /\ R \in [Subs -> Sub \cup {None}]
           /\ \A s \in S : R[s] = None
           /\ \A s \in Subs \ S :
                /\ R[s] = None <=> subs[s] = None
                /\ subs[s] # None =>
                    /\ Alike(R[s], subs[s])
                    /\ R[s].resolved = IF S # {} /\ ~resolved /\ Active(s, "ObjectDeletion")
                                       THEN subs[s].refs \cap objs ELSE subs[s].resolved
<1> DEFINE Q == IF S = {} THEN subs ELSE ResolveDeletions(subs)
<1>1. R = [s \in Subs |-> IF s \in S THEN None ELSE Q[s]]
    BY DEF WithoutSubs
<1>2. /\ Q \in [Subs -> Sub \cup {None}]
      /\ \A s \in Subs :
                /\ Q[s] = None <=> subs[s] = None
                /\ subs[s] # None =>
                    /\ Alike(Q[s], subs[s])
                    /\ Q[s].resolved = IF S # {} /\ ~resolved /\ Active(s, "ObjectDeletion")
                                       THEN subs[s].refs \cap objs ELSE subs[s].resolved
  <2>1. CASE S = {}
    BY <2>1 DEF SubTypeOK, Alike
  <2>2. CASE S # {}
    BY <2>2, ResolveFacts
  <2> QED
    BY <2>1, <2>2
<1> HIDE DEF Q
<1> QED
    BY <1>1, <1>2

-----------------------------------------------------------------------------
(* The calls of SendNotify.                                                *)

LEMMA WaitsEnd ==
    \A n \in 1..(RetryCap + 1) : \A wait \in WaitTimes(n) : wait \in Times /\ wait < Never
BY WaitAssumption, NeverAssumption DEF Times

LEMMA ShortestWaits == \A wait \in WaitTimes(1) : wait \in Times /\ wait < Never
<1>1. 1 \in 1..(RetryCap + 1)
    BY SubscriptionAssumption
<1> QED
    BY <1>1, WaitsEnd

LEMMA ExpiryTime ==
    ASSUME NEW sub \in Sub
    PROVE  Expiry(sub) \in Times
<1>1. Periods \subseteq 0..(Never - 1)
    BY SubscriptionAssumption
<1>2. sub.period \in Periods
    BY DEF Sub
<1>3. Never \in Times /\ \A x \in Periods : x \in Times
    BY <1>1, NeverAssumption DEF Times
<1> QED
    BY <1>2, <1>3 DEF Expiry

LEMMA DeletionUnchanged ==
    ASSUME DeletionKept, UNCHANGED <<phase, events, watch, subs, objs, resolved>>
    PROVE  DeletionKept'
BY DEF DeletionKept, StillWatched, WatchedOrThere, ResolvedInTime, Active

(* The entry that SUBS_RETRY_Add makes belongs to the caller, and no other *)
(* has its path or its message.                                            *)
LEMMA AddOwned ==
    ASSUME RetriesFine, RetriesOwned, RetriesMade, msgs \in Nat, msgs' = msgs + 1, subs' = subs,
           NEW inst \in Subs \cup {OnBoard}, NEW path \in Paths, NEW c \in Controllers,
           NEW expiry \in Times, NEW wait \in Times,
           retries' = {e \in retries : ~Matches(e, inst, path)}
                \cup {[inst |-> inst, path |-> path, cont |-> c, msg |-> msgs + 1,
                       count |-> 1, next |-> wait, expiry |-> expiry]},
           inst # OnBoard => subs[inst] # None /\ subs[inst].cont = c,
           inst = OnBoard => path = Empty /\ c \in OnBoarding
    PROVE  RetriesOwned' /\ RetriesMade'
<1> DEFINE new == [inst |-> inst, path |-> path, cont |-> c, msg |-> msgs + 1,
                   count |-> 1, next |-> wait, expiry |-> expiry]
<1>1. new.inst = inst /\ new.path = path /\ new.cont = c /\ new.msg = msgs + 1
    OBVIOUS
<1>2. retries' = {e \in retries : ~Matches(e, inst, path)} \cup {new}
    OBVIOUS
<1> HIDE DEF new
<1>3. \A e \in retries : e.msg \in Nat /\ e.msg <= msgs
    BY DEF RetriesFine, RetriesMade, Entry
<1>4. \A e \in retries' : e.inst # OnBoard => subs'[e.inst] # None /\ subs'[e.inst].cont = e.cont
    BY <1>1, <1>2 DEF RetriesOwned
<1>5. \A e, f \in retries' : Matches(e, f.inst, f.path) \/ e.msg = f.msg => e = f
  <2> SUFFICES ASSUME NEW e \in retries', NEW f \in retries',
                      Matches(e, f.inst, f.path) \/ e.msg = f.msg
               PROVE  e = f
    OBVIOUS
  <2>1. CASE e \in retries /\ f \in retries
    BY <2>1 DEF RetriesOwned
  <2>2. CASE e = new /\ f \in retries /\ f # new
    BY <1>1, <1>2, <1>3, <2>2 DEF Matches
  <2>3. CASE f = new /\ e \in retries /\ e # new
    BY <1>1, <1>2, <1>3, <2>3 DEF Matches
  <2> QED
    BY <1>2, <2>1, <2>2, <2>3
<1>6. RetriesMade'
    BY <1>1, <1>2, <1>3 DEF RetriesMade
<1> QED
    BY <1>4, <1>5, <1>6 DEF RetriesOwned

LEMMA FineFromInv ==
    ASSUME Inv
    PROVE  RetriesFine /\ SubTypeOK /\ msgs \in Nat
BY DEF Inv, TypeOK, TimerKept, RetriesFine, SubTypeOK

(* SendNotify *)
LEMMA SendNotifyKeeps ==
    ASSUME Inv, NEW n \in todo, SendNotify(n)
    PROVE  Inv'
<1> DEFINE sub == subs[n.inst]
<1>1. RetriesFine /\ SubTypeOK /\ msgs \in Nat
    BY FineFromInv
<1>2. n \in Call /\ n.inst \in Subs /\ n.path \in Paths /\ n.inst # OnBoard
    BY SubscriptionAssumption DEF Inv, TypeOK, Call
<1>3. sub # None /\ sub \in Sub /\ sub.cont \in Controllers
    BY <1>1, <1>2 DEF Inv, CallsOwned, SubTypeOK, Sub
<1>4. /\ UNCHANGED <<cont, subs, val, objs, events, resolved, booted, phase, inputs, alive, watch>>
      /\ todo' = todo \ {n}
    BY DEF SendNotify
<1>5. /\ RetriesFine' /\ RetriesOwned' /\ RetriesMade' /\ (FirstIsEarliest(tm) => FirstIsEarliest(tm)')
      /\ msgs' \in Nat /\ wire' \subseteq 1..msgs'
  <2>1. CASE cont[sub.cont] # "on"
    <3>1. wire' = {} /\ msgs' = msgs /\ retries' = retries /\ first' = first /\ tm' = tm
      BY <2>1 DEF SendNotify
    <3>2. RetriesFine' /\ (FirstIsEarliest(tm) => FirstIsEarliest(tm)')
      BY <1>1, <3>1 DEF RetriesFine, TimerSet, FirstIsEarliest
    <3>3. RetriesOwned' /\ RetriesMade'
      BY <1>4, <3>1 DEF Inv, RetriesOwned, RetriesMade, Matches
    <3> QED
      BY <1>1, <3>1, <3>2, <3>3
  <2>2. CASE cont[sub.cont] = "on" /\ ~sub.retry
    <3>1. wire' = {msgs + 1} /\ msgs' = msgs + 1 /\ retries' = retries /\ first' = first /\ tm' = tm
      BY <2>2 DEF SendNotify
    <3>2. RetriesFine' /\ (FirstIsEarliest(tm) => FirstIsEarliest(tm)')
      BY <1>1, <3>1 DEF RetriesFine, TimerSet, FirstIsEarliest
    <3>3. \A e \in retries' : e.inst # OnBoard =>
                subs'[e.inst] # None /\ subs'[e.inst].cont = subs[e.inst].cont
      BY <1>4, <3>1 DEF Inv, RetriesOwned
    <3>4. RetriesOwned' /\ RetriesMade'
      BY <1>1, <3>1, <3>3, FewerOwned DEF Inv
    <3> QED
      BY <1>1, <3>1, <3>2, <3>4
  <2>3. CASE cont[sub.cont] = "on" /\ sub.retry
    <3>1. wire' = {msgs + 1} /\ msgs' = msgs + 1
      BY <2>3 DEF SendNotify
    <3>2. PICK wait \in WaitTimes(1) : SUBS_RETRY_Add(n.inst, n.path, sub.cont, Expiry(sub), wait)
      BY <2>3 DEF SendNotify
    <3>3. wait \in Times /\ Expiry(sub) \in Times
      BY <1>3, ShortestWaits, ExpiryTime
    <3>4. /\ RetriesFine' /\ FirstIsEarliest(tm)'
          /\ retries' = {e \in retries : ~Matches(e, n.inst, n.path)}
                \cup {[inst |-> n.inst, path |-> n.path, cont |-> sub.cont, msg |-> msgs + 1,
                       count |-> 1, next |-> wait, expiry |-> Expiry(sub)]}
      BY <1>1, <1>2, <1>3, <3>2, <3>3, AddKeeps
    <3>5. RetriesOwned' /\ RetriesMade'
      BY <1>1, <1>2, <1>3, <1>4, <3>1, <3>3, <3>4, AddOwned DEF Inv
    <3> QED
      BY <1>1, <3>1, <3>4, <3>5
  <2> QED
    BY <1>3, <2>1, <2>2, <2>3 DEF Sub
<1>6. TypeOK'
    BY <1>4, <1>5 DEF Inv, TypeOK, RetriesFine
<1>7. TimerKept'
    BY <1>4, <1>5 DEF Inv, TimerKept, RetriesFine
<1>8. DeletionKept'
    BY <1>4, DeletionUnchanged DEF Inv
<1>9. CallsOwned'
    BY <1>4 DEF Inv, CallsOwned
<1> QED
    BY <1>4, <1>5, <1>6, <1>7, <1>8, <1>9 DEF Inv
-----------------------------------------------------------------------------
(* The clock and the timers.                                               *)

(* Entries that only change their times, or leave, are owned as before.    *)
LEMMA ImageOwned ==
    ASSUME RetriesOwned, RetriesMade, NEW D \in SUBSET retries, NEW G \in [D -> Entry],
           retries' = {G[e] : e \in D},
           \A e \in D : G[e].inst = e.inst /\ G[e].path = e.path /\ G[e].cont = e.cont
                        /\ G[e].msg = e.msg,
           msgs' = msgs,
           \A e \in D : e.inst # OnBoard =>
                subs'[e.inst] # None /\ subs'[e.inst].cont = subs[e.inst].cont
    PROVE  RetriesOwned' /\ RetriesMade'
<1>1. \A f \in retries' : \E e \in D : f = G[e]
    OBVIOUS
<1>2. \A f \in retries' : f.inst # OnBoard => subs'[f.inst] # None /\ subs'[f.inst].cont = f.cont
    BY <1>1 DEF RetriesOwned
<1>3. \A f, g \in retries' : Matches(f, g.inst, g.path) \/ f.msg = g.msg => f = g
  <2> SUFFICES ASSUME NEW d \in D, NEW e \in D,
                      Matches(G[d], G[e].inst, G[e].path) \/ G[d].msg = G[e].msg
               PROVE  G[d] = G[e]
    BY <1>1
  <2>1. d \in retries /\ e \in retries /\ (Matches(d, e.inst, e.path) \/ d.msg = e.msg)
    BY DEF Matches
  <2> QED
    BY <2>1 DEF RetriesOwned
<1>4. RetriesMade'
    BY <1>1 DEF RetriesMade
<1> QED
    BY <1>2, <1>3, <1>4 DEF RetriesOwned

Aged(e) == [e EXCEPT !.next = Sooner(@), !.expiry = Sooner(@)]

LEMMA AgedFacts ==
    ASSUME NEW e \in Entry
    PROVE  /\ Aged(e) \in Entry
           /\ Aged(e).inst = e.inst /\ Aged(e).path = e.path /\ Aged(e).cont = e.cont
           /\ Aged(e).msg = e.msg /\ Aged(e).expiry = Sooner(e.expiry)
<1>1. e.next \in Times /\ e.expiry \in Times
    BY DEF Entry
<1>2. Sooner(e.next) \in Times /\ Sooner(e.expiry) \in Times
    BY <1>1, SoonerFacts
<1> QED
    BY <1>2 DEF Aged, Entry

LEMMA TickKeeps ==
    ASSUME Inv, Tick
    PROVE  Inv'
<1>1. RetriesFine /\ SubTypeOK /\ msgs \in Nat
    BY FineFromInv
<1>2. /\ UNCHANGED <<cont, val, objs, events, resolved, booted, phase, todo, msgs, inputs, alive, watch>>
      /\ todo = {} /\ phase = "select" /\ wire' = {} /\ tm' = Elapse(tm) /\ first' = Sooner(first)
    BY DEF Tick, Idle
<1>3. retries' = {Aged(e) : e \in retries}
    BY DEF Tick, Aged
<1>4. retries' \in SUBSET Entry
    BY <1>1, <1>3, AgedFacts DEF RetriesFine
<1>5. /\ tm' \in TimerVector /\ tm'.reg = Timers /\ "SubsRetryExec" \in tm'.on
      /\ tm'.at["SubsRetryExec"] = first'
      /\ FirstIsEarliest(tm) => FirstIsEarliest(tm')
    BY <1>1, <1>2, ElapseFacts, RetryTimer DEF RetriesFine, TimerSet
<1>6. first' \in Times /\ first' = FirstOf(retries')
    BY <1>1, <1>2, FirstOfFacts, SoonerFacts DEF RetriesFine, TimerSet, Tick
<1>7. RetriesFine'
    BY <1>4, <1>5, <1>6 DEF RetriesFine, TimerSet
<1>8. /\ subs' \in [Subs -> Sub \cup {None}]
      /\ \A s \in Subs : subs[s] # None => subs'[s] # None /\ subs'[s].cont = subs[s].cont
  <2>1. subs' = [s \in Subs |-> IF subs[s] = None THEN None
                                ELSE [subs[s] EXCEPT !.expiry = Sooner(@)]]
    BY DEF Tick
  <2>2. ASSUME NEW s \in Subs, subs[s] # None
        PROVE  subs'[s] \in Sub /\ subs'[s].cont = subs[s].cont
    <3>1. subs[s] \in Sub /\ subs[s].expiry \in Times
      BY <1>1, <2>2 DEF SubTypeOK, Sub
    <3>2. Sooner(subs[s].expiry) \in Times
      BY <3>1, SoonerFacts
    <3> QED
      BY <2>1, <2>2, <3>1, <3>2 DEF Sub
  <2>3. None \notin Sub
    BY SubscriptionAssumption
  <2> QED
    BY <2>1, <2>2, <2>3
<1>9. RetriesOwned' /\ RetriesMade'
  <2> DEFINE G == [e \in retries |-> Aged(e)]
  <2>1. retries' = {G[e] : e \in retries}
    BY <1>3
  <2>2. \A e \in retries : G[e].inst = e.inst /\ G[e].path = e.path /\ G[e].cont = e.cont
                        /\ G[e].msg = e.msg
    BY <1>1, AgedFacts DEF RetriesFine
  <2>3. \A e \in retries : e.inst # OnBoard =>
                subs'[e.inst] # None /\ subs'[e.inst].cont = subs[e.inst].cont
    BY <1>1, <1>8 DEF Inv, RetriesOwned, RetriesFine, Entry
  <2>4. retries \in SUBSET retries /\ RetriesOwned /\ RetriesMade /\ msgs' = msgs
    BY <1>2 DEF Inv
  <2>5. G \in [retries -> Entry]
    BY <1>1, AgedFacts DEF RetriesFine
  <2> HIDE DEF G
  <2> QED
    BY <2>1, <2>2, <2>3, <2>4, <2>5, ImageOwned
<1>10. TypeOK'
    BY <1>2, <1>7, <1>8 DEF Inv, TypeOK, RetriesFine
<1>11. TimerKept'
    BY <1>2, <1>5, <1>7 DEF Inv, TimerKept, RetriesFine, FirstIsEarliest
<1>12. DeletionKept'
    BY <1>2 DEF Inv, DeletionKept, Early
<1> QED
    BY <1>2, <1>9, <1>10, <1>11, <1>12 DEF Inv, CallsOwned

(* Wake and EndTimers *)
LEMMA WakeKeeps ==
    ASSUME Inv, Wake
    PROVE  Inv'
<1>1. /\ UNCHANGED <<cont, subs, val, objs, retries, first, tm, events, resolved, booted,
                   todo, msgs, inputs, alive>>
      /\ wire' = {} /\ phase = "select" /\ phase' \in {"timers", "mq"}
      /\ watch' = {w \in Subs \X Objects : Active(w[1], "ObjectDeletion")
                                         /\ w[2] \in subs[w[1]].refs \cap objs}
    BY DEF Wake
<1>2. TypeOK'
    BY <1>1 DEF Inv, TypeOK, Phases
<1>3. TimerKept'
    BY <1>1 DEF Inv, TimerKept, TimerSet, FirstIsEarliest
<1>4. DeletionKept'
    BY <1>1 DEF Inv, DeletionKept, Early, StillWatched, Active
<1> QED
    BY <1>1, <1>2, <1>3, <1>4 DEF Inv, CallsOwned, RetriesMade, RetriesOwned, Matches

LEMMA EndTimersKeeps ==
    ASSUME Inv, EndTimers
    PROVE  Inv'
<1>1. /\ UNCHANGED <<cont, subs, val, objs, retries, first, events, resolved, booted,
                   todo, msgs, inputs, alive, watch>>
      /\ wire' = {} /\ phase = "timers" /\ phase' = "mq" /\ tm' = UpdateFirst(tm)
    BY DEF EndTimers
<1>2. tm \in TimerVector
    BY DEF Inv, TypeOK
<1>3. tm' \in TimerVector /\ tm' = [tm EXCEPT !.first = Earliest(tm)] /\ FirstIsEarliest(tm')
    BY <1>1, <1>2, EarliestFacts
<1>4. tm'.reg = tm.reg /\ tm'.on = tm.on /\ tm'.at = tm.at
    BY <1>2, <1>3 DEF TimerVector
<1>5. TypeOK'
    BY <1>1, <1>3 DEF Inv, TypeOK, Phases
<1>6. TimerKept'
    BY <1>1, <1>3, <1>4 DEF Inv, TimerKept, TimerSet, FirstIsEarliest
<1>7. DeletionKept'
    BY <1>1 DEF Inv, DeletionKept, Early, StillWatched, Active
<1> QED
    BY <1>1, <1>5, <1>6, <1>7 DEF Inv, CallsOwned, RetriesMade, RetriesOwned, Matches

(* SubsRetryExec *)
LEMMA RetriedFacts ==
    ASSUME NEW e \in Entry, NEW wait \in Times
    PROVE  /\ Retried(e, wait) \in Entry
           /\ Retried(e, wait).inst = e.inst /\ Retried(e, wait).path = e.path
           /\ Retried(e, wait).cont = e.cont /\ Retried(e, wait).msg = e.msg
           /\ Retried(e, wait).expiry = e.expiry
<1>1. RetryCap \in Nat \ {0}
    BY SubscriptionAssumption
<1>2. e.count \in 1..RetryCap
    BY DEF Entry
<1>3. (IF e.count < RetryCap THEN e.count + 1 ELSE e.count) \in 1..RetryCap
    BY <1>1, <1>2
<1> QED
    BY <1>3 DEF Retried, Entry

(* The waits it picks end before the end of time. *)
LEMMA WaitsFacts ==
    ASSUME RetriesFine, NEW w \in Waits
    PROVE  /\ DOMAIN w = {e \in retries : ToRetry(e)}
           /\ \A e \in retries : ToRetry(e) => w[e] \in Times /\ w[e] < Never
<1>1. DOMAIN w = {e \in retries : ToRetry(e)} /\ \A e \in DOMAIN w : w[e] \in WaitTimes(e.count + 1)
    BY DEF Waits
<1>2. RetryCap \in Nat \ {0}
    BY SubscriptionAssumption
<1>3. \A e \in retries : e.count + 1 \in 1..(RetryCap + 1)
    BY <1>2 DEF RetriesFine, Entry
<1> QED
    BY <1>1, <1>3, WaitsEnd

(* The entries it keeps, each retried or left alone. *)
Kept(w) == {e \in retries : ~Expired(e) /\ (ToRetry(e) => w[e] < e.expiry)}
Served(w, e) == IF ToRetry(e) THEN Retried(e, w[e]) ELSE e

LEMMA ServedFacts ==
    ASSUME RetriesFine, NEW w \in Waits, NEW e \in retries
    PROVE  /\ Served(w, e) \in Entry
           /\ Served(w, e).inst = e.inst /\ Served(w, e).path = e.path
           /\ Served(w, e).cont = e.cont /\ Served(w, e).msg = e.msg
           /\ Served(w, e).expiry = e.expiry
<1>1. e \in Entry
    BY DEF RetriesFine
<1>2. CASE ToRetry(e)
    BY <1>1, <1>2, WaitsFacts, RetriedFacts DEF Served
<1>3. CASE ~ToRetry(e)
    BY <1>1, <1>3 DEF Served
<1> QED
    BY <1>2, <1>3

LEMMA AfterRetriesFacts ==
    ASSUME RetriesFine, NEW w \in Waits
    PROVE  AfterRetries(w) = {Served(w, e) : e \in Kept(w)}
<1>1. \A e \in retries : ToRetry(e) => ~Expired(e)
    BY DEF ToRetry
<1>2. {x \in DOMAIN w : w[x] < x.expiry} = {e \in retries : ToRetry(e) /\ w[e] < e.expiry}
    BY WaitsFacts
<1>3. AfterRetries(w) = {e \in retries : ~Expired(e) /\ ~ToRetry(e)}
        \cup {Retried(e, w[e]) : e \in {x \in retries : ToRetry(x) /\ w[x] < x.expiry}}
    BY <1>2 DEF AfterRetries
<1> QED
    BY <1>1, <1>3 DEF Served, Kept

LEMMA SubsRetryExecKeeps ==
    ASSUME Inv, SubsRetryExec
    PROVE  Inv'
<1>1. RetriesFine /\ SubTypeOK /\ msgs \in Nat
    BY FineFromInv
<1>2. /\ UNCHANGED <<cont, subs, val, objs, events, resolved, booted, phase, todo, msgs, inputs, watch>>
      /\ phase = "timers" /\ Due(tm, "SubsRetryExec") /\ alive' = (first = 0)
      /\ UpdateFirstRetryTime(Fire(tm, "SubsRetryExec"))
      /\ wire' = {e.msg : e \in {x \in retries : ToRetry(x) /\ cont[x.cont] = "on"}}
    BY DEF SubsRetryExec
<1>3. PICK w \in Waits : retries' = AfterRetries(w)
    BY DEF SubsRetryExec
<1> DEFINE G == [e \in Kept(w) |-> Served(w, e)]
<1>4. Kept(w) \in SUBSET retries
    BY DEF Kept
<1>5. retries' = {G[e] : e \in Kept(w)}
    BY <1>1, <1>3, AfterRetriesFacts
<1>6. /\ G \in [Kept(w) -> Entry]
      /\ \A e \in Kept(w) : G[e].inst = e.inst /\ G[e].path = e.path /\ G[e].cont = e.cont
                            /\ G[e].msg = e.msg
    BY <1>1, <1>4, ServedFacts
<1>7. \A e \in Kept(w) : e.inst # OnBoard =>
                subs'[e.inst] # None /\ subs'[e.inst].cont = subs[e.inst].cont
    BY <1>2, <1>4 DEF Inv, RetriesOwned
<1>8. RetriesOwned /\ RetriesMade /\ msgs' = msgs
    BY <1>2 DEF Inv
<1> HIDE DEF G
<1>9. RetriesOwned' /\ RetriesMade'
    BY <1>4, <1>5, <1>6, <1>7, <1>8, ImageOwned
<1>10. retries' \in SUBSET Entry
    BY <1>5, <1>6
<1>11. Fire(tm, "SubsRetryExec") \in TimerVector /\ Fire(tm, "SubsRetryExec").reg = Timers
    BY <1>1, FireFacts, RetryTimer DEF RetriesFine, TimerSet
<1>12. RetriesFine' /\ FirstIsEarliest(tm)'
    BY <1>2, <1>10, <1>11, UpdateFirstRetryTimeSets
<1>13. alive'
    BY <1>1, <1>2 DEF Due, RetriesFine, TimerSet
<1>14. wire' \subseteq 1..msgs'
    BY <1>1, <1>2 DEF Inv, RetriesMade, RetriesFine, Entry
<1>15. TypeOK'
    BY <1>2, <1>12, <1>13, <1>14 DEF Inv, TypeOK, RetriesFine
<1>16. TimerKept'
    BY <1>12 DEF TimerKept, RetriesFine
<1>17. DeletionKept'
    BY <1>2, DeletionUnchanged DEF Inv
<1>18. CallsOwned'
    BY <1>2 DEF Inv, CallsOwned
<1> QED
    BY <1>9, <1>13, <1>15, <1>16, <1>17, <1>18 DEF Inv

(* With the subscriptions S go their retries. *)
LEMMA GoneOwned ==
    ASSUME RetriesFine, RetriesOwned, RetriesMade, msgs \in Nat, msgs' = msgs,
           NEW S \in SUBSET Subs, retries' = {e \in retries : e.inst \notin S},
           \A s \in Subs \ S : subs[s] # None => subs'[s] # None /\ subs'[s].cont = subs[s].cont
    PROVE  RetriesOwned' /\ RetriesMade'
<1>1. \A e \in retries : e.inst # OnBoard => e.inst \in Subs /\ subs[e.inst] # None
    BY DEF RetriesFine, RetriesOwned, Entry
<1>2. \A e \in retries' : e.inst # OnBoard =>
                subs'[e.inst] # None /\ subs'[e.inst].cont = subs[e.inst].cont
    BY <1>1
<1> QED
    BY <1>2, FewerOwned

(* What is watched when subscriptions go before a message is handled: the  *)
(* rest is resolved with the first that goes.                              *)
LEMMA EarlyDeletion ==
    ASSUME TypeOK, DeletionKept, phase \in Early, phase' \in Early,
           UNCHANGED <<objs, watch, events>>, NEW S \in SUBSET Subs,
           resolved' = (resolved \/ S # {}),
           \A s \in S : subs'[s] = None,
           \A s \in Subs \ S :
                /\ subs'[s] = None <=> subs[s] = None
                /\ subs[s] # None =>
                    /\ Alike(subs'[s], subs[s])
                    /\ subs'[s].resolved = IF S # {} /\ ~resolved /\ Active(s, "ObjectDeletion")
                                           THEN subs[s].refs \cap objs ELSE subs[s].resolved
    PROVE  DeletionKept'
<1>1. events' = {} /\ phase' \notin {"select", "cli", "events"}
    BY DEF DeletionKept, Early
<1>2. \A w \in watch' : StillWatched(w[1], w[2])'
  <2> SUFFICES ASSUME NEW w \in watch, subs'[w[1]] # None
               PROVE  /\ Active(w[1], "ObjectDeletion")' /\ w[2] \in subs'[w[1]].refs \cap objs
                      /\ resolved' => w[2] \in subs'[w[1]].resolved
    BY DEF StillWatched
  <2>1. w[1] \in Subs \ S
    BY DEF TypeOK
  <2>2. /\ subs[w[1]] # None /\ Active(w[1], "ObjectDeletion") /\ w[2] \in subs[w[1]].refs \cap objs
        /\ resolved => w[2] \in subs[w[1]].resolved
    BY <2>1 DEF DeletionKept, StillWatched
  <2>3. Active(w[1], "ObjectDeletion")' /\ w[2] \in subs'[w[1]].refs \cap objs
    BY <2>1, <2>2 DEF Active, Alike
  <2>4. resolved' => w[2] \in subs'[w[1]].resolved
    BY <2>1, <2>2
  <2> QED
    BY <2>3, <2>4
<1> QED
    BY <1>1, <1>2 DEF DeletionKept
-----------------------------------------------------------------------------
(* DEVICE_SUBSCRIPTION_Update.                                             *)

LEMMA SubscribersFacts ==
    ASSUME NEW ev, NEW sb
    PROVE  Subscribers(ev, sb) \in SUBSET Call /\ \A n \in Subscribers(ev, sb) : sb[n.inst] # None
BY DEF Subscribers

LEMMA UpdateStartKeeps ==
    ASSUME Inv, UpdateStart
    PROVE  Inv'
<1> DEFINE gone == {s \in Live : subs[s].expiry = 0}
<1>1. RetriesFine /\ SubTypeOK /\ msgs \in Nat /\ objs \subseteq Objects
    BY FineFromInv DEF Inv, TypeOK
<1>2. /\ UNCHANGED <<cont, val, objs, events, booted, msgs, inputs, alive, watch>>
      /\ phase \in {"timers", "enable"} /\ phase' = "poll" /\ wire' = {}
      /\ subs' = WithoutSubs(gone) /\ resolved' = (resolved \/ gone # {})
      /\ todo' = IF booted THEN {} ELSE Subscribers(BootEvent, subs')
    BY DEF UpdateStart
<1>3. gone \in SUBSET Subs
    BY DEF Live
<1> HIDE DEF gone
<1>4. /\ subs' \in [Subs -> Sub \cup {None}]
      /\ \A s \in gone : subs'[s] = None
      /\ \A s \in Subs \ gone :
                /\ subs'[s] = None <=> subs[s] = None
                /\ subs[s] # None =>
                    /\ Alike(subs'[s], subs[s])
                    /\ subs'[s].resolved = IF gone # {} /\ ~resolved /\ Active(s, "ObjectDeletion")
                                           THEN subs[s].refs \cap objs ELSE subs[s].resolved
    BY <1>1, <1>2, <1>3, WithoutSubsFacts
<1>5. PICK t \in {tm, Fire(tm, "DEVICE_SUBSCRIPTION_Update")} : SUBS_RETRY_Delete(gone, t)
    BY DEF UpdateStart, gone
<1>6. /\ t \in TimerVector /\ t.reg = Timers /\ "SubsRetryExec" \in t.on
      /\ t.at["SubsRetryExec"] = first
  <2>1. /\ tm \in TimerVector /\ tm.reg = Timers /\ "SubsRetryExec" \in tm.on
        /\ tm.at["SubsRetryExec"] = first
    BY <1>1 DEF RetriesFine, TimerSet
  <2>2. /\ Fire(tm, "DEVICE_SUBSCRIPTION_Update") \in TimerVector
        /\ Fire(tm, "DEVICE_SUBSCRIPTION_Update").reg = tm.reg
        /\ Fire(tm, "DEVICE_SUBSCRIPTION_Update").on = tm.on \ {"DEVICE_SUBSCRIPTION_Update"}
        /\ Fire(tm, "DEVICE_SUBSCRIPTION_Update").at = tm.at
    BY <2>1, FireFacts, RetryTimer
  <2> QED
    BY <2>1, <2>2
<1>7. RetriesFine' /\ retries' = {e \in retries : e.inst \notin gone}
    BY <1>1, <1>5, <1>6, DeleteKeeps
<1>8. RetriesOwned' /\ RetriesMade'
    BY <1>1, <1>2, <1>3, <1>4, <1>7, GoneOwned DEF Inv, Alike
<1>9. todo' \in SUBSET Call /\ CallsOwned'
    BY <1>2, SubscribersFacts DEF CallsOwned
<1>10. resolved' \in BOOLEAN
    BY <1>2
<1>11. TypeOK'
    BY <1>1, <1>2, <1>4, <1>7, <1>9, <1>10 DEF Inv, TypeOK, RetriesFine, Phases
<1>12. TimerKept'
    BY <1>2, <1>7 DEF TimerKept, RetriesFine
<1>13. DeletionKept'
    BY <1>2, <1>3, <1>4, EarlyDeletion DEF Inv, Early
<1> QED
    BY <1>2, <1>8, <1>9, <1>11, <1>12, <1>13 DEF Inv

LEMMA CurrentValuesType ==
    ASSUME val \in [Params -> Values], NEW refs
    PROVE  /\ CurrentValues(refs) \in [Params -> Values \cup {NoValue}]
           /\ NoValues \in [Params -> Values \cup {NoValue}]
BY DEF CurrentValues, NoValues

LEMMA UpdatePollKeeps ==
    ASSUME Inv, UpdatePoll
    PROVE  Inv'
<1> DEFINE gone == {s \in Live : ~booted /\ (~subs[s].persistent \/ subs[s].expiry = 0)}
           kept == WithoutSubs(gone)
<1>1. RetriesFine /\ SubTypeOK /\ msgs \in Nat /\ objs \subseteq Objects /\ val \in [Params -> Values]
    BY FineFromInv DEF Inv, TypeOK
<1>2. /\ UNCHANGED <<cont, val, objs, events, booted, msgs, inputs, alive, watch>>
      /\ phase = "poll" /\ phase' = "rearm" /\ wire' = {}
      /\ SUBS_RETRY_Delete(gone, tm) /\ resolved' = (resolved \/ gone # {})
      /\ todo' = {n \in Call : Polled(n.inst, kept) /\ n.path \in Changed(kept[n.inst])}
      /\ subs' = [s \in Subs |-> IF Polled(s, kept)
                                THEN [kept[s] EXCEPT !.last = CurrentValues(kept[s].refs)]
                                ELSE kept[s]]
    BY DEF UpdatePoll, ValueChanges
<1>3. gone \in SUBSET Subs
    BY DEF Live
<1>0. kept = WithoutSubs(gone)
    OBVIOUS
<1> HIDE DEF gone, kept
<1>4. /\ kept \in [Subs -> Sub \cup {None}]
      /\ \A s \in gone : kept[s] = None
      /\ \A s \in Subs \ gone :
                /\ kept[s] = None <=> subs[s] = None
                /\ subs[s] # None =>
                    /\ Alike(kept[s], subs[s])
                    /\ kept[s].resolved = IF gone # {} /\ ~resolved /\ Active(s, "ObjectDeletion")
                                          THEN subs[s].refs \cap objs ELSE subs[s].resolved
    BY <1>0, <1>1, <1>3, WithoutSubsFacts
<1>5. ASSUME NEW s \in Subs
      PROVE  /\ subs'[s] \in Sub \cup {None} /\ (subs'[s] = None <=> kept[s] = None)
             /\ kept[s] # None => Alike(subs'[s], kept[s]) /\ subs'[s].resolved = kept[s].resolved
  <2>1. CASE Polled(s, kept)
    <3>1. kept[s] # None /\ kept[s] \in Sub
      BY <1>4, <2>1 DEF Polled
    <3>2. subs'[s] = [kept[s] EXCEPT !.last = CurrentValues(kept[s].refs)]
      BY <1>2, <2>1
    <3>3. CurrentValues(kept[s].refs) \in [Params -> Values \cup {NoValue}]
      BY <1>1, CurrentValuesType
    <3>4. subs'[s] \in Sub /\ Alike(subs'[s], kept[s]) /\ subs'[s].resolved = kept[s].resolved
      BY <3>1, <3>2, <3>3 DEF Sub, Alike
    <3>5. None \notin Sub
      BY SubscriptionAssumption
    <3> QED
      BY <3>1, <3>4, <3>5
  <2>2. CASE ~Polled(s, kept)
    BY <1>2, <1>4, <2>2 DEF Alike
  <2> QED
    BY <2>1, <2>2
<1>6. subs' \in [Subs -> Sub \cup {None}]
    BY <1>2, <1>5
<1>7. /\ \A s \in gone : subs'[s] = None
      /\ \A s \in Subs \ gone :
                /\ subs'[s] = None <=> subs[s] = None
                /\ subs[s] # None =>
                    /\ Alike(subs'[s], subs[s])
                    /\ subs'[s].resolved = IF gone # {} /\ ~resolved /\ Active(s, "ObjectDeletion")
                                           THEN subs[s].refs \cap objs ELSE subs[s].resolved
    BY <1>3, <1>4, <1>5 DEF Alike
<1>8. RetriesFine' /\ retries' = {e \in retries : e.inst \notin gone}
    BY <1>1, <1>2, DeleteKeeps DEF RetriesFine, TimerSet
<1>9. RetriesOwned' /\ RetriesMade'
    BY <1>1, <1>2, <1>3, <1>7, <1>8, GoneOwned DEF Inv, Alike
<1>10. todo' \in SUBSET Call /\ CallsOwned'
    BY <1>2, <1>5 DEF CallsOwned, Polled, Call
<1>11. resolved' \in BOOLEAN
    BY <1>2
<1>12. TypeOK'
    BY <1>1, <1>2, <1>6, <1>8, <1>10, <1>11 DEF Inv, TypeOK, RetriesFine, Phases
<1>13. TimerKept'
    BY <1>2, <1>8 DEF TimerKept, RetriesFine
<1>14. DeletionKept'
    BY <1>2, <1>3, <1>7, EarlyDeletion DEF Inv, Early
<1> QED
    BY <1>2, <1>9, <1>10, <1>12, <1>13, <1>14 DEF Inv

LEMMA UpdateRearmKeeps ==
    ASSUME Inv, UpdateRearm
    PROVE  Inv'
<1>1. RetriesFine
    BY FineFromInv
<1>2. /\ UNCHANGED <<cont, subs, val, objs, retries, first, events, resolved, todo, msgs,
                   inputs, alive, watch>>
      /\ phase = "rearm" /\ phase' \in {"timers", "cli"} /\ wire' = {} /\ booted' = TRUE
      /\ tm' = SYNC_TIMER_Reload(tm, "DEVICE_SUBSCRIPTION_Update", PollPeriod)
    BY DEF UpdateRearm
<1>3. PollPeriod \in Times
    BY SubscriptionAssumption, NeverAssumption DEF Times
<1>4. /\ tm' \in TimerVector /\ tm'.reg = Timers /\ FirstIsEarliest(tm')
      /\ tm'.on = tm.on \cup {"DEVICE_SUBSCRIPTION_Update"}
      /\ tm'.at = [tm.at EXCEPT !["DEVICE_SUBSCRIPTION_Update"] = PollPeriod]
    BY <1>1, <1>2, <1>3, ReloadFacts, RetryTimer DEF RetriesFine, TimerSet
<1>5. tm'.at["SubsRetryExec"] = tm.at["SubsRetryExec"]
    BY <1>1, <1>4, RetryTimer DEF RetriesFine, TimerVector
<1>6. TypeOK'
    BY <1>2, <1>4 DEF Inv, TypeOK, Phases
<1>7. TimerKept'
    BY <1>2, <1>4, <1>5 DEF Inv, TimerKept, TimerSet, FirstIsEarliest
<1>8. DeletionKept'
    BY <1>2 DEF Inv, DeletionKept, Early, StillWatched, WatchedOrThere, Active
<1> QED
    BY <1>2, <1>6, <1>7, <1>8 DEF Inv, CallsOwned, RetriesMade, RetriesOwned, Matches
-----------------------------------------------------------------------------
(* The object creation and deletion events.                                *)

LEMMA ProcessLifeEventsFacts ==
    ASSUME SubTypeOK, ProcessLifeEvents
    PROVE  /\ subs' \in [Subs -> Sub \cup {None}]
           /\ \A s \in Subs : /\ subs'[s] = None <=> subs[s] = None
                              /\ subs[s] # None => Alike(subs'[s], subs[s])
           /\ todo' \in SUBSET Call /\ CallsOwned'
<1>1. subs' = [s \in Subs |-> IF Active(s, "ObjectCreation") \/ Active(s, "ObjectDeletion")
                               THEN [subs[s] EXCEPT !.resolved = {}] ELSE subs[s]]
    BY DEF ProcessLifeEvents
<1>2. ASSUME NEW s \in Subs
      PROVE  /\ subs'[s] \in Sub \cup {None} /\ (subs'[s] = None <=> subs[s] = None)
             /\ subs[s] # None => Alike(subs'[s], subs[s])
  <2>1. subs[s] \in Sub \cup {None}
    BY DEF SubTypeOK
  <2>2. CASE Active(s, "ObjectCreation") \/ Active(s, "ObjectDeletion")
    <3>1. subs[s] # None /\ subs[s] \in Sub
      BY <2>1, <2>2 DEF Active
    <3>2. subs'[s] = [subs[s] EXCEPT !.resolved = {}]
      BY <1>1, <2>2
    <3>3. subs'[s] \in Sub /\ Alike(subs'[s], subs[s])
      BY <3>1, <3>2 DEF Sub, Alike
    <3> QED
      BY <3>1, <3>3, SubscriptionAssumption
  <2>3. CASE ~(Active(s, "ObjectCreation") \/ Active(s, "ObjectDeletion"))
    BY <1>1, <2>1, <2>3 DEF Alike
  <2> QED
    BY <2>2, <2>3
<1>3. todo' \in SUBSET Call /\ CallsOwned'
    BY <1>2 DEF ProcessLifeEvents, LifeCalls, CallsOwned, Active, Call
<1> QED
    BY <1>1, <1>2, <1>3

LEMMA ProcessEventsKeeps ==
    ASSUME Inv, ProcessEvents
    PROVE  Inv'
<1>1. RetriesFine /\ SubTypeOK /\ msgs \in Nat
    BY FineFromInv
<1>2. /\ UNCHANGED <<cont, val, objs, retries, first, tm, booted, msgs, inputs, alive>>
      /\ phase = "events" /\ phase' = "select" /\ wire' = {} /\ watch' = {}
      /\ events' = {} /\ resolved' = FALSE
    BY DEF ProcessEvents, ProcessLifeEvents
<1>3. /\ subs' \in [Subs -> Sub \cup {None}] /\ todo' \in SUBSET Call /\ CallsOwned'
      /\ \A s \in Subs : /\ subs'[s] = None <=> subs[s] = None
                         /\ subs[s] # None => Alike(subs'[s], subs[s])
    BY <1>1, ProcessLifeEventsFacts DEF ProcessEvents
<1>4. retries' = {e \in retries : e.inst \notin {}}
    BY <1>2
<1>5. RetriesOwned' /\ RetriesMade'
    BY <1>1, <1>2, <1>3, <1>4, GoneOwned DEF Inv, Alike
<1>6. TypeOK'
    BY <1>2, <1>3 DEF Inv, TypeOK, Phases
<1>7. TimerKept'
    BY <1>2 DEF Inv, TimerKept, TimerSet, FirstIsEarliest
<1>8. DeletionKept'
    BY <1>2 DEF DeletionKept, Early
<1> QED
    BY <1>2, <1>3, <1>5, <1>6, <1>7, <1>8 DEF Inv

LEMMA EnableNotificationsKeeps ==
    ASSUME Inv, EnableNotifications
    PROVE  Inv'
<1>1. RetriesFine /\ SubTypeOK /\ msgs \in Nat
    BY FineFromInv
<1>2. /\ UNCHANGED <<cont, val, objs, retries, first, tm, booted, msgs, inputs, alive, watch>>
      /\ phase = "mq" /\ phase' = "enable" /\ wire' = {}
      /\ events' = {} /\ resolved' = FALSE
    BY DEF EnableNotifications, ProcessLifeEvents
<1>3. /\ subs' \in [Subs -> Sub \cup {None}] /\ todo' \in SUBSET Call /\ CallsOwned'
      /\ \A s \in Subs : /\ subs'[s] = None <=> subs[s] = None
                         /\ subs[s] # None => Alike(subs'[s], subs[s])
    BY <1>1, ProcessLifeEventsFacts DEF EnableNotifications
<1>4. retries' = {e \in retries : e.inst \notin {}}
    BY <1>2
<1>5. RetriesOwned' /\ RetriesMade'
    BY <1>1, <1>2, <1>3, <1>4, GoneOwned DEF Inv, Alike
<1>6. TypeOK'
    BY <1>2, <1>3 DEF Inv, TypeOK, Phases
<1>7. TimerKept'
    BY <1>2 DEF Inv, TimerKept, TimerSet, FirstIsEarliest
<1>8. DeletionKept'
  <2>1. \A w \in watch : w[1] \in Subs /\ StillWatched(w[1], w[2])
    BY <1>2 DEF Inv, TypeOK, DeletionKept, Early
  <2>2. \A w \in watch' : StillWatched(w[1], w[2])'
    BY <1>2, <1>3, <2>1 DEF StillWatched, Active, Alike
  <2> QED
    BY <1>2, <2>2 DEF DeletionKept
<1> QED
    BY <1>2, <1>3, <1>5, <1>6, <1>7, <1>8 DEF Inv
-----------------------------------------------------------------------------
(* Messages and commands.                                                  *)

LEMMA TurnFacts ==
    ASSUME NEW slots \in SUBSET AnySlot, Turn(slots)
    PROVE  /\ alive /\ todo = {}
           /\ \/ phase = "mq" /\ phase' = "cli"
              \/ phase = "cli" /\ phase' = "events"
BY DEF Turn, Idle, AnySlot

(* A step that deletes nothing.  It may change subscriptions, but not what *)
(* is resolved, and what is watched of a new one is not in question.       *)
LEMMA NothingDeleted ==
    ASSUME TypeOK, DeletionKept, NEW slots \in SUBSET AnySlot, Turn(slots),
           watch' \subseteq watch, resolved' = resolved, objs \subseteq objs',
           \A o \in Objects : Deletion(o) \in events' => Deletion(o) \in events,
           \A w \in watch' : subs'[w[1]] # None =>
                subs[w[1]] # None /\ subs'[w[1]].resolved = subs[w[1]].resolved
    PROVE  DeletionKept'
<1>1. resolved \in BOOLEAN /\ \A w \in watch : w[2] \in Objects
    BY DEF TypeOK
<1>2. CASE phase = "mq" /\ phase' = "cli"
  <2>1. events = {} /\ \A w \in watch : StillWatched(w[1], w[2])
    BY <1>2 DEF DeletionKept, Early
  <2>2. \A w \in watch' : WatchedOrThere(w[1], w[2])'
    BY <1>1, <2>1 DEF StillWatched, WatchedOrThere
  <2> QED
    BY <1>2, <2>1, <2>2 DEF DeletionKept, Early
<1>3. CASE phase = "cli" /\ phase' = "events"
  <2>1. /\ \A w \in watch : WatchedOrThere(w[1], w[2])
        /\ ~resolved => \A o \in Objects : Deletion(o) \notin events
    BY <1>3 DEF DeletionKept
  <2>2. \A w \in watch' : ResolvedInTime(w[1], w[2])'
    BY <1>1, <2>1 DEF ResolvedInTime, WatchedOrThere, Active
  <2> QED
    BY <1>3, <2>2 DEF DeletionKept, Early
<1> QED
    BY <1>2, <1>3, TurnFacts

(* A step that deletes subscriptions or an object, and resolves the paths  *)
(* before it does if none has done so in this round.                       *)
LEMMA SomethingDeleted ==
    ASSUME TypeOK, DeletionKept, NEW slots \in SUBSET AnySlot, Turn(slots),
           watch' = watch, resolved' = TRUE,
           \A w \in watch : subs'[w[1]] # None =>
                /\ subs[w[1]] # None /\ Alike(subs'[w[1]], subs[w[1]])
                /\ subs'[w[1]].resolved = IF ~resolved /\ Active(w[1], "ObjectDeletion")
                                          THEN subs[w[1]].refs \cap objs ELSE subs[w[1]].resolved
    PROVE  DeletionKept'
<1>1. CASE phase = "mq" /\ phase' = "cli"
  <2>1. \A w \in watch : StillWatched(w[1], w[2])
    BY <1>1 DEF DeletionKept, Early
  <2>2. \A w \in watch' : WatchedOrThere(w[1], w[2])'
    BY <2>1 DEF StillWatched, WatchedOrThere
  <2> QED
    BY <1>1, <2>2 DEF DeletionKept, Early
<1>2. CASE phase = "cli" /\ phase' = "events"
  <2>1. \A w \in watch : WatchedOrThere(w[1], w[2])
    BY <1>2 DEF DeletionKept
  <2>2. ASSUME NEW w \in watch', Active(w[1], "ObjectDeletion")', w[2] \in subs'[w[1]].refs
        PROVE  w[2] \in subs'[w[1]].resolved
    <3>1. /\ subs[w[1]] # None /\ Active(w[1], "ObjectDeletion") /\ w[2] \in subs[w[1]].refs
          /\ w[2] \in (IF resolved THEN subs[w[1]].resolved ELSE objs)
      BY <2>1, <2>2 DEF Active, Alike, WatchedOrThere
    <3> QED
      BY <2>2, <3>1 DEF Active
  <2>3. \A w \in watch' : ResolvedInTime(w[1], w[2])'
    BY <2>2 DEF ResolvedInTime
  <2> QED
    BY <1>2, <2>3 DEF DeletionKept, Early
<1> QED
    BY <1>1, <1>2, TurnFacts

LEMMA Slots == AnySlot \in SUBSET AnySlot /\ {"mq"} \in SUBSET AnySlot
BY DEF AnySlot

(* A turn that leaves the retries alone. *)
LEMMA RetriesLeft ==
    ASSUME Inv, NEW slots \in SUBSET AnySlot, Turn(slots), UNCHANGED <<retries, first, tm, msgs>>,
           \A s \in Subs : subs[s] # None => subs'[s] # None /\ subs'[s].cont = subs[s].cont
    PROVE  TimerKept' /\ RetriesOwned' /\ RetriesMade'
<1>1. RetriesFine /\ SubTypeOK /\ msgs \in Nat
    BY FineFromInv
<1>2. \A e \in retries' : e.inst # OnBoard =>
                subs'[e.inst] # None /\ subs'[e.inst].cont = subs[e.inst].cont
    BY <1>1 DEF Inv, RetriesOwned, RetriesFine, Entry
<1>3. RetriesOwned' /\ RetriesMade'
    BY <1>1, <1>2, FewerOwned DEF Inv
<1>4. TimerKept'
    BY TurnFacts DEF Inv, TimerKept, TimerSet, FirstIsEarliest
<1> QED
    BY <1>3, <1>4

(* NoActivity, SetControllerEnable, AddObject and SignalEvent leave the    *)
(* subscriptions and the retries alone.                                    *)
LEMMA SubsLeft ==
    ASSUME Inv, NEW slots \in SUBSET AnySlot, Turn(slots),
           UNCHANGED <<subs, retries, first, tm, resolved, booted, msgs, alive, watch, val>>,
           wire' = {}, cont' \in [Controllers -> {"on", "off", "gone"}],
           objs' \subseteq Objects, objs \subseteq objs',
           events' \subseteq [obj: Objects, type: LifeEvents], inputs' \in 0..MaxInputs,
           todo' \subseteq Call, \A n \in todo' : subs[n.inst] # None,
           \A o \in Objects : Deletion(o) \in events' => Deletion(o) \in events
    PROVE  Inv'
<1>1. TimerKept' /\ RetriesOwned' /\ RetriesMade'
    BY RetriesLeft
<1>2. DeletionKept'
    BY NothingDeleted DEF Inv
<1>3. TypeOK'
    BY TurnFacts DEF Inv, TypeOK, Phases
<1>4. CallsOwned'
    BY DEF CallsOwned
<1> QED
    BY <1>1, <1>2, <1>3, <1>4 DEF Inv

LEMMA InputFacts ==
    ASSUME TypeOK, Input
    PROVE  inputs' \in 0..MaxInputs
<1>1. MaxInputs \in Nat
    BY SubscriptionAssumption
<1> QED
    BY <1>1 DEF TypeOK, Input

LEMMA NoActivityKeeps ==
    ASSUME Inv, NoActivity
    PROVE  Inv'
<1>1. /\ Turn(AnySlot) /\ wire' = {} /\ todo = {}
      /\ UNCHANGED <<cont, subs, val, objs, retries, first, tm, events, resolved, booted,
                   todo, msgs, inputs, alive, watch>>
    BY TurnFacts, Slots DEF NoActivity, Handles
<1> QED
    BY <1>1, SubsLeft, Slots DEF Inv, TypeOK

LEMMA SetControllerEnableKeeps ==
    ASSUME Inv, NEW c \in Controllers, SetControllerEnable(c)
    PROVE  Inv'
<1>1. /\ Turn(AnySlot) /\ wire' = {} /\ todo = {} /\ Input
      /\ UNCHANGED <<subs, val, objs, retries, first, tm, events, resolved, booted, todo,
                   msgs, alive, watch>>
    BY TurnFacts, Slots DEF SetControllerEnable, Handles
<1>2. cont' \in [Controllers -> {"on", "off", "gone"}]
    BY DEF Inv, TypeOK, SetControllerEnable
<1>3. inputs' \in 0..MaxInputs
    BY <1>1, InputFacts DEF Inv
<1> QED
    BY <1>1, <1>2, <1>3, SubsLeft, Slots DEF Inv, TypeOK

LEMMA AddObjectKeeps ==
    ASSUME Inv, NEW o \in Objects, AddObject(o)
    PROVE  Inv'
<1>1. /\ Turn(AnySlot) /\ wire' = {} /\ todo = {} /\ Input
      /\ UNCHANGED <<cont, subs, val, retries, first, tm, resolved, booted, todo, msgs, alive, watch>>
      /\ objs' = objs \cup {o}
      /\ events' = events \cup {[obj |-> o, type |-> "ObjectCreation"]}
    BY TurnFacts, Slots DEF AddObject, Handles
<1>2. /\ events' \subseteq [obj: Objects, type: LifeEvents] /\ objs' \subseteq Objects
      /\ cont' \in [Controllers -> {"on", "off", "gone"}]
    BY <1>1 DEF Inv, TypeOK, LifeEvents
<1>3. inputs' \in 0..MaxInputs
    BY <1>1, InputFacts DEF Inv
<1>4. \A x \in Objects : Deletion(x) \in events' => Deletion(x) \in events
    BY <1>1 DEF Deletion
<1> QED
    BY <1>1, <1>2, <1>3, <1>4, SubsLeft, Slots

LEMMA SignalEventKeeps ==
    ASSUME Inv, NEW ev \in Events, SignalEvent(ev)
    PROVE  Inv'
<1>1. /\ Turn(AnySlot) /\ wire' = {} /\ todo = {} /\ Input
      /\ UNCHANGED <<cont, subs, val, objs, retries, first, tm, events, resolved, booted, msgs,
                   alive, watch>>
      /\ todo' = Subscribers(ev, subs)
    BY TurnFacts, Slots DEF SignalEvent, Handles
<1>2. todo' \subseteq Call /\ \A n \in todo' : subs[n.inst] # None
    BY <1>1, SubscribersFacts
<1>3. inputs' \in 0..MaxInputs
    BY <1>1, InputFacts DEF Inv
<1>4. /\ events' \subseteq [obj: Objects, type: LifeEvents] /\ objs' \subseteq Objects
      /\ cont' \in [Controllers -> {"on", "off", "gone"}]
    BY <1>1 DEF Inv, TypeOK
<1> QED
    BY <1>1, <1>2, <1>3, <1>4, SubsLeft, Slots

(* ProcessSubscriptionAdded *)
LEMMA SeededFacts ==
    ASSUME val \in [Params -> Values], NEW sub \in Sub
    PROVE  Seeded(sub) \in Sub /\ Seeded(sub).cont = sub.cont /\ Seeded(sub).resolved = {}
<1> DEFINE l == IF sub.enable /\ sub.type = "ValueChange" THEN CurrentValues(sub.refs) ELSE NoValues
<1>1. l \in [Params -> Values \cup {NoValue}]
    BY CurrentValuesType
<1>2. Seeded(sub) = [sub EXCEPT !.resolved = {}, !.last = l]
    BY DEF Seeded
<1> HIDE DEF l
<1> QED
    BY <1>1, <1>2 DEF Sub

LEMMA AddSubsKeeps ==
    ASSUME Inv, NEW s \in Subs, NEW sub \in Offers, AddSubs(s, sub)
    PROVE  Inv'
<1>1. /\ Turn({"mq"}) /\ wire' = {} /\ todo = {} /\ Input /\ subs[s] = None
      /\ UNCHANGED <<cont, val, objs, retries, first, tm, events, resolved, booted, todo,
                   msgs, alive>>
      /\ subs' = [subs EXCEPT ![s] = Seeded(sub)] /\ watch' = {w \in watch : w[1] # s}
    BY TurnFacts, Slots DEF AddSubs, Handles
<1>2. sub \in Sub
    BY SubscriptionAssumption
<1>3. Seeded(sub) \in Sub
    BY <1>2, SeededFacts DEF Inv, TypeOK
<1>4. SubTypeOK /\ SubTypeOK'
    BY <1>1, <1>3 DEF Inv, TypeOK, SubTypeOK
<1>5. \A x \in Subs : x # s => subs'[x] = subs[x]
    BY <1>1, <1>4 DEF SubTypeOK
<1>6. TimerKept' /\ RetriesOwned' /\ RetriesMade'
    BY <1>1, <1>5, RetriesLeft, Slots
<1>7. \A w \in watch' : w[1] \in Subs /\ w[1] # s
    BY <1>1 DEF Inv, TypeOK
<1>8. DeletionKept'
    BY <1>1, <1>5, <1>7, NothingDeleted, Slots DEF Inv
<1>9. inputs' \in 0..MaxInputs
    BY <1>1, InputFacts DEF Inv
<1>10. TypeOK'
    BY <1>1, <1>4, <1>9, TurnFacts, Slots DEF Inv, TypeOK, SubTypeOK, Phases
<1> QED
    BY <1>1, <1>6, <1>8, <1>10 DEF Inv, CallsOwned

(* A subscription may change, but keeps its controller and what is         *)
(* resolved of it.                                                         *)
LEMMA SetSubsKeeps ==
    ASSUME Inv, NEW s \in Subs, NEW sub \in Sub, SetSubs(s, sub),
           sub.cont = subs[s].cont, sub.resolved = subs[s].resolved
    PROVE  Inv'
<1>1. /\ Turn(AnySlot) /\ wire' = {} /\ todo = {} /\ Input /\ subs[s] # None
      /\ UNCHANGED <<cont, val, objs, retries, first, tm, events, resolved, booted, todo,
                   msgs, alive, watch>>
      /\ subs' = [subs EXCEPT ![s] = sub]
    BY TurnFacts, Slots DEF SetSubs, Handles
<1>2. SubTypeOK /\ SubTypeOK'
    BY <1>1 DEF Inv, TypeOK, SubTypeOK
<1>3. None \notin Sub
    BY SubscriptionAssumption
<1>4. \A x \in Subs : /\ subs'[x] # None <=> subs[x] # None
                      /\ subs'[x].cont = subs[x].cont /\ subs'[x].resolved = subs[x].resolved
    BY <1>1, <1>2, <1>3 DEF SubTypeOK
<1>5. TimerKept' /\ RetriesOwned' /\ RetriesMade'
    BY <1>1, <1>4, RetriesLeft, Slots
<1>6. \A w \in watch' : w[1] \in Subs
    BY <1>1 DEF Inv, TypeOK
<1>7. DeletionKept'
    BY <1>1, <1>4, <1>6, NothingDeleted, Slots DEF Inv
<1>8. inputs' \in 0..MaxInputs
    BY <1>1, InputFacts DEF Inv
<1>9. TypeOK'
    BY <1>1, <1>2, <1>8, TurnFacts, Slots DEF Inv, TypeOK, SubTypeOK, Phases
<1> QED
    BY <1>1, <1>5, <1>7, <1>9 DEF Inv, CallsOwned

LEMMA NotifyChangeKeeps ==
    ASSUME Inv, NEW s \in Live,
           \/ NotifyChange_SubsEnable(s)
           \/ \E type \in Types : NotifyChange_NotifyType(s, type)
           \/ \E refs \in SUBSET Paths : NotifyChange_SubsRefList(s, refs)
           \/ NotifyChange_NotifRetry(s)
           \/ \E period \in Periods : NotifyChange_NotifExpiration(s, period)
           \/ \E sub \in Offers : NotifyChange_SubsTimeToLive(s, sub.expiry)
    PROVE  Inv'
<1>1. s \in Subs /\ subs[s] \in Sub
    BY DEF Inv, TypeOK, Live
<1>2. CurrentValues(subs[s].refs) \in [Params -> Values \cup {NoValue}]
    BY CurrentValuesType DEF Inv, TypeOK
<1>3. CASE NotifyChange_SubsEnable(s)
  <2> DEFINE l == IF ~subs[s].enable /\ subs[s].type = "ValueChange"
                  THEN CurrentValues(subs[s].refs) ELSE subs[s].last
             new == [subs[s] EXCEPT !.enable = ~@, !.last = l]
  <2>1. SetSubs(s, new)
    BY <1>1, <1>3 DEF NotifyChange_SubsEnable
  <2>2. l \in [Params -> Values \cup {NoValue}]
    BY <1>1, <1>2 DEF Sub
  <2> HIDE DEF l
  <2>3. new \in Sub /\ new.cont = subs[s].cont /\ new.resolved = subs[s].resolved
    BY <1>1, <2>2 DEF Sub
  <2> HIDE DEF new
  <2> QED
    BY <1>1, <2>1, <2>3, SetSubsKeeps
<1>4. ASSUME NEW type \in Types, NotifyChange_NotifyType(s, type)
      PROVE  Inv'
  <2> DEFINE l == IF subs[s].enable /\ type = "ValueChange" /\ subs[s].type # type
                  THEN CurrentValues(subs[s].refs) ELSE subs[s].last
             new == [subs[s] EXCEPT !.type = type, !.last = l]
  <2>1. SetSubs(s, new)
    BY <1>1, <1>4 DEF NotifyChange_NotifyType
  <2>2. l \in [Params -> Values \cup {NoValue}]
    BY <1>1, <1>2 DEF Sub
  <2> HIDE DEF l
  <2>3. new \in Sub /\ new.cont = subs[s].cont /\ new.resolved = subs[s].resolved
    BY <1>1, <2>2 DEF Sub
  <2> HIDE DEF new
  <2> QED
    BY <1>1, <2>1, <2>3, SetSubsKeeps
<1>5. ASSUME NEW refs \in SUBSET Paths, NotifyChange_SubsRefList(s, refs)
      PROVE  Inv'
  <2> DEFINE new == [subs[s] EXCEPT !.refs = refs]
  <2>1. SetSubs(s, new)
    BY <1>5 DEF NotifyChange_SubsRefList
  <2>2. new \in Sub /\ new.cont = subs[s].cont /\ new.resolved = subs[s].resolved
    BY <1>1 DEF Sub
  <2> HIDE DEF new
  <2> QED
    BY <1>1, <2>1, <2>2, SetSubsKeeps
<1>6. CASE NotifyChange_NotifRetry(s)
  <2> DEFINE new == [subs[s] EXCEPT !.retry = ~@]
  <2>1. SetSubs(s, new)
    BY <1>6 DEF NotifyChange_NotifRetry
  <2>2. new \in Sub /\ new.cont = subs[s].cont /\ new.resolved = subs[s].resolved
    BY <1>1 DEF Sub
  <2> HIDE DEF new
  <2> QED
    BY <1>1, <2>1, <2>2, SetSubsKeeps
<1>7. ASSUME NEW period \in Periods, NotifyChange_NotifExpiration(s, period)
      PROVE  Inv'
  <2> DEFINE new == [subs[s] EXCEPT !.period = period]
  <2>1. SetSubs(s, new)
    BY <1>7 DEF NotifyChange_NotifExpiration
  <2>2. new \in Sub /\ new.cont = subs[s].cont /\ new.resolved = subs[s].resolved
    BY <1>1 DEF Sub
  <2> HIDE DEF new
  <2> QED
    BY <1>1, <2>1, <2>2, SetSubsKeeps
<1>8. ASSUME NEW sub \in Offers, NotifyChange_SubsTimeToLive(s, sub.expiry)
      PROVE  Inv'
  <2> DEFINE new == [subs[s] EXCEPT !.expiry = sub.expiry]
  <2>1. SetSubs(s, new)
    BY <1>8 DEF NotifyChange_SubsTimeToLive
  <2>2. sub \in Sub
    BY SubscriptionAssumption
  <2>3. sub.expiry \in Times
    BY <2>2 DEF Sub
  <2>4. new \in Sub /\ new.cont = subs[s].cont /\ new.resolved = subs[s].resolved
    BY <1>1, <2>3 DEF Sub
  <2> HIDE DEF new
  <2> QED
    BY <1>1, <2>1, <2>4, SetSubsKeeps
<1> QED
    BY <1>3, <1>4, <1>5, <1>6, <1>7, <1>8

(* Subscriptions that are deleted, with their retries; cont may change.    *)
LEMMA DeleteSubsKeeps ==
    ASSUME Inv, Turn(AnySlot), NEW S \in SUBSET Subs, DeleteSubs(S), Input, wire' = {},
           cont' \in [Controllers -> {"on", "off", "gone"}],
           UNCHANGED <<val, objs, events, booted, todo, msgs, alive, watch>>
    PROVE  Inv' /\ retries' = {e \in retries : e.inst \notin S}
<1>1. RetriesFine /\ SubTypeOK /\ msgs \in Nat /\ objs \subseteq Objects
    BY FineFromInv DEF Inv, TypeOK
<1>2. /\ subs' = WithoutSubs(S) /\ SUBS_RETRY_Delete(S, tm) /\ resolved' = (resolved \/ S # {})
      /\ todo = {} /\ phase \in {"mq", "cli"} /\ phase' \in {"cli", "events"}
    BY TurnFacts, Slots DEF DeleteSubs
<1>3. /\ subs' \in [Subs -> Sub \cup {None}]
      /\ \A s \in S : subs'[s] = None
      /\ \A s \in Subs \ S :
                /\ subs'[s] = None <=> subs[s] = None
                /\ subs[s] # None =>
                    /\ Alike(subs'[s], subs[s])
                    /\ subs'[s].resolved = IF S # {} /\ ~resolved /\ Active(s, "ObjectDeletion")
                                           THEN subs[s].refs \cap objs ELSE subs[s].resolved
    BY <1>1, <1>2, WithoutSubsFacts
<1>4. /\ RetriesFine' /\ retries' = {e \in retries : e.inst \notin S}
      /\ FirstIsEarliest(tm) => FirstIsEarliest(tm)'
    BY <1>1, <1>2, DeleteKeeps DEF RetriesFine, TimerSet
<1>5. RetriesOwned' /\ RetriesMade'
    BY <1>1, <1>3, <1>4, GoneOwned DEF Inv, Alike
<1>6. TimerKept'
    BY <1>2, <1>4 DEF Inv, TimerKept, RetriesFine
<1>7. resolved' \in BOOLEAN /\ inputs' \in 0..MaxInputs
    BY <1>2, InputFacts DEF Inv
<1>8. TypeOK'
    BY <1>2, <1>3, <1>4, <1>7 DEF Inv, TypeOK, RetriesFine, Phases
<1>9. \A w \in watch : w[1] \in Subs
    BY DEF Inv, TypeOK
<1>10. DeletionKept'
  <2>1. CASE S = {}
    <3>1. resolved' = resolved
      BY <1>2, <2>1 DEF Inv, TypeOK
    <3> QED
      BY <1>3, <1>9, <2>1, <3>1, NothingDeleted, Slots DEF Inv
  <2>2. CASE S # {}
    <3>1. resolved' = TRUE
      BY <1>2, <2>2
    <3> QED
      BY <1>3, <1>9, <2>2, <3>1, SomethingDeleted, Slots DEF Inv
  <2> QED
    BY <2>1, <2>2
<1> QED
    BY <1>2, <1>4, <1>5, <1>6, <1>8, <1>10 DEF Inv, CallsOwned

LEMMA DelSubsKeeps ==
    ASSUME Inv, NEW s \in Subs, DelSubs(s)
    PROVE  Inv' /\ retries' = {e \in retries : e.inst \notin {s}} /\ msgs' = msgs /\ wire' = {}
<1>1. /\ Turn(AnySlot) /\ wire' = {} /\ Input /\ DeleteSubs({s})
      /\ UNCHANGED <<cont, val, objs, events, booted, todo, msgs, alive, watch>>
    BY DEF DelSubs, Handles
<1>2. {s} \in SUBSET Subs /\ cont' \in [Controllers -> {"on", "off", "gone"}]
    BY <1>1 DEF Inv, TypeOK
<1> QED
    BY <1>1, <1>2, DeleteSubsKeeps

LEMMA DeleteControllerKeeps ==
    ASSUME Inv, NEW c \in Controllers, DeleteController(c)
    PROVE  /\ Inv' /\ msgs' = msgs /\ wire' = {}
           /\ \E S \in SUBSET Subs : retries' = {e \in retries : e.inst \notin S}
<1> DEFINE S == {s \in Live : subs[s].cont = c}
<1>1. /\ Turn(AnySlot) /\ wire' = {} /\ Input /\ DeleteSubs(S)
      /\ cont' = [cont EXCEPT ![c] = "gone"]
      /\ UNCHANGED <<val, objs, events, booted, todo, msgs, alive, watch>>
    BY DEF DeleteController, Handles
<1>2. S \in SUBSET Subs /\ cont' \in [Controllers -> {"on", "off", "gone"}]
    BY <1>1 DEF Inv, TypeOK, Live
<1> HIDE DEF S
<1> QED
    BY <1>1, <1>2, DeleteSubsKeeps

LEMMA DeleteObjectKeeps ==
    ASSUME Inv, NEW o \in Objects, NEW committed \in BOOLEAN, DeleteObject(o, committed)
    PROVE  Inv'
<1>1. /\ Turn(AnySlot) /\ wire' = {} /\ todo = {} /\ Input
      /\ UNCHANGED <<cont, val, retries, first, tm, booted, todo, msgs, alive, watch>>
      /\ subs' = ResolveDeletions(subs) /\ resolved' = TRUE
      /\ phase \in {"mq", "cli"} /\ phase' \in {"cli", "events"}
    BY TurnFacts, Slots DEF DeleteObject, Handles
<1>2. SubTypeOK /\ objs \subseteq Objects
    BY DEF Inv, TypeOK, SubTypeOK
<1>3. objs' \subseteq Objects /\ events' \subseteq [obj: Objects, type: LifeEvents]
  <2>1. [obj |-> o, type |-> "ObjectDeletion"] \in [obj: Objects, type: LifeEvents]
    BY DEF LifeEvents
  <2> QED
    BY <2>1 DEF Inv, TypeOK, DeleteObject
<1>4. /\ subs' \in [Subs -> Sub \cup {None}]
      /\ \A s \in Subs :
                /\ subs'[s] = None <=> subs[s] = None
                /\ subs[s] # None =>
                    /\ Alike(subs'[s], subs[s])
                    /\ subs'[s].resolved = IF ~resolved /\ Active(s, "ObjectDeletion")
                                           THEN subs[s].refs \cap objs ELSE subs[s].resolved
    BY <1>1, <1>2, ResolveFacts
<1>5. TimerKept' /\ RetriesOwned' /\ RetriesMade'
    BY <1>1, <1>4, RetriesLeft, Slots DEF Alike
<1>6. \A w \in watch : w[1] \in Subs
    BY DEF Inv, TypeOK
<1>7. DeletionKept'
    BY <1>1, <1>4, <1>6, SomethingDeleted, Slots DEF Inv
<1>8. inputs' \in 0..MaxInputs
    BY <1>1, InputFacts DEF Inv
<1>9. TypeOK'
    BY <1>1, <1>3, <1>4, <1>8 DEF Inv, TypeOK, Phases
<1> QED
    BY <1>1, <1>5, <1>7, <1>9 DEF Inv, CallsOwned

LEMMA SendOnBoardRequestKeeps ==
    ASSUME Inv, NEW c \in OnBoarding, SendOnBoardRequest(c)
    PROVE  Inv'
<1>1. RetriesFine /\ SubTypeOK /\ msgs \in Nat
    BY FineFromInv
<1>2. /\ Turn(AnySlot) /\ Input /\ msgs' = msgs + 1 /\ wire' = {msgs + 1} /\ todo = {}
      /\ UNCHANGED <<cont, subs, val, objs, events, resolved, booted, todo, alive, watch>>
      /\ phase \in {"mq", "cli"} /\ phase' \in {"cli", "events"}
    BY TurnFacts, Slots DEF SendOnBoardRequest
<1>3. PICK wait \in WaitTimes(1) : SUBS_RETRY_Add(OnBoard, Empty, c, Never, wait)
    BY DEF SendOnBoardRequest
<1>4. c \in Controllers /\ wait \in Times /\ Never \in Times /\ Empty \in Paths
    BY SubscriptionAssumption, ShortestWaits, NeverAssumption DEF Times, Paths
<1>5. /\ RetriesFine' /\ FirstIsEarliest(tm)'
      /\ retries' = {e \in retries : ~Matches(e, OnBoard, Empty)}
            \cup {[inst |-> OnBoard, path |-> Empty, cont |-> c, msg |-> msgs + 1,
                   count |-> 1, next |-> wait, expiry |-> Never]}
    BY <1>1, <1>3, <1>4, AddKeeps
<1>6. RetriesOwned' /\ RetriesMade'
    BY <1>1, <1>2, <1>4, <1>5, AddOwned DEF Inv
<1>7. TimerKept'
    BY <1>5 DEF TimerKept, RetriesFine
<1>8. DeletionKept'
    BY <1>2, NothingDeleted, Slots DEF Inv
<1>9. inputs' \in 0..MaxInputs
    BY <1>2, InputFacts DEF Inv
<1>10. TypeOK'
    BY <1>1, <1>2, <1>5, <1>9 DEF Inv, TypeOK, RetriesFine, Phases
<1> QED
    BY <1>2, <1>6, <1>7, <1>8, <1>10 DEF Inv, CallsOwned

LEMMA HandleNotifyRespKeeps ==
    ASSUME Inv, NEW m, HandleNotifyResp(m)
    PROVE  Inv'
<1>1. RetriesFine /\ SubTypeOK /\ msgs \in Nat
    BY FineFromInv
<1>2. /\ Turn({"mq"}) /\ wire' = {} /\ todo = {} /\ SUBS_RETRY_Remove(m)
      /\ UNCHANGED <<cont, subs, val, objs, events, resolved, booted, todo, msgs, inputs, alive, watch>>
      /\ phase \in {"mq", "cli"} /\ phase' \in {"cli", "events"}
    BY TurnFacts, Slots DEF HandleNotifyResp, Handles
<1>3. /\ RetriesFine' /\ (FirstIsEarliest(tm) => FirstIsEarliest(tm)')
      /\ retries' = {e \in retries : e.msg # m}
    BY <1>1, <1>2, RemoveKeeps
<1>4. \A e \in retries' : e.inst # OnBoard =>
                subs'[e.inst] # None /\ subs'[e.inst].cont = subs[e.inst].cont
    BY <1>2, <1>3 DEF Inv, RetriesOwned
<1>5. RetriesOwned' /\ RetriesMade'
    BY <1>1, <1>2, <1>3, <1>4, FewerOwned DEF Inv
<1>6. TimerKept'
    BY <1>2, <1>3 DEF Inv, TimerKept, RetriesFine
<1>7. DeletionKept'
    BY <1>2, NothingDeleted, Slots DEF Inv
<1>8. TypeOK'
    BY <1>2, <1>3 DEF Inv, TypeOK, RetriesFine, Phases
<1> QED
    BY <1>2, <1>5, <1>6, <1>7, <1>8 DEF Inv, CallsOwned

LEMMA ChangeValueKeeps ==
    ASSUME Inv, NEW p \in Params, NEW v \in Values, ChangeValue(p, v)
    PROVE  Inv'
<1>1. /\ Input /\ wire' = {} /\ val' = [val EXCEPT ![p] = v]
      /\ UNCHANGED <<cont, subs, objs, retries, first, tm, events, resolved, booted, phase,
                   todo, msgs, alive, watch>>
    BY DEF ChangeValue
<1>2. inputs' \in 0..MaxInputs
    BY <1>1, InputFacts DEF Inv
<1>3. TypeOK'
    BY <1>1, <1>2 DEF Inv, TypeOK
<1>4. TimerKept'
    BY <1>1 DEF Inv, TimerKept, TimerSet, FirstIsEarliest
<1>5. DeletionKept'
    BY <1>1, DeletionUnchanged DEF Inv
<1> QED
    BY <1>1, <1>3, <1>4, <1>5 DEF Inv, CallsOwned, RetriesMade, RetriesOwned, Matches
-----------------------------------------------------------------------------
(* The start of the process.                                               *)

LEMMA AddTimerFacts ==
    ASSUME NEW t \in TimerVector, NEW k \in Timers, k \notin t.reg, NEW r,
           r = SYNC_TIMER_Add(t, k, Never)
    PROVE  /\ r \in TimerVector /\ FirstIsEarliest(r)
           /\ r.reg = t.reg \cup {k} /\ r.on = t.on \cup {k} /\ r.at = [t.at EXCEPT ![k] = Never]
<1> DEFINE u == [t EXCEPT !.reg = @ \cup {k}, !.on = @ \cup {k}, !.at[k] = Never]
<1>1. Never \in Times
    BY NeverAssumption DEF Times
<1>2. u \in TimerVector
    BY <1>1 DEF TimerVector
<1>3. u.reg = t.reg \cup {k} /\ u.on = t.on \cup {k} /\ u.at = [t.at EXCEPT ![k] = Never]
    BY DEF TimerVector
<1>4. r = UpdateFirst(u)
    BY DEF SYNC_TIMER_Add
<1>5. r \in TimerVector /\ r = [u EXCEPT !.first = Earliest(u)] /\ FirstIsEarliest(r)
    BY <1>2, <1>4, EarliestFacts
<1>6. r.reg = u.reg /\ r.on = u.on /\ r.at = u.at
    BY <1>2, <1>5 DEF TimerVector
<1> QED
    BY <1>3, <1>5, <1>6

LEMMA StartTimersFacts ==
    /\ StartTimers \in TimerVector /\ StartTimers.reg = Timers
    /\ "SubsRetryExec" \in StartTimers.on /\ StartTimers.at["SubsRetryExec"] = Never
    /\ FirstIsEarliest(StartTimers)
<1> DEFINE t == SYNC_TIMER_Add(SYNC_TIMER_Init, "SubsRetryExec", Never)
           r == SYNC_TIMER_Add(t, "DEVICE_SUBSCRIPTION_Update", Never)
<1>1. Never \in Times
    BY NeverAssumption DEF Times
<1>2. /\ SYNC_TIMER_Init \in TimerVector /\ SYNC_TIMER_Init.reg = {} /\ SYNC_TIMER_Init.on = {}
      /\ SYNC_TIMER_Init.at \in [Timers -> Times]
    BY <1>1 DEF SYNC_TIMER_Init, TimerVector
<1>3. t = SYNC_TIMER_Add(SYNC_TIMER_Init, "SubsRetryExec", Never)
    OBVIOUS
<1>4. StartTimers = r
    BY DEF StartTimers
<1> HIDE DEF t
<1>5. /\ t \in TimerVector
      /\ t.reg = SYNC_TIMER_Init.reg \cup {"SubsRetryExec"}
      /\ t.on = SYNC_TIMER_Init.on \cup {"SubsRetryExec"}
      /\ t.at = [SYNC_TIMER_Init.at EXCEPT !["SubsRetryExec"] = Never]
    BY <1>2, <1>3, AddTimerFacts, RetryTimer
<1>6. t.reg = {"SubsRetryExec"} /\ "SubsRetryExec" \in t.on /\ t.at["SubsRetryExec"] = Never
    BY <1>2, <1>5, RetryTimer
<1>7. /\ r \in TimerVector /\ FirstIsEarliest(r)
      /\ r.reg = t.reg \cup {"DEVICE_SUBSCRIPTION_Update"}
      /\ r.on = t.on \cup {"DEVICE_SUBSCRIPTION_Update"}
      /\ r.at = [t.at EXCEPT !["DEVICE_SUBSCRIPTION_Update"] = Never]
    BY <1>5, <1>6, AddTimerFacts, RetryTimer
<1> HIDE DEF r
<1>8. r.reg = Timers /\ "SubsRetryExec" \in r.on
    BY <1>6, <1>7, SubscriptionAssumption
<1>9. r.at["SubsRetryExec"] = Never
    BY <1>5, <1>6, <1>7, RetryTimer DEF TimerVector
<1> QED
    BY <1>4, <1>7, <1>8, <1>9

LEMMA NothingToRetry == FirstOf({}) = Never
<1>1. {e.next : e \in {}} \cup {Never} = {Never} /\ {Never} \in SUBSET Nat
    BY NeverAssumption
<1>2. Min({Never}) = Never
    BY <1>1, MinIs
<1> QED
    BY <1>1, <1>2 DEF FirstOf

LEMMA InitKeeps == Init => Inv
<1> SUFFICES ASSUME Init
             PROVE  Inv
    OBVIOUS
<1>1. val \in [Params -> Values]
  <2>1. (CHOOSE v \in Values : TRUE) \in Values
    BY SubscriptionAssumption
  <2> QED
    BY <2>1 DEF Init
<1>2. subs \in [Subs -> Sub \cup {None}]
  <2>1. PICK rows \in Tables : subs = [s \in Subs |-> IF rows[s] = None THEN None ELSE Seeded(rows[s])]
    BY DEF Init
  <2>2. rows \in [Subs -> Sub \cup {None}]
    BY SubscriptionAssumption
  <2>3. \A s \in Subs : rows[s] # None => Seeded(rows[s]) \in Sub
    BY <1>1, <2>2, SeededFacts
  <2> QED
    BY <2>1, <2>3
<1>3. /\ retries = {} /\ first = Never /\ tm = StartTimers /\ events = {} /\ resolved = FALSE
      /\ booted = FALSE /\ phase = "select" /\ todo = {} /\ wire = {} /\ msgs = 0 /\ inputs = 0
      /\ alive = TRUE /\ watch = {} /\ objs = Objects /\ cont = [c \in Controllers |-> "on"]
    BY DEF Init
<1>4. MaxInputs \in Nat /\ Never \in Times
    BY SubscriptionAssumption, NeverAssumption DEF Times
<1>5. TypeOK
  <2>1. cont \in [Controllers -> {"on", "off", "gone"}] /\ objs \subseteq Objects
    BY <1>3
  <2>2. retries \subseteq Entry /\ first \in Times /\ tm \in TimerVector
    BY <1>3, <1>4, StartTimersFacts
  <2>3. /\ events \subseteq [obj: Objects, type: LifeEvents] /\ watch \subseteq Subs \X Objects
        /\ resolved \in BOOLEAN /\ booted \in BOOLEAN /\ alive \in BOOLEAN
        /\ phase \in Phases /\ todo \subseteq Call
    BY <1>3 DEF Phases
  <2>4. msgs \in Nat /\ wire \subseteq 1..msgs /\ inputs \in 0..MaxInputs
    BY <1>3, <1>4
  <2> QED
    BY <1>1, <1>2, <2>1, <2>2, <2>3, <2>4 DEF TypeOK
<1>6. TimerKept
    BY <1>3, StartTimersFacts, NothingToRetry DEF TimerKept, TimerSet
<1>7. DeletionKept
    BY <1>3 DEF DeletionKept, Early
<1> QED
    BY <1>3, <1>5, <1>6, <1>7 DEF Inv, CallsOwned, RetriesMade, RetriesOwned

LEMMA RestartKeeps ==
    ASSUME Inv, Restart
    PROVE  Inv'
<1>1. /\ Input /\ retries' = {} /\ first' = Never /\ tm' = StartTimers
      /\ events' = {} /\ resolved' = FALSE /\ booted' = FALSE
      /\ phase' = "select" /\ todo' = {} /\ wire' = {} /\ alive' = TRUE /\ watch' = {}
      /\ UNCHANGED <<cont, val, objs, msgs>>
      /\ subs' = [s \in Subs |-> IF subs[s] = None THEN None ELSE Seeded(subs[s])]
    BY DEF Restart
<1>2. \A s \in Subs : subs[s] # None => Seeded(subs[s]) \in Sub
    BY SeededFacts DEF Inv, TypeOK
<1>3. subs' \in [Subs -> Sub \cup {None}]
    BY <1>1, <1>2
<1>4. Never \in Times /\ inputs' \in 0..MaxInputs
    BY <1>1, InputFacts, NeverAssumption DEF Inv, Times
<1>5. TypeOK'
    BY <1>1, <1>3, <1>4, StartTimersFacts DEF Inv, TypeOK, Phases
<1>6. TimerKept'
    BY <1>1, StartTimersFacts, NothingToRetry DEF TimerKept, TimerSet, FirstIsEarliest
<1>7. DeletionKept'
    BY <1>1 DEF DeletionKept, Early
<1> QED
    BY <1>1, <1>5, <1>6, <1>7 DEF Inv, CallsOwned, RetriesMade, RetriesOwned
-----------------------------------------------------------------------------
(* The invariants.                                                         *)

LEMMA NextKeeps == Inv /\ [Next]_vars => Inv'
<1> SUFFICES ASSUME Inv, [Next]_vars
             PROVE  Inv'
    OBVIOUS
<1>1. CASE Send
    BY <1>1, SendNotifyKeeps DEF Send
<1>2. CASE TimerStep
    BY <1>2, SubsRetryExecKeeps, UpdateStartKeeps, UpdatePollKeeps, UpdateRearmKeeps DEF TimerStep
<1>3. CASE Round
    BY <1>3, WakeKeeps, EndTimersKeeps, ProcessEventsKeeps, NoActivityKeeps DEF Round
<1>4. CASE Tick
    BY <1>4, TickKeeps
<1>5. CASE Administer
    BY <1>5, AddSubsKeeps, DelSubsKeeps, NotifyChangeKeeps, SetControllerEnableKeeps,
       DeleteControllerKeeps DEF Administer, TimeToLiveOver
<1>6. CASE Environment
    BY <1>6, AddObjectKeeps, DeleteObjectKeeps, SignalEventKeeps, SendOnBoardRequestKeeps,
       HandleNotifyRespKeeps, EnableNotificationsKeeps, ChangeValueKeeps DEF Environment
<1>7. CASE Restart
    BY <1>7, RestartKeeps
<1>8. CASE UNCHANGED vars
  <2>1. TypeOK' /\ TimerKept' /\ CallsOwned'
    BY <1>8 DEF Inv, TypeOK, TimerKept, TimerSet, FirstIsEarliest, CallsOwned, vars
  <2>2. RetriesMade' /\ RetriesOwned'
    BY <1>8 DEF Inv, RetriesMade, RetriesOwned, Matches, vars
  <2>3. DeletionKept'
    BY <1>8, DeletionUnchanged DEF Inv, vars
  <2> QED
    BY <1>8, <2>1, <2>2, <2>3 DEF Inv, vars
<1> QED
    BY <1>1, <1>2, <1>3, <1>4, <1>5, <1>6, <1>7, <1>8 DEF Next

(* Inv is an invariant: of the timers, the retries, their owners and what  *)
(* is watched for deletion, between any two steps of the loop.             *)
THEOREM Invariance == Spec => []Inv
BY InitKeeps, NextKeeps, PTL DEF Spec

(* The variables have their types, for any number of notifications.        *)
THEOREM TypeCorrect == Spec => []TypeOK
<1>1. Inv => TypeOK
    BY DEF Inv
<1> QED
    BY Invariance, <1>1, PTL

(* Whenever the thread sleeps, it wakes for the first retry.               *)
THEOREM RetryTimerIsArmed == Spec => []RetryTimerArmed
<1>1. Inv => RetryTimerArmed
  <2> SUFFICES ASSUME Inv, phase = "select"
               PROVE  /\ "SubsRetryExec" \in tm.on /\ tm.at["SubsRetryExec"] = first
                      /\ \A e \in retries : first <= e.next
                      /\ FirstIsEarliest(tm)
    BY DEF RetryTimerArmed
  <2>1. RetriesFine
    BY FineFromInv
  <2>2. \A e \in retries : first <= e.next
    BY <2>1, FirstOfFacts DEF RetriesFine, TimerSet
  <2> QED
    BY <2>2 DEF Inv, TimerKept, TimerSet
<1> QED
    BY Invariance, <1>1, PTL

(* A retry belongs to a subscription that exists, and there is one for a   *)
(* path and for a message.                                                 *)
THEOREM RetriesAreOwned == Spec => []RetriesOwned
<1>1. Inv => RetriesOwned
    BY DEF Inv
<1> QED
    BY Invariance, <1>1, PTL

(* The USP_ASSERT of SubsRetryExec never fails.                            *)
THEOREM NeverAsserts == Spec => []AssertionsHold
<1>1. Inv => AssertionsHold
    BY DEF Inv, AssertionsHold
<1> QED
    BY Invariance, <1>1, PTL
-----------------------------------------------------------------------------
(* Deletions are notified.                                                 *)

(* Events go only when they are sent, and with the process.                *)
LEMMA EventsStay ==
    ASSUME Next, ~ProcessEvents, ~EnableNotifications, ~Restart
    PROVE  events \subseteq events'
<1>1. CASE Send
    BY <1>1 DEF Send, SendNotify
<1>2. CASE TimerStep
    BY <1>2 DEF TimerStep, SubsRetryExec, UpdateStart, UpdatePoll, UpdateRearm
<1>3. CASE Round
    BY <1>3 DEF Round, Wake, EndTimers, NoActivity
<1>4. CASE Tick
    BY <1>4 DEF Tick
<1>5. CASE Administer
    BY <1>5 DEF Administer, AddSubs, DelSubs, TimeToLiveOver, NotifyChange_SubsEnable,
       NotifyChange_NotifyType, NotifyChange_SubsRefList, NotifyChange_NotifRetry,
       NotifyChange_NotifExpiration, NotifyChange_SubsTimeToLive, SetSubs, SetControllerEnable,
       DeleteController
<1>6. CASE Environment
    BY <1>6 DEF Environment, AddObject, DeleteObject, SignalEvent, SendOnBoardRequest,
       HandleNotifyResp, ChangeValue
<1> QED
    BY <1>1, <1>2, <1>3, <1>4, <1>5, <1>6 DEF Next

LEMMA WatchedIsCalled ==
    ASSUME Inv, ProcessEvents, NEW ev \in events, NEW s \in Subs, ev.type = "ObjectDeletion",
           <<s, ev.obj>> \in watch, Active(s, "ObjectDeletion"), ev.obj \in subs[s].refs
    PROVE  [inst |-> s, path |-> ev.obj] \in todo'
<1>1. ev \in [obj: Objects, type: LifeEvents] /\ ev.obj \in Objects
    BY DEF Inv, TypeOK
<1>2. ev = Deletion(ev.obj)
    BY <1>1 DEF Deletion
<1>3. ResolvedInTime(s, ev.obj)
  <2>1. phase = "events"
    BY DEF ProcessEvents
  <2>2. \A w \in watch : ResolvedInTime(w[1], w[2])
    BY <2>1 DEF Inv, DeletionKept
  <2> QED
    BY <2>2
<1>4. ev.obj \in subs[s].resolved /\ subs[s].type = "ObjectDeletion"
    BY <1>2, <1>3 DEF ResolvedInTime, Active
<1>5. ev.obj \in Watched(subs[s])
    BY <1>4 DEF Watched
<1> DEFINE n == [inst |-> s, path |-> ev.obj]
<1>6. n \in Call /\ n.inst = s /\ n.path = ev.obj
    BY <1>1 DEF Call, Paths
<1> HIDE DEF n
<1>7. n \in LifeCalls
    BY <1>5, <1>6 DEF LifeCalls
<1> QED
    BY <1>7 DEF n, ProcessEvents, ProcessLifeEvents

(* No object that a subscription covered from the beginning of the round   *)
(* on goes without a notification, whatever comes before its deletion.     *)
THEOREM DeletionsAreNotified == Spec => DeletionNotified
<1> DEFINE Told(ev, s) ==
        events' = {} /\ inputs' = inputs /\ ev.type = "ObjectDeletion"
            /\ <<s, ev.obj>> \in watch /\ Active(s, "ObjectDeletion")
            /\ ev.obj \in subs[s].refs
          => [inst |-> s, path |-> ev.obj] \in todo'
<1>1. Inv /\ [Next]_vars => [\A ev \in events, s \in Subs : Told(ev, s)]_vars
  <2> SUFFICES ASSUME Inv, Next, NEW ev \in events, NEW s \in Subs,
                      events' = {}, inputs' = inputs, ev.type = "ObjectDeletion",
                      <<s, ev.obj>> \in watch, Active(s, "ObjectDeletion"), ev.obj \in subs[s].refs
               PROVE  [inst |-> s, path |-> ev.obj] \in todo'
    OBVIOUS
  <2>1. CASE ProcessEvents
    BY <2>1, WatchedIsCalled
  <2>2. ~EnableNotifications
    BY DEF Inv, DeletionKept, EnableNotifications
  <2>3. ~Restart
    BY DEF Inv, TypeOK, Restart, Input
  <2> QED
    BY <2>1, <2>2, <2>3, EventsStay
<1> QED
    BY Invariance, <1>1, PTL DEF Spec, DeletionNotified
-----------------------------------------------------------------------------
(* Values are reported before they count as seen.                          *)

(* Resolving deletion paths and deleting subscriptions leave the one that  *)
(* is polled as it is.                                                     *)
LEMMA PolledStays ==
    ASSUME NEW s \in Subs, Polled(s, subs), NEW S
    PROVE  /\ ResolveDeletions(subs)[s] = subs[s]
           /\ WithoutSubs(S)[s] = None \/ WithoutSubs(S)[s] = subs[s]
<1>1. ~Active(s, "ObjectDeletion")
    BY DEF Polled, Active
<1>2. ResolveDeletions(subs)[s] = subs[s]
    BY <1>1 DEF ResolveDeletions
<1> QED
    BY <1>2 DEF WithoutSubs

(* SetSubs replaces one row. *)
LEMMA SetSubsRow ==
    ASSUME TypeOK, NEW s \in Subs, NEW x, NEW sub, SetSubs(x, sub)
    PROVE  subs'[s] = IF s = x THEN sub ELSE subs[s]
BY DEF TypeOK, SetSubs

(* Only a poll and a restart replace the values seen last.                 *)
LEMMA LastStays ==
    ASSUME TypeOK, Next, ~UpdatePoll, ~Restart, NEW s \in Subs, Polled(s, subs), subs'[s] # None
    PROVE  subs'[s].last = subs[s].last
<1>0. subs[s] \in Sub /\ subs[s] # None /\ subs[s].enable /\ subs[s].type = "ValueChange"
    BY DEF TypeOK, Polled
<1>1. CASE Send
    BY <1>1 DEF Send, SendNotify
<1>2. CASE TimerStep
    BY <1>2, PolledStays DEF TimerStep, SubsRetryExec, UpdateStart, UpdateRearm
<1>3. ASSUME ProcessLifeEvents
      PROVE  subs'[s].last = subs[s].last
    BY <1>0, <1>3 DEF ProcessLifeEvents, Active
<1>4. CASE Round
    BY <1>3, <1>4 DEF Round, Wake, EndTimers, NoActivity, ProcessEvents
<1>5. CASE Tick
  <2>1. subs'[s] = [subs[s] EXCEPT !.expiry = Sooner(@)]
    BY <1>0, <1>5 DEF Tick
  <2> QED
    BY <1>0, <2>1 DEF Sub
<1>6. CASE Administer
  <2>1. ASSUME NEW x \in Subs, NEW sub \in Offers, AddSubs(x, sub)
        PROVE  subs'[s].last = subs[s].last
    BY <1>0, <2>1 DEF AddSubs, TypeOK
  <2>2. ASSUME NEW S, DeleteSubs(S)
        PROVE  subs'[s].last = subs[s].last
    BY <2>2, PolledStays DEF DeleteSubs
  <2>3. ASSUME NEW x \in Live, NotifyChange_SubsEnable(x)
        PROVE  subs'[s].last = subs[s].last
    <3> DEFINE l == IF ~subs[x].enable /\ subs[x].type = "ValueChange"
                    THEN CurrentValues(subs[x].refs) ELSE subs[x].last
               new == [subs[x] EXCEPT !.enable = ~@, !.last = l]
    <3>1. x \in Subs /\ subs[x] \in Sub
      BY DEF TypeOK, Live
    <3>2. SetSubs(x, new)
      BY <2>3, <3>1 DEF NotifyChange_SubsEnable
    <3>3. s = x => l = subs[s].last
      BY <1>0
    <3> HIDE DEF l
    <3>4. s = x => new.last = subs[s].last
      BY <3>1, <3>3 DEF Sub
    <3> HIDE DEF new
    <3> QED
      BY <3>2, <3>4, SetSubsRow
  <2>4. ASSUME NEW x \in Live, NEW type \in Types, NotifyChange_NotifyType(x, type)
        PROVE  subs'[s].last = subs[s].last
    <3> DEFINE l == IF subs[x].enable /\ type = "ValueChange" /\ subs[x].type # type
                    THEN CurrentValues(subs[x].refs) ELSE subs[x].last
               new == [subs[x] EXCEPT !.type = type, !.last = l]
    <3>1. x \in Subs /\ subs[x] \in Sub
      BY DEF TypeOK, Live
    <3>2. SetSubs(x, new)
      BY <2>4, <3>1 DEF NotifyChange_NotifyType
    <3>3. s = x => l = subs[s].last
      BY <1>0
    <3> HIDE DEF l
    <3>4. s = x => new.last = subs[s].last
      BY <3>1, <3>3 DEF Sub
    <3> HIDE DEF new
    <3> QED
      BY <3>2, <3>4, SetSubsRow
  <2>5. ASSUME NEW x \in Live,
               \/ \E refs \in SUBSET Paths : NotifyChange_SubsRefList(x, refs)
               \/ NotifyChange_NotifRetry(x)
               \/ \E period \in Periods : NotifyChange_NotifExpiration(x, period)
               \/ \E sub \in Offers : NotifyChange_SubsTimeToLive(x, sub.expiry)
        PROVE  subs'[s].last = subs[s].last
    <3>1. CASE \E refs \in SUBSET Paths : NotifyChange_SubsRefList(x, refs)
      BY <1>0, <3>1, SetSubsRow DEF NotifyChange_SubsRefList, Sub
    <3>2. CASE NotifyChange_NotifRetry(x)
      BY <1>0, <3>2, SetSubsRow DEF NotifyChange_NotifRetry, Sub
    <3>3. CASE \E period \in Periods : NotifyChange_NotifExpiration(x, period)
      BY <1>0, <3>3, SetSubsRow DEF NotifyChange_NotifExpiration, Sub
    <3>4. CASE \E sub \in Offers : NotifyChange_SubsTimeToLive(x, sub.expiry)
      BY <1>0, <3>4, SetSubsRow DEF NotifyChange_SubsTimeToLive, Sub
    <3> QED
      BY <2>5, <3>1, <3>2, <3>3, <3>4
  <2>6. ASSUME NEW c \in Controllers, SetControllerEnable(c)
        PROVE  subs'[s].last = subs[s].last
    BY <2>6 DEF SetControllerEnable
  <2> QED
    BY <1>6, <2>1, <2>2, <2>3, <2>4, <2>5, <2>6
       DEF Administer, DelSubs, TimeToLiveOver, DeleteController
<1>7. CASE Environment
  <2>1. ASSUME NEW o \in Objects, NEW committed \in BOOLEAN, DeleteObject(o, committed)
        PROVE  subs'[s].last = subs[s].last
    BY <2>1, PolledStays DEF DeleteObject
  <2> QED
    BY <1>3, <1>7, <2>1 DEF Environment, AddObject, SignalEvent, SendOnBoardRequest,
       HandleNotifyResp, EnableNotifications, ChangeValue
<1> QED
    BY <1>1, <1>2, <1>4, <1>5, <1>6, <1>7 DEF Next

(* A poll sends the change of a value it replaces. *)
LEMMA PollCalls ==
    ASSUME TypeOK, UpdatePoll, NEW s \in Subs, NEW p \in Params,
           Polled(s, subs), p \in subs[s].refs, subs[s].last[p] # NoValue,
           subs'[s] # None, subs'[s].last[p] # subs[s].last[p]
    PROVE  [inst |-> s, path |-> p] \in todo'
<1> DEFINE gone == {x \in Live : ~booted /\ (~subs[x].persistent \/ subs[x].expiry = 0)}
           kept == WithoutSubs(gone)
           n == [inst |-> s, path |-> p]
<1>1. /\ todo' = ValueChanges(kept)
      /\ subs'[s] = IF Polled(s, kept)
                    THEN [kept[s] EXCEPT !.last = CurrentValues(kept[s].refs)] ELSE kept[s]
    BY DEF UpdatePoll
<1>2. kept[s] = None \/ kept[s] = subs[s]
    BY PolledStays
<1> HIDE DEF kept
<1>3. kept[s] # None
    BY <1>1 DEF Polled
<1>4. kept[s] = subs[s] /\ Polled(s, kept) /\ subs[s] \in Sub
    BY <1>2, <1>3 DEF Polled, TypeOK
<1>5. subs'[s].last[p] = val[p]
    BY <1>1, <1>4 DEF Sub, CurrentValues
<1>6. p \in Changed(kept[s])
    BY <1>4, <1>5 DEF Changed
<1>7. n \in Call /\ n.inst = s /\ n.path = p
    BY DEF Call, Paths
<1> HIDE DEF n
<1>8. n \in ValueChanges(kept)
    BY <1>4, <1>6, <1>7 DEF ValueChanges
<1> QED
    BY <1>1, <1>8 DEF n

(* No value gives way to another one without a notification of the change: *)
(* polls, deletions, Sets and messages in any order, for any number of     *)
(* subscriptions and parameters.                                           *)
THEOREM ChangesAreReported == Spec => SeenIsReported
<1> DEFINE Told(s, p) ==
        (/\ Polled(s, subs) /\ p \in subs[s].refs /\ subs[s].last[p] # NoValue
         /\ subs'[s] # None /\ subs'[s].last[p] # subs[s].last[p]
         /\ ~Restart)
          => [inst |-> s, path |-> p] \in todo'
<1>1. TypeOK /\ [Next]_vars => [\A s \in Subs, p \in Params : Told(s, p)]_vars
  <2> SUFFICES ASSUME TypeOK, Next, NEW s \in Subs, NEW p \in Params,
                      Polled(s, subs), p \in subs[s].refs, subs[s].last[p] # NoValue,
                      subs'[s] # None, subs'[s].last[p] # subs[s].last[p], ~Restart
               PROVE  [inst |-> s, path |-> p] \in todo'
    OBVIOUS
  <2>1. UpdatePoll
    BY LastStays
  <2> QED
    BY <2>1, PollCalls
<1> QED
    BY TypeCorrect, <1>1, PTL DEF Spec, SeenIsReported
-----------------------------------------------------------------------------
(* The retries implement the board.                                        *)

KeyOf(e) == [inst |-> e.inst, path |-> e.path, cont |-> e.cont]
NoticeOf(e) == [key |-> KeyOf(e), msg |-> e.msg, forever |-> e.expiry = Never]
Keys == [inst: Subs \cup {OnBoard}, path: Paths, cont: Controllers]
Posted == {NoticeOf(e) : e \in retries}

(* The actions of the board, on what the retries stand for. *)
LEMMA BoardSteps ==
    /\ Posted = {[key |-> [inst |-> e.inst, path |-> e.path, cont |-> e.cont],
                  msg |-> e.msg, forever |-> e.expiry = Never] : e \in retries}
    /\ Board!vars = <<Posted, wire, msgs>>
    /\ Board!Init <=> Posted = {} /\ wire = {} /\ msgs = 0
    /\ Board!Next <=>
        \/ \E k \in Keys, forever \in BOOLEAN :
            /\ Posted' = {b \in Posted : b.key # k}
                            \cup {[key |-> k, msg |-> msgs + 1, forever |-> forever]}
            /\ wire' = {msgs + 1} /\ msgs' = msgs + 1
        \/ msgs' = msgs + 1 /\ wire' = {msgs + 1} /\ Posted' = Posted
        \/ /\ Posted' \subseteq Posted /\ (\A b \in Posted \ Posted' : ~b.forever)
           /\ wire' \subseteq {b.msg : b \in Posted} /\ msgs' = msgs
        \/ \E m \in 1..msgs : /\ Posted' = {b \in Posted : b.msg # m}
                              /\ wire' = {} /\ msgs' = msgs
        \/ \E I \in SUBSET {k.inst : k \in Keys} :
                              /\ Posted' = {b \in Posted : b.key.inst \notin I}
                              /\ wire' = {} /\ msgs' = msgs
        \/ Posted' = {} /\ wire' = {} /\ msgs' = msgs
BY DEF Posted, NoticeOf, KeyOf, Keys, Board!vars, Board!Init, Board!Next, Board!Notify,
   Board!NotifyOnce, Board!Serve, Board!Answer, Board!Withdraw, Board!Clear

(* One controller is on-boarded: with two, the entry of one takes the      *)
(* place of the other's.                                                   *)
OneOnBoarding == \A c, d \in OnBoarding : c = d

LEMMA KeyFacts ==
    ASSUME NEW e \in Entry
    PROVE  /\ KeyOf(e) \in Keys /\ KeyOf(e).inst = e.inst
           /\ NoticeOf(e).key = KeyOf(e) /\ NoticeOf(e).msg = e.msg
           /\ NoticeOf(e).forever <=> e.expiry = Never
BY DEF KeyOf, NoticeOf, Keys, Entry

(* Steps that send nothing and leave the retries alone. *)
LEMMA BoardStays ==
    ASSUME retries' = retries, wire' = {}, msgs' = msgs
    PROVE  Board!Next
BY BoardSteps DEF Posted

(* SUBS_RETRY_Add: the entry it replaces is of the same controller. *)
LEMMA BoardNotified ==
    ASSUME RetriesFine, RetriesOwned, RetriesMade, OneOnBoarding,
           msgs \in Nat, msgs' = msgs + 1, wire' = {msgs + 1},
           NEW inst \in Subs \cup {OnBoard}, NEW path \in Paths, NEW c \in Controllers,
           NEW expiry \in Times, NEW wait \in Times,
           retries' = {e \in retries : ~Matches(e, inst, path)}
                \cup {[inst |-> inst, path |-> path, cont |-> c, msg |-> msgs + 1,
                       count |-> 1, next |-> wait, expiry |-> expiry]},
           inst # OnBoard => subs[inst].cont = c,
           inst = OnBoard => path = Empty /\ c \in OnBoarding
    PROVE  Board!Next
<1> DEFINE k == [inst |-> inst, path |-> path, cont |-> c]
           new == [inst |-> inst, path |-> path, cont |-> c, msg |-> msgs + 1,
                   count |-> 1, next |-> wait, expiry |-> expiry]
           f == expiry = Never
<1>1. k \in Keys /\ f \in BOOLEAN
    BY DEF Keys
<1>2. NoticeOf(new) = [key |-> k, msg |-> msgs + 1, forever |-> f]
    BY DEF NoticeOf, KeyOf
<1>3. \A e \in retries : Matches(e, inst, path) <=> NoticeOf(e).key = k
  <2> SUFFICES ASSUME NEW e \in retries
               PROVE  Matches(e, inst, path) <=> KeyOf(e) = k
    BY KeyFacts DEF RetriesFine
  <2>1. Matches(e, inst, path) => e.cont = c
    BY DEF Matches, RetriesOwned, RetriesMade, OneOnBoarding
  <2> QED
    BY <2>1 DEF Matches, KeyOf
<1> HIDE DEF k, new, f
<1>4. retries' = {e \in retries : ~Matches(e, inst, path)} \cup {new}
    BY DEF new
<1>5. Posted' = {NoticeOf(e) : e \in retries'}
    BY DEF Posted, NoticeOf, KeyOf
<1>6. Posted' = {b \in Posted : b.key # k} \cup {NoticeOf(new)}
    BY <1>3, <1>4, <1>5 DEF Posted
<1> QED
    BY <1>1, <1>2, <1>6, BoardSteps

(* Entries that keep their place, and others that are given up. *)
LEMMA BoardServed ==
    ASSUME RetriesFine, NEW D \in SUBSET retries, NEW G \in [D -> Entry],
           retries' = {G[e] : e \in D}, msgs' = msgs, wire' \subseteq {e.msg : e \in retries},
           \A e \in D : G[e].inst = e.inst /\ G[e].path = e.path /\ G[e].cont = e.cont
                        /\ G[e].msg = e.msg /\ (G[e].expiry = Never <=> e.expiry = Never),
           \A e \in retries \ D : e.expiry # Never
    PROVE  Board!Next
<1>1. \A e \in D : NoticeOf(G[e]) = NoticeOf(e)
    BY DEF NoticeOf, KeyOf
<1>2. Posted' = {NoticeOf(e) : e \in retries'}
    BY DEF Posted, NoticeOf, KeyOf
<1>3. Posted' = {NoticeOf(e) : e \in D}
    BY <1>1, <1>2
<1>4. Posted' \subseteq Posted
    BY <1>3 DEF Posted
<1>5. \A b \in Posted \ Posted' : ~b.forever
  <2> SUFFICES ASSUME NEW b \in Posted, b \notin Posted'
               PROVE  ~b.forever
    OBVIOUS
  <2>1. PICK e \in retries : b = NoticeOf(e)
    BY DEF Posted
  <2>2. e \notin D
    BY <1>3, <2>1
  <2>3. e \in Entry /\ e.expiry # Never
    BY <2>2 DEF RetriesFine
  <2>4. ~NoticeOf(e).forever
    BY <2>3, KeyFacts, Zenon
  <2> QED
    BY <2>1, <2>4, Zenon
<1>6. wire' \subseteq {b.msg : b \in Posted}
    BY KeyFacts DEF Posted, RetriesFine
<1> QED
    BY <1>4, <1>5, <1>6, BoardSteps

(* Subscriptions that go. *)
LEMMA BoardWithdrawn ==
    ASSUME RetriesFine, NEW S \in SUBSET Subs, retries' = {e \in retries : e.inst \notin S},
           msgs' = msgs, wire' = {}
    PROVE  Board!Next
<1> DEFINE I == {e.inst : e \in {x \in retries : x.inst \in S}}
<1>1. I \in SUBSET {k.inst : k \in Keys}
    BY KeyFacts DEF RetriesFine
<1>2. Posted' = {NoticeOf(e) : e \in retries'}
    BY DEF Posted, NoticeOf, KeyOf
<1>3. \A e \in retries : NoticeOf(e).key.inst = e.inst
    BY KeyFacts DEF RetriesFine
<1>4. \A e \in retries : e.inst \in I <=> e.inst \in S
    OBVIOUS
<1> HIDE DEF I
<1>5. Posted' = {b \in Posted : b.key.inst \notin I}
    BY <1>2, <1>3, <1>4 DEF Posted
<1> QED
    BY <1>1, <1>5, BoardSteps

(* A response. *)
LEMMA BoardAnswered ==
    ASSUME RetriesFine, NEW m \in 1..msgs, retries' = {e \in retries : e.msg # m},
           msgs' = msgs, wire' = {}
    PROVE  Board!Next
<1>1. Posted' = {NoticeOf(e) : e \in retries'}
    BY DEF Posted, NoticeOf, KeyOf
<1>2. \A e \in retries : NoticeOf(e).msg = e.msg
    BY KeyFacts DEF RetriesFine
<1>3. Posted' = {b \in Posted : b.msg # m}
    BY <1>1, <1>2 DEF Posted
<1> QED
    BY <1>3, BoardSteps

LEMMA SendNotifyBoard ==
    ASSUME Inv, OneOnBoarding, NEW n \in todo, SendNotify(n)
    PROVE  Board!Next
<1> DEFINE sub == subs[n.inst]
<1>1. RetriesFine /\ SubTypeOK /\ msgs \in Nat /\ RetriesOwned /\ RetriesMade
    BY FineFromInv DEF Inv
<1>2. n.inst \in Subs /\ n.path \in Paths /\ n.inst # OnBoard
    BY SubscriptionAssumption DEF Inv, TypeOK, Call
<1>3. sub \in Sub /\ sub.cont \in Controllers
    BY <1>1, <1>2 DEF Inv, CallsOwned, SubTypeOK, Sub
<1>4. CASE cont[sub.cont] # "on"
    BY <1>4, BoardStays DEF SendNotify
<1>5. CASE cont[sub.cont] = "on" /\ ~sub.retry
  <2>1. wire' = {msgs + 1} /\ msgs' = msgs + 1 /\ retries' = retries
    BY <1>5 DEF SendNotify
  <2> QED
    BY <2>1, BoardSteps DEF Posted
<1>6. CASE cont[sub.cont] = "on" /\ sub.retry
  <2>1. wire' = {msgs + 1} /\ msgs' = msgs + 1
    BY <1>6 DEF SendNotify
  <2>2. PICK wait \in WaitTimes(1) : SUBS_RETRY_Add(n.inst, n.path, sub.cont, Expiry(sub), wait)
    BY <1>6 DEF SendNotify
  <2>3. wait \in Times /\ Expiry(sub) \in Times
    BY <1>3, ShortestWaits, ExpiryTime
  <2>4. retries' = {e \in retries : ~Matches(e, n.inst, n.path)}
                \cup {[inst |-> n.inst, path |-> n.path, cont |-> sub.cont, msg |-> msgs + 1,
                       count |-> 1, next |-> wait, expiry |-> Expiry(sub)]}
    BY <1>1, <1>2, <1>3, <2>2, <2>3, AddKeeps
  <2> QED
    BY <1>1, <1>2, <1>3, <2>1, <2>3, <2>4, BoardNotified
<1> QED
    BY <1>3, <1>4, <1>5, <1>6 DEF Sub

LEMMA SendOnBoardRequestBoard ==
    ASSUME Inv, OneOnBoarding, NEW c \in OnBoarding, SendOnBoardRequest(c)
    PROVE  Board!Next
<1>1. RetriesFine /\ msgs \in Nat /\ RetriesOwned /\ RetriesMade
    BY FineFromInv DEF Inv
<1>2. msgs' = msgs + 1 /\ wire' = {msgs + 1}
    BY DEF SendOnBoardRequest
<1>3. PICK wait \in WaitTimes(1) : SUBS_RETRY_Add(OnBoard, Empty, c, Never, wait)
    BY DEF SendOnBoardRequest
<1>4. c \in Controllers /\ wait \in Times /\ Never \in Times /\ Empty \in Paths
    BY SubscriptionAssumption, ShortestWaits, NeverAssumption DEF Times, Paths
<1>5. retries' = {e \in retries : ~Matches(e, OnBoard, Empty)}
            \cup {[inst |-> OnBoard, path |-> Empty, cont |-> c, msg |-> msgs + 1,
                   count |-> 1, next |-> wait, expiry |-> Never]}
    BY <1>1, <1>3, <1>4, AddKeeps
<1> QED
    BY <1>1, <1>2, <1>4, <1>5, BoardNotified

(* SubsRetryExec gives up no entry that has no expiry: its waits end       *)
(* before the end of time.                                                 *)
LEMMA SubsRetryExecBoard ==
    ASSUME Inv, SubsRetryExec
    PROVE  Board!Next
<1>1. RetriesFine
    BY FineFromInv
<1>2. PICK w \in Waits : retries' = AfterRetries(w)
    BY DEF SubsRetryExec
<1> DEFINE G == [e \in Kept(w) |-> Served(w, e)]
<1>3. Kept(w) \in SUBSET retries
    BY DEF Kept
<1>4. retries' = {G[e] : e \in Kept(w)}
    BY <1>1, <1>2, AfterRetriesFacts
<1>5. /\ G \in [Kept(w) -> Entry]
      /\ \A e \in Kept(w) : G[e].inst = e.inst /\ G[e].path = e.path /\ G[e].cont = e.cont
                            /\ G[e].msg = e.msg /\ G[e].expiry = e.expiry
    BY <1>1, <1>3, ServedFacts
<1> HIDE DEF G
<1>6. \A e \in retries \ Kept(w) : e.expiry # Never
  <2>1. \A e \in retries : ToRetry(e) => w[e] < Never
    BY <1>1, WaitsFacts
  <2> QED
    BY <2>1, NeverAssumption DEF Kept, Expired
<1>7. msgs' = msgs /\ wire' \subseteq {e.msg : e \in retries}
    BY DEF SubsRetryExec
<1> QED
    BY <1>1, <1>3, <1>4, <1>5, <1>6, <1>7, BoardServed

LEMMA TickBoard ==
    ASSUME Inv, Tick
    PROVE  Board!Next
<1>1. RetriesFine
    BY FineFromInv
<1> DEFINE G == [e \in retries |-> Aged(e)]
<1>2. retries' = {G[e] : e \in retries} /\ msgs' = msgs /\ wire' = {}
    BY DEF Tick, Aged
<1>3. /\ retries \in SUBSET retries /\ G \in [retries -> Entry]
      /\ \A e \in retries : G[e].inst = e.inst /\ G[e].path = e.path /\ G[e].cont = e.cont
                            /\ G[e].msg = e.msg /\ G[e].expiry = Sooner(e.expiry)
                            /\ e.expiry \in Times
    BY <1>1, AgedFacts DEF RetriesFine, Entry
<1> HIDE DEF G
<1>4. \A e \in retries : G[e].expiry = Never <=> e.expiry = Never
    BY <1>3, SoonerFacts
<1> QED
    BY <1>1, <1>2, <1>3, <1>4, BoardServed

LEMMA UpdateBoard ==
    ASSUME Inv, UpdateStart \/ UpdatePoll
    PROVE  Board!Next
<1>1. RetriesFine
    BY FineFromInv
<1>2. msgs' = msgs /\ wire' = {}
    BY DEF UpdateStart, UpdatePoll
<1>3. \E S \in SUBSET Subs : \E t : SUBS_RETRY_Delete(S, t)
    BY DEF UpdateStart, UpdatePoll, Live
<1>4. PICK S \in SUBSET Subs : retries' = {e \in retries : e.inst \notin S}
    BY <1>3 DEF SUBS_RETRY_Delete, UpdateFirstRetryTime
<1> QED
    BY <1>1, <1>2, <1>4, BoardWithdrawn

(* Every step is a step of the board. *)
LEMMA BoardStep ==
    ASSUME Inv, OneOnBoarding, [Next]_vars
    PROVE  [Board!Next]_(Board!vars)
<1>0. RetriesFine
    BY FineFromInv
<1>1. CASE Send
    BY <1>1, SendNotifyBoard DEF Send
<1>2. CASE TimerStep
  <2>1. CASE UpdateRearm
    BY <2>1, BoardStays DEF UpdateRearm
  <2> QED
    BY <1>2, <2>1, SubsRetryExecBoard, UpdateBoard DEF TimerStep
<1>3. CASE Round
    BY <1>3, BoardStays DEF Round, Wake, EndTimers, ProcessEvents, NoActivity, Handles
<1>4. CASE Tick
    BY <1>4, TickBoard
<1>5. CASE Administer
  <2>1. ASSUME NEW s \in Subs, DelSubs(s)
        PROVE  Board!Next
    <3>1. {s} \in SUBSET Subs /\ retries' = {e \in retries : e.inst \notin {s}}
          /\ msgs' = msgs /\ wire' = {}
      BY <2>1, DelSubsKeeps
    <3> QED
      BY <1>0, <3>1, BoardWithdrawn
  <2>2. ASSUME NEW c \in Controllers, DeleteController(c)
        PROVE  Board!Next
    BY <1>0, <2>2, DeleteControllerKeeps, BoardWithdrawn
  <2>3. ASSUME NEW s, NEW sub, SetSubs(s, sub)
        PROVE  Board!Next
    BY <2>3, BoardStays DEF SetSubs, Handles
  <2>4. ASSUME NEW c \in Controllers, SetControllerEnable(c)
        PROVE  Board!Next
    BY <2>4, BoardStays DEF SetControllerEnable, Handles
  <2>5. ASSUME NEW s \in Subs, NEW sub \in Offers, AddSubs(s, sub)
        PROVE  Board!Next
    BY <2>5, BoardStays DEF AddSubs, Handles
  <2>6. ASSUME NEW s \in Live,
               \/ NotifyChange_SubsEnable(s)
               \/ \E type \in Types : NotifyChange_NotifyType(s, type)
               \/ \E refs \in SUBSET Paths : NotifyChange_SubsRefList(s, refs)
               \/ NotifyChange_NotifRetry(s)
               \/ \E period \in Periods : NotifyChange_NotifExpiration(s, period)
               \/ \E sub \in Offers : NotifyChange_SubsTimeToLive(s, sub.expiry)
        PROVE  Board!Next
    BY <2>3, <2>6 DEF NotifyChange_SubsEnable, NotifyChange_NotifyType,
       NotifyChange_SubsRefList, NotifyChange_NotifRetry, NotifyChange_NotifExpiration,
       NotifyChange_SubsTimeToLive
  <2> QED
    BY <1>5, <2>1, <2>2, <2>4, <2>5, <2>6 DEF Administer, TimeToLiveOver
<1>6. CASE Environment
  <2>1. ASSUME NEW m \in 1..msgs, HandleNotifyResp(m)
        PROVE  Board!Next
    <3>1. /\ retries' = {e \in retries : e.msg # m}
          /\ msgs' = msgs /\ wire' = {}
      BY <1>0, <2>1, RemoveKeeps DEF HandleNotifyResp, Handles
    <3> QED
      BY <1>0, <3>1, BoardAnswered
  <2>2. ASSUME NEW o \in Objects,
               AddObject(o) \/ \E committed \in BOOLEAN : DeleteObject(o, committed)
        PROVE  Board!Next
    BY <2>2, BoardStays DEF AddObject, DeleteObject, Handles
  <2>3. ASSUME NEW ev \in Events, SignalEvent(ev)
        PROVE  Board!Next
    BY <2>3, BoardStays DEF SignalEvent, Handles
  <2>4. CASE EnableNotifications
    BY <2>4, BoardStays DEF EnableNotifications
  <2>5. ASSUME NEW p \in Params, NEW v \in Values, ChangeValue(p, v)
        PROVE  Board!Next
    BY <2>5, BoardStays DEF ChangeValue
  <2> QED
    BY <1>6, <2>1, <2>2, <2>3, <2>4, <2>5, SendOnBoardRequestBoard DEF Environment
<1>7. CASE Restart
  <2>1. retries' = {} /\ wire' = {} /\ msgs' = msgs
    BY <1>7 DEF Restart
  <2>2. Posted' = {}
    BY <2>1 DEF Posted
  <2> QED
    BY <2>1, <2>2, BoardSteps
<1>8. CASE UNCHANGED vars
  <2>1. Board!vars' = Board!vars
    BY <1>8 DEF Board!vars, vars
  <2> QED
    BY <2>1
<1> QED
    BY <1>1, <1>2, <1>3, <1>4, <1>5, <1>6, <1>7, <1>8 DEF Next

(* With one controller to be on-boarded, a notification that asks for a    *)
(* response waits for it on the board: nothing but its answer, a newer one *)
(* of the same subscription, path and controller, the end of its           *)
(* NotifExpiration, the deletion of its subscription or a restart takes it *)
(* off, and nothing else is ever sent again.                               *)
THEOREM ImplementsBoard ==
    ASSUME OneOnBoarding
    PROVE  Spec => BoardKept
<1>1. Init => Board!Init
    BY BoardSteps DEF Init, Posted
<1>2. Inv /\ [Next]_vars => [Board!Next]_(Board!vars)
    BY BoardStep
<1> QED
    BY Invariance, <1>1, <1>2, PTL DEF Spec, BoardKept, Board!Spec
=============================================================================
