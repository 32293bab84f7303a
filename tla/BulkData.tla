------------------------------ MODULE BulkData ------------------------------
(***************************************************************************)
(* Bulk data collection: the profiles of core/device_bulkdata.c, which     *)
(* collect a report whenever their timer fires and hand it to the BDC      *)
(* thread, and core/bdc_exec.c, which sends it over HTTP and posts the     *)
(* result back to the DM thread.                                           *)
(*                                                                         *)
(* The timer of a profile is not reloaded when it fires but when the       *)
(* result of the transfer arrives, so a transfer whose result is lost      *)
(* silences its profile, and a timer reloaded by a change of configuration *)
(* during a transfer starts a second one.                                  *)
(*                                                                         *)
(* Times are left out: a timer that is armed may fire at any moment, and   *)
(* a retry may come before or after the next reporting interval.  The      *)
(* retry count is abstracted to whether it is zero.  A report is known by  *)
(* an identity, which is used again once nothing holds the report.         *)
(***************************************************************************)
EXTENDS Naturals, Sequences, FiniteSets

CONSTANTS
    Profiles,       \* instance numbers of Device.BulkData.Profile.{i}
    MaxProfiles,    \* BULKDATA_MAX_PROFILES: profiles, and connections of the BDC thread
    MaxRetained,    \* BULKDATA_MAX_RETAINED_FAILED_REPORTS
    Reports,        \* identities of reports
    BdcQueueMax,    \* messages the BDC thread's queue holds
    DmQueueMax,     \* results the DM thread's queue holds
    None

ASSUME BulkDataAssumption ==
    /\ IsFiniteSet(Profiles)
    /\ MaxProfiles \in Nat \ {0}
    /\ MaxRetained \in Nat
    /\ BdcQueueMax \in Nat /\ BdcQueueMax >= MaxProfiles
    /\ DmQueueMax \in Nat \ {0}

Slots == 1..MaxProfiles
Transfer == [profile: Profiles, reports: Seq(Reports)]
Result == [profile: Profiles, ok: BOOLEAN, reports: Seq(Reports)]

ASSUME NoneAssumption == None \notin Transfer \cup Result

VARIABLES
    exists,         \* the profiles in bulkdata_profiles[]
    unread,         \* rows of the table that could not be read into an entry of it
    lost,           \* entries that were cleared for such a row, and belong to no profile
    global_enable,
    is_enabled,     \* the profiles whose Enable is true
    retry_enable,   \* the profiles whose RetryEnable is true
    retrying,       \* the profiles whose retry_count is not zero
    reports,        \* the reports each profile retains, oldest first
    registered,     \* the profiles that have a sync timer
    armed,          \* those whose timer will fire
    posting,        \* the transfer the DM thread is posting, which may block
    bdcQueue,       \* transfers posted to the BDC thread
    connection,     \* bdc_connection[]: the transfers in progress
    notifying,      \* the result the BDC thread is posting, which may block
    results,        \* results posted to the DM thread
    disturbed,      \* history: profiles reconfigured or stopped during a transfer
    silent          \* history: profiles whose transfer was given up without a result

config == <<exists, unread, lost, global_enable, is_enabled, retry_enable>>
profile == <<retrying, reports>>
timers == <<registered, armed>>
bdc == <<bdcQueue, connection, notifying>>
history == <<disturbed, silent>>
vars == <<config, profile, timers, posting, bdc, results, history>>

(* The transfers of a profile that have no result yet, or whose result the *)
(* DM thread has not seen yet.                                             *)
Held(p, m) == m # None /\ m.profile = p
At(q, p) == {i \in DOMAIN q : q[i].profile = p}
Outstanding(p) ==
    (IF Held(p, posting) THEN 1 ELSE 0) + Cardinality(At(bdcQueue, p))
        + Cardinality({i \in Slots : Held(p, connection[i])})
        + (IF Held(p, notifying) THEN 1 ELSE 0) + Cardinality(At(results, p))

Elements(s) == {s[i] : i \in DOMAIN s}
HeldReports ==
    UNION {Elements(reports[p]) : p \in Profiles}
        \cup UNION {Elements(m.reports) :
                        m \in ({posting, notifying} \cup {connection[i] : i \in Slots}
                                \cup Elements(bdcQueue) \cup Elements(results)) \ {None}}

Started(p) == global_enable /\ p \in exists /\ p \in is_enabled
DmFree == posting = None
BdcFree == notifying = None

-----------------------------------------------------------------------------
(* bulkdata_calc_waittime_to_next_send and bulkdata_resync_profile, for a  *)
(* profile whose retry count is then not zero for those in retry: a retry  *)
(* that would come after the next report is cancelled, and the timer of a  *)
(* profile that is started is reloaded.                                    *)
Resync(p, retry, on) ==
    /\ retrying' \in {retry, retry \ {p}}
    /\ armed' = IF Started(p) THEN on \cup {p} ELSE on
    /\ silent' = IF Started(p) THEN silent \ {p} ELSE silent
    /\ UNCHANGED registered

FaultyFailed(p, on) ==              \* Slip: the timer is left as it is
    /\ retrying' = IF p \in retry_enable THEN retrying \cup {p} ELSE retrying
    /\ armed' = on
    /\ UNCHANGED <<registered, silent>>

(* DEVICE_BULKDATA_NotifyTransferResult of a transfer that failed. *)
Failed(p, on) ==
    Resync(p, IF p \in retry_enable THEN retrying \cup {p} ELSE retrying, on)

(* bulkdata_drop_oldest_retained_reports, before a report is appended. *)
FaultyDropOldest(kept, keep) == kept        \* Slip: the limit is not applied

DropOldest(kept, keep) ==
    IF Len(kept) > keep THEN SubSeq(kept, Len(kept) - keep + 1, Len(kept)) ELSE kept

(* A profile whose timer fires and which is not to retry collects a report. *)
Collected(p, r, keep) ==
    IF p \in retrying THEN reports[p] ELSE Append(DropOldest(reports[p], keep), r)

(* The timer fires, and is disabled until it is reloaded. *)
Fires(p) == DmFree /\ p \in armed

FaultyProcessProfileHttp(p) ==      \* Slip: the timer is periodic
    /\ Fires(p)
    /\ \E r \in Reports \ HeldReports, keep \in 0..MaxRetained :
        /\ reports' = [reports EXCEPT ![p] = Collected(p, r, keep)]
        /\ posting' = [profile |-> p, reports |-> Collected(p, r, keep)]
    /\ UNCHANGED <<config, retrying, timers, bdc, results, history>>

(* bulkdata_process_profile_http, up to the point where the report is      *)
(* handed to the BDC thread.                                               *)
ProcessProfileHttp(p) ==
    /\ Fires(p)
    /\ armed' = armed \ {p}
    /\ \E r \in Reports \ HeldReports, keep \in 0..MaxRetained :
        /\ reports' = [reports EXCEPT ![p] = Collected(p, r, keep)]
        /\ posting' = [profile |-> p, reports |-> Collected(p, r, keep)]
    /\ UNCHANGED <<config, retrying, registered, bdc, results, history>>

(* There is no URL, or the query string cannot be formed. *)
ScheduleFails(p) ==
    /\ Fires(p)
    /\ \E r \in Reports \ HeldReports, keep \in 0..MaxRetained :
        reports' = [reports EXCEPT ![p] = Collected(p, r, keep)]
    /\ Failed(p, armed \ {p})
    /\ UNCHANGED <<config, posting, bdc, results, disturbed>>

(* A parameter that controls the profile cannot be read, or its report     *)
(* cannot be collected or generated.  No result follows.                   *)
ReportFails(p) ==
    /\ Fires(p)
    /\ armed' = armed \ {p}
    /\ silent' = silent \cup {p}
    /\ \E r \in Reports \ HeldReports, keep \in 0..MaxRetained :
        \E left \in {reports[p], Collected(p, r, keep)} \cup
                    (IF p \in retrying THEN {} ELSE {DropOldest(reports[p], keep)}) :
            reports' = [reports EXCEPT ![p] = left]
    /\ UNCHANGED <<config, retrying, registered, posting, bdc, results, disturbed>>

(* bulkdata_process_profile_usp_event: no report is retained, for sending  *)
(* it is left to the notification retries; before the first connection the *)
(* event is skipped and what is retained stays.                            *)
ProcessProfileUspEvent(p) ==
    /\ Fires(p)
    /\ \/ /\ reports' = [reports EXCEPT ![p] = <<>>]
          /\ Resync(p, retrying \ {p}, armed \ {p})
       \/ /\ UNCHANGED reports
          /\ Resync(p, retrying, armed \ {p})
    /\ UNCHANGED <<config, posting, bdc, results, disturbed>>

(* The event's report cannot be collected, or generated. *)
UspEventFails(p) ==
    /\ Fires(p)
    /\ armed' = armed \ {p}
    /\ silent' = silent \cup {p}
    /\ \/ UNCHANGED <<reports, retrying>>
       \/ /\ \E r \in Reports \ HeldReports : reports' \in {[reports EXCEPT ![p] = <<>>],
                                                            [reports EXCEPT ![p] = <<r>>]}
          /\ retrying' = retrying \ {p}
    /\ UNCHANGED <<config, registered, posting, bdc, results, disturbed>>

-----------------------------------------------------------------------------
(* BDC_EXEC_PostReportToSend blocks the DM thread until there is room. *)
PostReportToSend ==
    /\ posting # None
    /\ Len(bdcQueue) < BdcQueueMax
    /\ bdcQueue' = Append(bdcQueue, posting)
    /\ posting' = None
    /\ UNCHANGED <<config, profile, timers, connection, notifying, results, history>>

FreeConnection(i) == connection[i] = None /\ \A j \in 1..(i - 1) : connection[j] # None

(* ProcessBdcMessageQueueSocketActivity: the transfer gets a connection and *)
(* is started.                                                             *)
StartSendingReport ==
    /\ BdcFree
    /\ bdcQueue # <<>>
    /\ bdcQueue' = Tail(bdcQueue)
    /\ \E i \in Slots :
        FreeConnection(i) /\ connection' = [connection EXCEPT ![i] = Head(bdcQueue)]
    /\ UNCHANGED <<config, profile, timers, posting, notifying, results, history>>

(* There is no free connection, or the transfer cannot be started.  The DM *)
(* thread is not told.                                                     *)
ReportDropped ==
    /\ BdcFree
    /\ bdcQueue # <<>>
    /\ bdcQueue' = Tail(bdcQueue)
    /\ silent' = silent \cup {Head(bdcQueue).profile}
    /\ UNCHANGED <<config, profile, timers, posting, connection, notifying, results, disturbed>>

FaultyTransferComplete(i) ==        \* Slip: the connection is not freed
    /\ BdcFree
    /\ connection[i] # None
    /\ \E ok \in BOOLEAN :
        notifying' = [profile |-> connection[i].profile, ok |-> ok,
                      reports |-> connection[i].reports]
    /\ UNCHANGED <<config, profile, timers, posting, bdcQueue, connection, results, history>>

(* HandleBdcTransferComplete: the transfer has succeeded, failed or timed out. *)
TransferComplete(i) ==
    /\ BdcFree
    /\ connection[i] # None
    /\ connection' = [connection EXCEPT ![i] = None]
    /\ \E ok \in BOOLEAN :
        notifying' = [profile |-> connection[i].profile, ok |-> ok,
                      reports |-> connection[i].reports]
    /\ UNCHANGED <<config, profile, timers, posting, bdcQueue, results, history>>

(* DM_EXEC_NotifyBdcTransferResult blocks the BDC thread until there is room. *)
PostTransferResult ==
    /\ notifying # None
    /\ Len(results) < DmQueueMax
    /\ results' = Append(results, notifying)
    /\ notifying' = None
    /\ UNCHANGED <<config, profile, timers, posting, bdcQueue, connection, history>>

(* Everything about the profile is as new, and nothing is on its way. *)
Settled(p) == Outstanding(p) = 1

(* DEVICE_BULKDATA_NotifyTransferResult *)
NotifyTransferResult ==
    /\ DmFree
    /\ results # <<>>
    /\ results' = Tail(results)
    /\ LET p == Head(results).profile
           ok == Head(results).ok
       IN /\ IF p \notin exists THEN UNCHANGED <<profile, timers, silent>>
             ELSE IF ok THEN /\ reports' = [reports EXCEPT ![p] = <<>>]
                             /\ Resync(p, retrying \ {p}, armed)
             ELSE Failed(p, armed) /\ UNCHANGED reports
          /\ disturbed' = IF Settled(p) /\ (ok \/ p \notin exists)
                          THEN disturbed \ {p} ELSE disturbed
    /\ UNCHANGED <<config, posting, bdc>>

-----------------------------------------------------------------------------
(* bulkdata_start_profile, bulkdata_stop_profile, for a set of profiles. *)
Start(ps) ==
    /\ registered' = registered \cup ps
    /\ armed' = armed \cup ps
    /\ silent' = silent \ ps
    /\ UNCHANGED <<profile, disturbed>>

FaultyStop(ps) ==                   \* Slip: the timer is left to find no profile
    /\ reports' = [p \in Profiles |-> IF p \in ps THEN <<>> ELSE reports[p]]
    /\ retrying' = retrying \ ps
    /\ disturbed' = disturbed \cup {p \in ps : Outstanding(p) > 0}
    /\ UNCHANGED <<timers, silent>>

Stop(ps) ==
    /\ reports' = [p \in Profiles |-> IF p \in ps THEN <<>> ELSE reports[p]]
    /\ retrying' = retrying \ ps
    /\ registered' = registered \ ps
    /\ armed' = armed \ ps
    /\ disturbed' = disturbed \cup {p \in ps : Outstanding(p) > 0}
    /\ silent' = silent \ ps

BulkDataGlobalEnable(b) ==
    /\ DmFree
    /\ b # global_enable
    /\ global_enable' = b
    /\ IF b THEN Start(exists \cap is_enabled) ELSE Stop(exists \cap is_enabled)
    /\ UNCHANGED <<exists, unread, lost, is_enabled, retry_enable, posting, bdc, results>>

BulkDataProfileEnable(p, b) ==
    /\ DmFree
    /\ p \in exists
    /\ b # (p \in is_enabled)
    /\ is_enabled' = IF b THEN is_enabled \cup {p} ELSE is_enabled \ {p}
    /\ LET ps == IF global_enable THEN {p} ELSE {}
       IN IF b THEN Start(ps) ELSE Stop(ps)
    /\ UNCHANGED <<exists, unread, lost, global_enable, retry_enable, posting, bdc, results>>

(* NotifyChange_BulkDataReportingInterval, _TimeReference,                 *)
(* _RetryMinimumWaitInterval and _RetryIntervalMultiplier.                 *)
Reconfigure(p) ==
    /\ DmFree
    /\ p \in exists
    /\ Resync(p, retrying, armed)
    /\ disturbed' = IF Started(p) /\ Outstanding(p) > 0 THEN disturbed \cup {p} ELSE disturbed
    /\ UNCHANGED <<config, reports, posting, bdc, results>>

BulkDataRetryEnable(p, b) ==
    /\ DmFree
    /\ p \in exists
    /\ b # (p \in retry_enable)
    /\ retry_enable' = IF b THEN retry_enable \cup {p} ELSE retry_enable \ {p}
    /\ UNCHANGED <<exists, unread, lost, global_enable, is_enabled, profile, timers, posting, bdc,
                   results, history>>

(* Validate_AddBulkDataProfile counts the rows, bulkdata_find_free_profile *)
(* looks for an entry.                                                     *)
Rows == exists \cup unread
MayBeAdded(p) == p \notin Rows /\ Cardinality(Rows) < MaxProfiles
FreeProfile == Cardinality(exists) + lost < MaxProfiles

(* ProcessBulkDataProfileAdded *)
ProfileAdded(p, enable, retry) ==
    /\ DmFree
    /\ MayBeAdded(p)
    /\ FreeProfile
    /\ exists' = exists \cup {p}
    /\ is_enabled' = IF enable THEN is_enabled \cup {p} ELSE is_enabled
    /\ retry_enable' = IF retry THEN retry_enable \cup {p} ELSE retry_enable
    /\ Start(IF enable /\ global_enable THEN {p} ELSE {})
    /\ UNCHANGED <<unread, lost, global_enable, posting, bdc, results>>

(* One of its parameters cannot be read, or there is no free entry.  The   *)
(* row stays; an entry that was cleared for it has the instance number 0,  *)
(* for which nothing can be collected, and is not found to be free again.  *)
(* A Set of the row's parameters fails USP_ASSERT(bp != NULL): the process *)
(* ends, see Restart.                                                      *)
ProfileNotRead(p) ==
    /\ DmFree
    /\ MayBeAdded(p)
    /\ unread' = unread \cup {p}
    /\ lost' = IF FreeProfile THEN lost + 1 ELSE lost
    /\ UNCHANGED <<exists, global_enable, is_enabled, retry_enable, profile, timers, posting, bdc,
                   results, history>>

(* ProcessBulkDataProfileDeleted.  The slot of the profile is cleared when *)
(* it is used again; here, at once.                                        *)
ProfileDeleted(p) ==
    /\ DmFree
    /\ p \in exists
    /\ exists' = exists \ {p}
    /\ is_enabled' = is_enabled \ {p}
    /\ retry_enable' = retry_enable \ {p}
    /\ IF Started(p) THEN Stop({p})
       ELSE /\ retrying' = retrying \ {p}
            /\ UNCHANGED <<reports, timers, history>>
    /\ UNCHANGED <<unread, lost, global_enable, posting, bdc, results>>

(* Notify_BulkDataProfileDeleted finds no entry. *)
UnreadDeleted(p) ==
    /\ DmFree
    /\ p \in unread
    /\ unread' = unread \ {p}
    /\ UNCHANGED <<exists, lost, global_enable, is_enabled, retry_enable, profile, timers, posting,
                   bdc, results, history>>

(* The process is started again: DEVICE_BULKDATA_Start reads the rows,     *)
(* which are in the database, and deletes those it cannot read; reports    *)
(* and transfers are lost.  What is set in a row not read before is not    *)
(* known.                                                                  *)
Restart ==
    /\ \E read \in SUBSET Rows : \E enabled \in SUBSET unread, retry \in SUBSET unread :
        /\ exists' = read
        /\ lost' = Cardinality(Rows \ read)
        /\ is_enabled' = read \cap (is_enabled \cup enabled)
        /\ retry_enable' = read \cap (retry_enable \cup retry)
    /\ unread' = {}
    /\ UNCHANGED global_enable
    /\ retrying' = {}
    /\ reports' = [p \in Profiles |-> <<>>]
    /\ registered' = {p \in Profiles : Started(p)'}
    /\ armed' = registered'
    /\ posting' = None
    /\ bdcQueue' = <<>>
    /\ connection' = [i \in Slots |-> None]
    /\ notifying' = None
    /\ results' = <<>>
    /\ disturbed' = {}
    /\ silent' = {}

Init ==
    /\ exists = {} /\ unread = {} /\ lost = 0
    /\ global_enable = FALSE
    /\ is_enabled = {}
    /\ retry_enable = {}
    /\ retrying = {}
    /\ reports = [p \in Profiles |-> <<>>]
    /\ registered = {}
    /\ armed = {}
    /\ posting = None
    /\ bdcQueue = <<>>
    /\ connection = [i \in Slots |-> None]
    /\ notifying = None
    /\ results = <<>>
    /\ disturbed = {}
    /\ silent = {}

Next ==
    \/ \E p \in Profiles : \/ ProcessProfileHttp(p) \/ ScheduleFails(p) \/ ReportFails(p)
                           \/ ProcessProfileUspEvent(p) \/ UspEventFails(p)
    \/ PostReportToSend
    \/ StartSendingReport
    \/ ReportDropped
    \/ \E i \in Slots : TransferComplete(i)
    \/ PostTransferResult
    \/ NotifyTransferResult
    \/ \E b \in BOOLEAN : BulkDataGlobalEnable(b)
    \/ \E p \in Profiles, b \in BOOLEAN : BulkDataProfileEnable(p, b)
    \/ \E p \in Profiles : Reconfigure(p)
    \/ \E p \in Profiles, b \in BOOLEAN : BulkDataRetryEnable(p, b)
    \/ \E p \in Profiles, enable, retry \in BOOLEAN : ProfileAdded(p, enable, retry)
    \/ \E p \in Profiles : ProfileNotRead(p) \/ ProfileDeleted(p) \/ UnreadDeleted(p)
    \/ Restart

Spec == Init /\ [][Next]_vars

-----------------------------------------------------------------------------
(* The rows, and the entries of bulkdata_profiles[], of which there are    *)
(* BULKDATA_MAX_PROFILES.                                                  *)
RowsOK ==
    /\ unread \subseteq Profiles \ exists
    /\ lost \in Nat
    /\ Cardinality(Rows) <= MaxProfiles
    /\ Cardinality(exists) + lost <= MaxProfiles

(* Types, and the limits of the code: a profile retains at most one report *)
(* more than BULKDATA_MAX_RETAINED_FAILED_REPORTS, no table holds more     *)
(* than BULKDATA_MAX_PROFILES profiles, whatever could not be read, and    *)
(* neither queue holds more than it has room for.                          *)
TypeOK ==
    /\ exists \subseteq Profiles
    /\ RowsOK
    /\ global_enable \in BOOLEAN
    /\ is_enabled \subseteq exists
    /\ retry_enable \subseteq exists
    /\ retrying \subseteq exists
    /\ reports \in [Profiles -> Seq(Reports)]
    /\ \A p \in Profiles : Len(reports[p]) <= MaxRetained + 1
    /\ armed \subseteq registered
    /\ posting \in Transfer \cup {None}
    /\ bdcQueue \in Seq(Transfer)
    /\ Len(bdcQueue) <= BdcQueueMax
    /\ connection \in [Slots -> Transfer \cup {None}]
    /\ notifying \in Result \cup {None}
    /\ results \in Seq(Result)
    /\ Len(results) <= DmQueueMax
    /\ disturbed \subseteq Profiles
    /\ silent \subseteq Profiles

(* Exactly the profiles that are started have a timer, whatever the order  *)
(* of the two Enables, of additions and of deletions: a timer never fires  *)
(* for a profile that is gone (device_bulkdata.c:2168, "This should never  *)
(* occur"), nor is a reload refused.                                       *)
TimerIffStarted == registered = {p \in Profiles : Started(p)}

(* No profile falls silent: one that is started has an armed timer, or a   *)
(* transfer whose result will arm it, except where the code gives a report *)
(* up without a result (see ReportFails, UspEventFails, ReportDropped).    *)
NeverSilent ==
    \A p \in Profiles : Started(p) => p \in armed \/ Outstanding(p) > 0 \/ p \in silent

(* What the result of a transfer is taken to be about is what was sent:    *)
(* while one is on its way it is the only one of its profile, and it       *)
(* carries every report the profile retains, of which there is one at      *)
(* least, so that no report is cleared that was not sent and no empty      *)
(* report is; except for a profile that was reconfigured or stopped while  *)
(* a transfer was on its way (device_bulkdata.c:466).                      *)
Carried(p) ==
    {m.reports : m \in {x \in {posting, notifying} \cup {connection[i] : i \in Slots}
                                \cup Elements(bdcQueue) \cup Elements(results) : Held(p, x)}}
SentIsRetained ==
    \A p \in Profiles \ disturbed :
        /\ Outstanding(p) <= 1
        /\ Carried(p) \subseteq {reports[p]} \ {<<>>}

(* There is room for every transfer: the DM thread is not blocked, with    *)
(* its mutex held, by a full queue, and no report is dropped for want of a *)
(* connection (bdc_exec.c:446), unless some profile was reconfigured or    *)
(* stopped while a transfer was on its way.                                *)
RoomForAll ==
    disturbed = {} =>
        /\ posting # None => Len(bdcQueue) < BdcQueueMax
        /\ bdcQueue # <<>> => \E i \in Slots : connection[i] = None
=============================================================================
