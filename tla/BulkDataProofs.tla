--------------------------- MODULE BulkDataProofs ---------------------------
(***************************************************************************)
(* Proofs about bulk data collection: every invariant of BulkData, for any *)
(* number of profiles and any sizes of the queues.                         *)
(*                                                                         *)
(* NeverSilent, SentIsRetained and RoomForAll count the transfers of a     *)
(* profile.  The inductive invariant says the same without counting: in    *)
(* which places a transfer may be, and that it is in one of them at most.  *)
(***************************************************************************)
EXTENDS BulkData, FiniteSetTheorems, TLAPS

Queued(p) == \E i \in DOMAIN bdcQueue : bdcQueue[i].profile = p
Connected(p) == \E i \in Slots : Held(p, connection[i])
Answered(p) == \E i \in DOMAIN results : results[i].profile = p
OnWay(p) ==
    \/ Held(p, posting) \/ Queued(p) \/ Connected(p) \/ Held(p, notifying) \/ Answered(p)

(* A profile's transfer is in one place at most. *)
OnePlace(p) ==
    /\ Held(p, posting) => ~Queued(p) /\ ~Connected(p) /\ ~Held(p, notifying) /\ ~Answered(p)
    /\ Queued(p) => ~Connected(p) /\ ~Held(p, notifying) /\ ~Answered(p)
    /\ Connected(p) => ~Held(p, notifying) /\ ~Answered(p)
    /\ Held(p, notifying) => ~Answered(p)
    /\ \A i, j \in DOMAIN bdcQueue : bdcQueue[i].profile = p /\ bdcQueue[j].profile = p => i = j
    /\ \A i, j \in Slots : Held(p, connection[i]) /\ Held(p, connection[j]) => i = j
    /\ \A i, j \in DOMAIN results : results[i].profile = p /\ results[j].profile = p => i = j

(* Wherever it is, it carries the reports rs. *)
Carries(p, rs) ==
    /\ Held(p, posting) => posting.reports = rs
    /\ \A i \in DOMAIN bdcQueue : bdcQueue[i].profile = p => bdcQueue[i].reports = rs
    /\ \A i \in Slots : Held(p, connection[i]) => connection[i].reports = rs
    /\ Held(p, notifying) => notifying.reports = rs
    /\ \A i \in DOMAIN results : results[i].profile = p => results[i].reports = rs

(* A profile that was left alone: its timer is off while a transfer is on  *)
(* its way, and it retains a report while it has something to send again.  *)
Undisturbed(p) ==
    /\ OnePlace(p)
    /\ Carries(p, reports[p])
    /\ OnWay(p) => Started(p) /\ p \notin armed /\ reports[p] # <<>>
    /\ p \in retrying => reports[p] # <<>>

Base == TypeOK /\ TimerIffStarted

Heard(p) == Started(p) => p \in armed \/ OnWay(p) \/ p \in silent

IInv ==
    /\ Base
    /\ \A p \in Profiles : Heard(p) /\ (p \notin disturbed => Undisturbed(p))

-----------------------------------------------------------------------------
(* What is retained once a report is appended is within the limit. *)
LEMMA CollectedType ==
    ASSUME TypeOK, NEW p \in Profiles, NEW r \in Reports, NEW keep \in 0..MaxRetained
    PROVE  /\ DropOldest(reports[p], keep) \in Seq(Reports)
           /\ Len(DropOldest(reports[p], keep)) <= keep
           /\ Collected(p, r, keep) \in Seq(Reports)
           /\ Len(Collected(p, r, keep)) <= MaxRetained + 1
           /\ p \notin retrying => Collected(p, r, keep) # <<>>
           /\ p \in retrying => Collected(p, r, keep) = reports[p]
<1> DEFINE s == reports[p]
           d == DropOldest(s, keep)
<1>1. s \in Seq(Reports) /\ Len(s) <= MaxRetained + 1 /\ keep \in Nat /\ keep <= MaxRetained
  BY BulkDataAssumption DEF TypeOK
<1>2. d \in Seq(Reports) /\ Len(d) <= keep
  <2> HIDE DEF s
  <2>1. CASE Len(s) > keep
    <3> DEFINE a == Len(s) - keep + 1
    <3>1. a \in 1..(Len(s) + 1) /\ Len(s) \in Nat
      BY <1>1, <2>1
    <3>2. d = SubSeq(s, a, Len(s))
      BY <2>1 DEF DropOldest
    <3>3. SubSeq(s, a, Len(s)) \in Seq(Reports) /\ Len(SubSeq(s, a, Len(s))) = Len(s) - a + 1
      <4> HIDE DEF a
      <4> QED
        BY <1>1, <3>1
    <3> QED
      BY <1>1, <3>1, <3>2, <3>3
  <2>2. CASE ~(Len(s) > keep)
    BY <1>1, <2>2 DEF DropOldest
  <2> QED
    BY <2>1, <2>2
<1>3. Append(d, r) \in Seq(Reports) /\ Len(Append(d, r)) = Len(d) + 1 /\ Append(d, r) # <<>>
  <2> HIDE DEF d
  <2> QED
    BY <1>2
<1>4. Len(d) \in Nat /\ Len(d) + 1 <= MaxRetained + 1
  <2> HIDE DEF d
  <2> QED
    BY <1>1, <1>2, BulkDataAssumption
<1> QED
  BY <1>1, <1>2, <1>3, <1>4 DEF Collected

(* Only started profiles have a timer, and only existing ones are started. *)
LEMMA ArmedStarted ==
    ASSUME Base, NEW p \in Profiles
    PROVE  /\ p \in armed => Started(p) /\ p \in exists
           /\ Started(p) <=> p \in registered
  BY DEF Base, TypeOK, TimerIffStarted, Started

LEMMA InitIInv == Init => IInv
<1> SUFFICES ASSUME Init PROVE IInv
  OBVIOUS
<1>1. Base
  <2>1. /\ <<>> \in Seq(Transfer) /\ <<>> \in Seq(Result) /\ <<>> \in Seq(Reports)
        /\ Len(<<>>) = 0
    OBVIOUS
  <2>2. TypeOK
    <3>1. /\ exists \subseteq Profiles /\ global_enable \in BOOLEAN /\ is_enabled \subseteq exists
          /\ retry_enable \subseteq exists /\ retrying \subseteq exists /\ armed \subseteq registered
          /\ disturbed \subseteq Profiles /\ silent \subseteq Profiles
          /\ posting \in Transfer \cup {None} /\ notifying \in Result \cup {None}
      BY DEF Init
    <3>2. reports \in [Profiles -> Seq(Reports)] /\ \A p \in Profiles : reports[p] = <<>>
      BY <2>1 DEF Init
    <3>3. /\ connection \in [Slots -> Transfer \cup {None}]
          /\ bdcQueue \in Seq(Transfer) /\ Len(bdcQueue) = 0
          /\ results \in Seq(Result) /\ Len(results) = 0
      BY <2>1 DEF Init
    <3>4. \A p \in Profiles : Len(reports[p]) <= MaxRetained + 1
      BY <2>1, <3>2, BulkDataAssumption
    <3>5. RowsOK
      <4>1. exists = {} /\ Rows = {} /\ unread = {} /\ lost = 0
        BY DEF Init, Rows
      <4>2. Cardinality({}) = 0
        BY FS_EmptySet
      <4> QED
        BY <4>1, <4>2, BulkDataAssumption DEF RowsOK
    <3> QED
      BY <3>1, <3>2, <3>3, <3>4, <3>5, BulkDataAssumption DEF TypeOK
  <2>3. TimerIffStarted
    BY DEF Init, TimerIffStarted, Started
  <2> QED
    BY <2>2, <2>3 DEF Base
<1>2. ASSUME NEW p \in Profiles PROVE Heard(p) /\ Undisturbed(p)
  <2>1. ~Started(p)
    BY DEF Init, Started
  <2>2. ~Held(p, posting) /\ ~Queued(p) /\ ~Connected(p) /\ ~Held(p, notifying) /\ ~Answered(p)
    BY DEF Init, Held, Queued, Connected, Answered
  <2>3. DOMAIN bdcQueue = {} /\ DOMAIN results = {}
    BY DEF Init
  <2>4. OnePlace(p) /\ Carries(p, reports[p])
    BY <2>2, <2>3 DEF OnePlace, Carries, Connected
  <2> QED
    BY <2>1, <2>2, <2>4 DEF Heard, Undisturbed, OnWay, Init
<1> QED
  BY <1>1, <1>2 DEF IInv

-----------------------------------------------------------------------------
(* What it means to count the transfers of a profile. *)
LEMMA CountElements ==
    ASSUME NEW S, IsFiniteSet(S)
    PROVE  /\ Cardinality(S) \in Nat
           /\ Cardinality(S) = 0 <=> \A x \in S : FALSE
           /\ Cardinality(S) <= 1 <=> \A x, y \in S : x = y
<1>1. Cardinality(S) \in Nat
  BY FS_CardinalityType
<1>2. Cardinality(S) = 0 <=> S = {}
  BY FS_EmptySet
<1>3. Cardinality(S) = 1 <=> \E x : S = {x}
  BY FS_Singleton
<1>4. (\A x, y \in S : x = y) <=> (S = {} \/ \E x : S = {x})
  <2>1. ASSUME \A x, y \in S : x = y, S # {} PROVE \E x : S = {x}
    <3>1. PICK x \in S : TRUE
      BY <2>1
    <3>2. S = {x}
      BY <2>1, <3>1
    <3> QED
      BY <3>2
  <2> QED
    BY <2>1
<1>5. Cardinality(S) <= 1 <=> (Cardinality(S) = 0 \/ Cardinality(S) = 1)
  BY <1>1
<1> QED
  BY <1>1, <1>2, <1>3, <1>4, <1>5

LEMMA Counted ==
    ASSUME TypeOK, NEW p \in Profiles
    PROVE  /\ Outstanding(p) \in Nat
           /\ Outstanding(p) > 0 <=> OnWay(p)
           /\ Outstanding(p) <= 1 <=> OnePlace(p)
<1> DEFINE B == At(bdcQueue, p)
           C == {i \in Slots : Held(p, connection[i])}
           R == At(results, p)
           a == IF Held(p, posting) THEN 1 ELSE 0
           d == IF Held(p, notifying) THEN 1 ELSE 0
<1>1. IsFiniteSet(B) /\ IsFiniteSet(R) /\ IsFiniteSet(C)
  <2>1. DOMAIN bdcQueue = 1..Len(bdcQueue) /\ Len(bdcQueue) \in Nat
    BY DEF TypeOK
  <2>2. DOMAIN results = 1..Len(results) /\ Len(results) \in Nat
    BY DEF TypeOK
  <2>3. IsFiniteSet(DOMAIN bdcQueue) /\ IsFiniteSet(DOMAIN results) /\ IsFiniteSet(Slots)
    BY <2>1, <2>2, FS_Interval, BulkDataAssumption DEF Slots
  <2>4. B \in SUBSET DOMAIN bdcQueue /\ R \in SUBSET DOMAIN results /\ C \in SUBSET Slots
    BY DEF At
  <2> QED
    BY <2>3, <2>4, FS_Subset
<1>2. /\ Cardinality(B) \in Nat
      /\ Cardinality(B) = 0 <=> ~Queued(p)
      /\ Cardinality(B) <= 1 <=>
            \A i, j \in DOMAIN bdcQueue : bdcQueue[i].profile = p /\ bdcQueue[j].profile = p => i = j
  BY <1>1, CountElements DEF Queued, At
<1>3. /\ Cardinality(C) \in Nat
      /\ Cardinality(C) = 0 <=> ~Connected(p)
      /\ Cardinality(C) <= 1 <=>
            \A i, j \in Slots : Held(p, connection[i]) /\ Held(p, connection[j]) => i = j
  BY <1>1, CountElements DEF Connected
<1>4. /\ Cardinality(R) \in Nat
      /\ Cardinality(R) = 0 <=> ~Answered(p)
      /\ Cardinality(R) <= 1 <=>
            \A i, j \in DOMAIN results : results[i].profile = p /\ results[j].profile = p => i = j
  BY SMTT(30), <1>1, CountElements DEF Answered, At
<1>5. a \in 0..1 /\ (a = 0 <=> ~Held(p, posting)) /\ d \in 0..1 /\ (d = 0 <=> ~Held(p, notifying))
  OBVIOUS
<1>6. Outstanding(p) = a + Cardinality(B) + Cardinality(C) + d + Cardinality(R)
  BY DEF Outstanding
<1> HIDE DEF a, d, B, C, R
<1>7. /\ Outstanding(p) \in Nat
      /\ Outstanding(p) > 0 <=> a # 0 \/ Cardinality(B) # 0 \/ Cardinality(C) # 0
                                    \/ d # 0 \/ Cardinality(R) # 0
  BY <1>2, <1>3, <1>4, <1>5, <1>6
<1>8. Outstanding(p) <= 1 <=>
        /\ a # 0 => Cardinality(B) = 0 /\ Cardinality(C) = 0 /\ d = 0 /\ Cardinality(R) = 0
        /\ Cardinality(B) # 0 => Cardinality(C) = 0 /\ d = 0 /\ Cardinality(R) = 0
        /\ Cardinality(C) # 0 => d = 0 /\ Cardinality(R) = 0
        /\ d # 0 => Cardinality(R) = 0
        /\ Cardinality(B) <= 1 /\ Cardinality(C) <= 1 /\ Cardinality(R) <= 1
  BY <1>2, <1>3, <1>4, <1>5, <1>6
<1> QED
  <2>1. Outstanding(p) > 0 <=> OnWay(p)
    BY <1>2, <1>3, <1>4, <1>5, <1>7 DEF OnWay
  <2>2. Outstanding(p) <= 1 <=> OnePlace(p)
    BY <1>2, <1>3, <1>4, <1>5, <1>8 DEF OnePlace
  <2> QED
    BY <1>7, <2>1, <2>2

-----------------------------------------------------------------------------
(* Steps that leave every transfer where it is. *)
places == <<posting, bdc, results>>

LEMMA PlacesSame ==
    ASSUME UNCHANGED places, NEW p \in Profiles, NEW rs
    PROVE  /\ OnePlace(p)' <=> OnePlace(p)
           /\ OnWay(p)' <=> OnWay(p)
           /\ Carries(p, rs)' <=> Carries(p, rs')
<1>1. UNCHANGED <<posting, bdcQueue, connection, notifying, results>>
  BY DEF places, bdc
<1> QED
  BY <1>1 DEF OnePlace, OnWay, Carries, Queued, Connected, Answered, Held

LEMMA NotOnWay ==
    ASSUME NEW p \in Profiles, ~OnWay(p), NEW rs
    PROVE  OnePlace(p) /\ Carries(p, rs)
  BY DEF OnePlace, OnWay, Carries, Queued, Connected, Answered

(* The parts of the type invariant that change together. *)
SetsOK ==
    /\ exists \subseteq Profiles
    /\ global_enable \in BOOLEAN
    /\ is_enabled \subseteq exists
    /\ retry_enable \subseteq exists
    /\ retrying \subseteq exists
    /\ armed \subseteq registered
    /\ disturbed \subseteq Profiles
    /\ silent \subseteq Profiles
ReportsOK ==
    /\ reports \in [Profiles -> Seq(Reports)]
    /\ \A p \in Profiles : Len(reports[p]) <= MaxRetained + 1
PlacesOK ==
    /\ posting \in Transfer \cup {None}
    /\ bdcQueue \in Seq(Transfer)
    /\ Len(bdcQueue) <= BdcQueueMax
    /\ connection \in [Slots -> Transfer \cup {None}]
    /\ notifying \in Result \cup {None}
    /\ results \in Seq(Result)
    /\ Len(results) <= DmQueueMax

LEMMA TypeParts == TypeOK <=> SetsOK /\ RowsOK /\ ReportsOK /\ PlacesOK
  BY DEF TypeOK, SetsOK, ReportsOK, PlacesOK

LEMMA TypePartsNext == TypeOK' <=> SetsOK' /\ RowsOK' /\ ReportsOK' /\ PlacesOK'
  BY DEF TypeOK, SetsOK, ReportsOK, PlacesOK

LEMMA RowsSame == ASSUME Base, UNCHANGED <<exists, unread, lost>> PROVE RowsOK'
  BY DEF Base, TypeOK, RowsOK, Rows

LEMMA PlacesSameType == ASSUME PlacesOK, UNCHANGED places PROVE PlacesOK'
  BY DEF PlacesOK, places, bdc

LEMMA OneReportsType ==
    ASSUME ReportsOK, NEW p \in Profiles, NEW rs \in Seq(Reports), Len(rs) <= MaxRetained + 1,
           reports' = [reports EXCEPT ![p] = rs]
    PROVE  ReportsOK' /\ reports'[p] = rs /\ \A q \in Profiles \ {p} : reports'[q] = reports[q]
  BY DEF ReportsOK

(* What a step that leaves the transfers where they are has to keep. *)
LEMMA StaysUndisturbed ==
    ASSUME UNCHANGED places, NEW p \in Profiles,
           OnWay(p) => /\ OnePlace(p) /\ Carries(p, reports[p]) /\ reports'[p] = reports[p]
                       /\ Started(p)' /\ p \notin armed' /\ reports[p] # <<>>,
           p \in retrying' => reports'[p] # <<>>
    PROVE  Undisturbed(p)'
<1>1. /\ OnePlace(p)' <=> OnePlace(p)
      /\ OnWay(p)' <=> OnWay(p)
      /\ Carries(p, reports[p])' <=> Carries(p, reports'[p])
  BY PlacesSame
<1>2. CASE OnWay(p)
  BY <1>1, <1>2 DEF Undisturbed
<1>3. CASE ~OnWay(p)
  BY <1>1, <1>3, NotOnWay DEF Undisturbed
<1> QED
  BY <1>2, <1>3

(* A step of the profile p whose timer fires and that posts no transfer. *)
LEMMA TimerStep ==
    ASSUME IInv, NEW p \in Profiles, p \in armed, UNCHANGED <<config, registered, places, disturbed>>,
           NEW rs \in Seq(Reports), Len(rs) <= MaxRetained + 1,
           reports' = [reports EXCEPT ![p] = rs],
           retrying' \subseteq retrying \cup {p},
           p \notin disturbed /\ p \in retrying' => rs # <<>>,
           \/ armed' = (armed \ {p}) \cup {p} /\ silent' = silent \ {p}
           \/ armed' = armed \ {p} /\ silent' = silent \cup {p}
    PROVE  IInv'
<1>1. Base /\ SetsOK /\ ReportsOK /\ PlacesOK
  BY TypeParts DEF IInv, Base
<1>2. p \in exists /\ Started(p)
  BY <1>1, ArmedStarted
<1>3. UNCHANGED <<exists, unread, lost, global_enable, is_enabled, retry_enable, registered, disturbed>> /\ UNCHANGED places
  BY DEF config
<1>4. SetsOK'
  BY <1>1, <1>2, <1>3 DEF SetsOK
<1>5. ReportsOK' /\ reports'[p] = rs /\ \A q \in Profiles \ {p} : reports'[q] = reports[q]
  BY <1>1, OneReportsType
<1>6. PlacesOK'
  BY <1>1, <1>3, PlacesSameType
<1>7. Base'
  <2>1. TypeOK'
    BY <1>1, <1>3, <1>4, <1>5, <1>6, RowsSame, TypePartsNext
  <2>2. TimerIffStarted'
    BY <1>1, <1>3 DEF Base, TimerIffStarted, Started
  <2> QED
    BY <2>1, <2>2 DEF Base
<1>8. ASSUME NEW q \in Profiles PROVE Heard(q)' /\ (q \notin disturbed' => Undisturbed(q)')
  <2>1. Heard(q) /\ (q \notin disturbed => Undisturbed(q)) /\ (Started(q)' <=> Started(q))
    BY <1>3 DEF IInv, Started
  <2>2. OnWay(q)' <=> OnWay(q)
    BY <1>3, PlacesSame
  <2>3. Heard(q)'
    BY <2>1, <2>2 DEF Heard
  <2>4. ASSUME q \notin disturbed' PROVE Undisturbed(q)'
    <3>1. Undisturbed(q) /\ q \notin disturbed
      BY <2>1, <2>4, <1>3
    <3>2. CASE q = p
      <4>1. ~OnWay(q)
        BY <3>1, <3>2 DEF Undisturbed
      <4> QED
        BY <1>3, <1>5, <3>1, <3>2, <4>1, StaysUndisturbed
    <3>3. CASE q # p
      <4>1. (q \in armed' <=> q \in armed) /\ (q \in retrying' => q \in retrying) /\ reports'[q] = reports[q]
        BY <3>3, <1>5
      <4> QED
        BY <1>3, <2>1, <3>1, <4>1, StaysUndisturbed DEF Undisturbed
    <3> QED
      BY <3>2, <3>3
  <2> QED
    BY <2>3, <2>4
<1> QED
  BY <1>7, <1>8 DEF IInv

LEMMA ScheduleFailsStep ==
    ASSUME IInv, NEW p \in Profiles, ScheduleFails(p)
    PROVE  IInv'
<1>1. p \in armed /\ UNCHANGED <<config, registered, places, disturbed>>
  BY DEF ScheduleFails, Fires, Failed, Resync, places, bdc
<1>2. Base /\ TypeOK /\ Started(p)
  BY <1>1, ArmedStarted DEF IInv, Base
<1>3. PICK r \in Reports, keep \in 0..MaxRetained :
        reports' = [reports EXCEPT ![p] = Collected(p, r, keep)]
  BY DEF ScheduleFails
<1> DEFINE rs == Collected(p, r, keep)
<1>4. rs \in Seq(Reports) /\ Len(rs) <= MaxRetained + 1 /\ (p \notin retrying => rs # <<>>)
        /\ (p \in retrying => rs = reports[p])
  BY <1>2, CollectedType
<1>5. p \notin disturbed => rs # <<>>
  BY <1>4 DEF IInv, Undisturbed
<1>6. retrying' \subseteq retrying \cup {p}
  BY DEF ScheduleFails, Failed, Resync
<1>7. armed' = (armed \ {p}) \cup {p} /\ silent' = silent \ {p}
  BY <1>2 DEF ScheduleFails, Failed, Resync
<1> HIDE DEF rs
<1> QED
  BY <1>1, <1>3, <1>4, <1>5, <1>6, <1>7, TimerStep DEF rs

LEMMA ReportFailsStep ==
    ASSUME IInv, NEW p \in Profiles, ReportFails(p)
    PROVE  IInv'
<1>1. p \in armed /\ UNCHANGED <<config, registered, places, disturbed>> /\ UNCHANGED retrying
  BY DEF ReportFails, Fires, places, bdc
<1>2. Base /\ TypeOK
  BY DEF IInv, Base
<1>3. PICK r \in Reports, keep \in 0..MaxRetained :
        \E left \in {reports[p], Collected(p, r, keep)} \cup
                    (IF p \in retrying THEN {} ELSE {DropOldest(reports[p], keep)}) :
            reports' = [reports EXCEPT ![p] = left]
  BY DEF ReportFails
<1>4. PICK rs \in {reports[p], Collected(p, r, keep)} \cup
                    (IF p \in retrying THEN {} ELSE {DropOldest(reports[p], keep)}) :
            reports' = [reports EXCEPT ![p] = rs]
  BY <1>3
<1> DEFINE c == Collected(p, r, keep)
           d == DropOldest(reports[p], keep)
<1>5. /\ c \in Seq(Reports) /\ Len(c) <= MaxRetained + 1
      /\ d \in Seq(Reports) /\ Len(d) <= keep
      /\ p \in retrying => c = reports[p]
  BY <1>2, CollectedType
<1>6. reports[p] \in Seq(Reports) /\ Len(reports[p]) <= MaxRetained + 1
  BY <1>2 DEF TypeOK
<1>7. rs = reports[p] \/ rs = c \/ (rs = d /\ p \notin retrying)
  BY <1>4
<1>8. Len(d) <= MaxRetained + 1
  <2> HIDE DEF d
  <2> QED
    BY <1>5, BulkDataAssumption
<1>9. rs \in Seq(Reports) /\ Len(rs) <= MaxRetained + 1 /\ (p \in retrying => rs = reports[p])
  <2> HIDE DEF c, d
  <2> QED
    BY <1>5, <1>6, <1>7, <1>8
<1>10. p \notin disturbed /\ p \in retrying' => rs # <<>>
  BY <1>1, <1>9 DEF IInv, Undisturbed
<1>11. armed' = armed \ {p} /\ silent' = silent \cup {p} /\ retrying' \subseteq retrying \cup {p}
  BY <1>1 DEF ReportFails
<1> QED
  BY <1>1, <1>4, <1>9, <1>10, <1>11, TimerStep

LEMMA ProcessProfileUspEventStep ==
    ASSUME IInv, NEW p \in Profiles, ProcessProfileUspEvent(p)
    PROVE  IInv'
<1>1. p \in armed /\ UNCHANGED <<config, registered, places, disturbed>>
  BY DEF ProcessProfileUspEvent, Fires, Resync, places, bdc
<1>2. Base /\ TypeOK /\ Started(p)
  BY <1>1, ArmedStarted DEF IInv, Base
<1>3. armed' = (armed \ {p}) \cup {p} /\ silent' = silent \ {p} /\ retrying' \subseteq retrying \cup {p}
  BY <1>2 DEF ProcessProfileUspEvent, Resync
<1>4. CASE reports' = [reports EXCEPT ![p] = <<>>] /\ Resync(p, retrying \ {p}, armed \ {p})
  <2>1. p \notin retrying'
    BY <1>4 DEF Resync
  <2>2. <<>> \in Seq(Reports) /\ Len(<<>>) <= MaxRetained + 1
    BY BulkDataAssumption
  <2> QED
    BY <1>1, <1>3, <1>4, <2>1, <2>2, TimerStep
<1>5. CASE UNCHANGED reports /\ Resync(p, retrying, armed \ {p})
  <2>1. retrying' \subseteq retrying
    BY <1>5 DEF Resync
  <2>2. reports[p] \in Seq(Reports) /\ Len(reports[p]) <= MaxRetained + 1
        /\ reports' = [reports EXCEPT ![p] = reports[p]]
    BY <1>2, <1>5 DEF TypeOK
  <2>3. p \notin disturbed /\ p \in retrying' => reports[p] # <<>>
    BY <2>1 DEF IInv, Undisturbed
  <2> QED
    BY <1>1, <1>3, <2>2, <2>3, TimerStep
<1> QED
  BY <1>4, <1>5 DEF ProcessProfileUspEvent

LEMMA UspEventFailsStep ==
    ASSUME IInv, NEW p \in Profiles, UspEventFails(p)
    PROVE  IInv'
<1>1. p \in armed /\ UNCHANGED <<config, registered, places, disturbed>>
  BY DEF UspEventFails, Fires, places, bdc
<1>2. Base /\ TypeOK
  BY DEF IInv, Base
<1>3. armed' = armed \ {p} /\ silent' = silent \cup {p} /\ retrying' \subseteq retrying \cup {p}
  BY DEF UspEventFails
<1>4. CASE UNCHANGED <<reports, retrying>>
  <2>1. reports[p] \in Seq(Reports) /\ Len(reports[p]) <= MaxRetained + 1
        /\ reports' = [reports EXCEPT ![p] = reports[p]]
    BY <1>2, <1>4 DEF TypeOK
  <2>2. p \notin disturbed /\ p \in retrying' => reports[p] # <<>>
    BY <1>4 DEF IInv, Undisturbed
  <2> QED
    BY <1>1, <1>3, <2>1, <2>2, TimerStep
<1>5. CASE /\ \E r \in Reports \ HeldReports : reports' \in {[reports EXCEPT ![p] = <<>>],
                                                             [reports EXCEPT ![p] = <<r>>]}
           /\ retrying' = retrying \ {p}
  <2>1. PICK r \in Reports : reports' \in {[reports EXCEPT ![p] = <<>>], [reports EXCEPT ![p] = <<r>>]}
    BY <1>5
  <2>2. PICK rs \in {<<>>, <<r>>} : reports' = [reports EXCEPT ![p] = rs]
    BY <2>1
  <2>3. <<>> \in Seq(Reports) /\ Len(<<>>) = 0 /\ <<r>> \in Seq(Reports) /\ Len(<<r>>) = 1
    OBVIOUS
  <2>4. rs \in Seq(Reports) /\ (Len(rs) = 0 \/ Len(rs) = 1)
    BY <2>2, <2>3
  <2>5. Len(rs) <= MaxRetained + 1
    BY <2>4, BulkDataAssumption
  <2> QED
    BY <1>1, <1>3, <1>5, <2>2, <2>4, <2>5, TimerStep
<1> QED
  BY <1>4, <1>5 DEF UspEventFails

-----------------------------------------------------------------------------
(* A step of the configuration: what it has to keep for a profile q. *)
Kept(q) ==
    /\ Started(q)' => q \in armed' \/ (Started(q) /\ (q \in armed => q \in armed')
                                                 /\ (q \in silent => q \in silent'))
    /\ q \notin disturbed' => q \notin disturbed
    /\ q \notin disturbed' /\ OnWay(q) /\ Started(q) /\ q \notin armed =>
            reports'[q] = reports[q] /\ Started(q)' /\ q \notin armed'
    /\ q \notin disturbed' /\ q \in retrying' => q \in retrying /\ reports'[q] = reports[q]

LEMMA ConfigStep ==
    ASSUME IInv, UNCHANGED places, SetsOK', ReportsOK', TimerIffStarted',
           RowsOK', \A q \in Profiles : Kept(q)
    PROVE  IInv'
<1>1. PlacesOK'
  BY PlacesSameType, TypeParts DEF IInv, Base
<1>2. Base'
  BY <1>1, TypePartsNext DEF Base
<1>3. ASSUME NEW q \in Profiles PROVE Heard(q)' /\ (q \notin disturbed' => Undisturbed(q)')
  <2>1. Kept(q) /\ Heard(q) /\ (q \notin disturbed => Undisturbed(q)) /\ (OnWay(q)' <=> OnWay(q))
    BY PlacesSame DEF IInv
  <2>2. Heard(q)'
    BY <2>1 DEF Heard, Kept
  <2>3. ASSUME q \notin disturbed' PROVE Undisturbed(q)'
    <3>1. Undisturbed(q)
      BY <2>1, <2>3 DEF Kept
    <3>2. OnWay(q) => /\ OnePlace(q) /\ Carries(q, reports[q]) /\ reports'[q] = reports[q]
                      /\ Started(q)' /\ q \notin armed' /\ reports[q] # <<>>
      BY <2>1, <2>3, <3>1 DEF Kept, Undisturbed
    <3>3. q \in retrying' => reports'[q] # <<>>
      BY <2>1, <2>3, <3>1 DEF Kept, Undisturbed
    <3> QED
      BY <3>2, <3>3, StaysUndisturbed
  <2> QED
    BY <2>2, <2>3
<1> QED
  BY <1>2, <1>3 DEF IInv

LEMMA StopReports ==
    ASSUME ReportsOK, NEW ps, reports' = [p \in Profiles |-> IF p \in ps THEN <<>> ELSE reports[p]]
    PROVE  ReportsOK' /\ \A q \in Profiles : q \notin ps => reports'[q] = reports[q]
<1>1. <<>> \in Seq(Reports) /\ Len(<<>>) <= MaxRetained + 1
  BY BulkDataAssumption
<1>2. ASSUME NEW q \in Profiles
      PROVE  reports'[q] \in Seq(Reports) /\ Len(reports'[q]) <= MaxRetained + 1
  BY <1>1 DEF ReportsOK
<1> QED
  BY <1>2 DEF ReportsOK

(* Profiles are started or stopped; the others stay as they are. *)
LEMMA StartStep ==
    ASSUME IInv, UNCHANGED places, NEW ps \in SUBSET exists', Start(ps),
           exists' \subseteq Profiles, exists \subseteq exists', global_enable' \in BOOLEAN,
           is_enabled' \subseteq exists', retry_enable' \subseteq exists',
           RowsOK',
           \A q \in Profiles : (Started(q)' <=> Started(q) \/ q \in ps) /\ (q \in ps => ~Started(q))
    PROVE  IInv'
<1>1. Base /\ SetsOK /\ ReportsOK
  BY TypeParts DEF IInv, Base
<1>2. registered' = registered \cup ps /\ armed' = armed \cup ps /\ silent' = silent \ ps
      /\ UNCHANGED <<retrying, reports, disturbed>>
  BY DEF Start, profile
<1>3. SetsOK'
  BY <1>1, <1>2 DEF SetsOK
<1>4. ReportsOK'
  BY <1>1, <1>2 DEF ReportsOK
<1>5. TimerIffStarted'
  <2>1. registered = {q \in Profiles : Started(q)} /\ ps \subseteq Profiles
    BY <1>1 DEF Base, TimerIffStarted
  <2>2. registered' = {q \in Profiles : Started(q)'}
    BY <1>2, <2>1
  <2> QED
    BY <2>2 DEF TimerIffStarted
<1>6. ASSUME NEW q \in Profiles PROVE Kept(q)
  BY <1>2 DEF Kept
<1> QED
  BY <1>3, <1>4, <1>5, <1>6, ConfigStep

LEMMA StopStep ==
    ASSUME IInv, UNCHANGED places, NEW ps \in SUBSET exists, Stop(ps),
           exists' \subseteq exists, exists \ ps \subseteq exists', global_enable' \in BOOLEAN,
           is_enabled' \subseteq exists', retry_enable' \subseteq exists',
           RowsOK',
           \A q \in Profiles : Started(q)' <=> Started(q) /\ q \notin ps
    PROVE  IInv'
<1>1. Base /\ TypeOK /\ SetsOK /\ ReportsOK
  BY TypeParts DEF IInv, Base
<1>2. /\ reports' = [p \in Profiles |-> IF p \in ps THEN <<>> ELSE reports[p]]
      /\ retrying' = retrying \ ps /\ registered' = registered \ ps /\ armed' = armed \ ps
      /\ disturbed' = disturbed \cup {p \in ps : Outstanding(p) > 0} /\ silent' = silent \ ps
  BY DEF Stop
<1>3. SetsOK'
  BY <1>1, <1>2 DEF SetsOK
<1>4. ReportsOK' /\ \A q \in Profiles : q \notin ps => reports'[q] = reports[q]
  BY <1>1, <1>2, StopReports
<1>5. TimerIffStarted'
  <2>1. registered = {q \in Profiles : Started(q)}
    BY <1>1 DEF Base, TimerIffStarted
  <2>2. registered' = {q \in Profiles : Started(q)'}
    BY <1>2, <2>1
  <2> QED
    BY <2>2 DEF TimerIffStarted
<1>6. ASSUME NEW q \in Profiles PROVE Kept(q)
  <2>1. Outstanding(q) > 0 <=> OnWay(q)
    BY <1>1, Counted
  <2>2. q \in ps /\ OnWay(q) => q \in disturbed'
    BY <1>2, <2>1
  <2>3. q \notin disturbed' => q \notin disturbed
    BY <1>2
  <2> QED
    BY <1>2, <1>4, <2>2, <2>3 DEF Kept
<1> QED
  BY <1>3, <1>4, <1>5, <1>6, ConfigStep

LEMMA BulkDataGlobalEnableStep ==
    ASSUME IInv, NEW b \in BOOLEAN, BulkDataGlobalEnable(b)
    PROVE  IInv'
<1> DEFINE ps == exists \cap is_enabled
<1>1. Base /\ SetsOK
  BY TypeParts DEF IInv, Base
<1>2. UNCHANGED places /\ UNCHANGED <<exists, unread, lost, is_enabled, retry_enable>> /\ global_enable' = b
      /\ b # global_enable
  BY DEF BulkDataGlobalEnable, places, bdc
<1>3. /\ exists' \subseteq Profiles /\ exists \subseteq exists' /\ exists' \subseteq exists
      /\ global_enable' \in BOOLEAN /\ is_enabled' \subseteq exists' /\ retry_enable' \subseteq exists'
      /\ RowsOK' /\ ps \in SUBSET exists /\ ps \in SUBSET exists'
      /\ exists \ ps \subseteq exists'
  BY <1>1, <1>2, RowsSame DEF SetsOK
<1>4. CASE b
  <2>1. Start(ps)
    BY <1>4 DEF BulkDataGlobalEnable
  <2>2. \A q \in Profiles : (Started(q)' <=> Started(q) \/ q \in ps) /\ (q \in ps => ~Started(q))
    BY <1>1, <1>2, <1>4 DEF Started, SetsOK
  <2> QED
    BY <1>2, <1>3, <2>1, <2>2, StartStep
<1>5. CASE ~b
  <2>1. Stop(ps)
    BY <1>5 DEF BulkDataGlobalEnable
  <2>2. \A q \in Profiles : Started(q)' <=> Started(q) /\ q \notin ps
    BY <1>1, <1>2, <1>5 DEF Started, SetsOK
  <2> QED
    BY <1>2, <1>3, <2>1, <2>2, StopStep
<1> QED
  BY <1>4, <1>5

LEMMA BulkDataProfileEnableStep ==
    ASSUME IInv, NEW p \in Profiles, NEW b \in BOOLEAN, BulkDataProfileEnable(p, b)
    PROVE  IInv'
<1> DEFINE ps == IF global_enable THEN {p} ELSE {}
<1>1. Base /\ SetsOK
  BY TypeParts DEF IInv, Base
<1>2. /\ UNCHANGED places /\ UNCHANGED <<exists, unread, lost, global_enable, retry_enable>>
      /\ is_enabled' = IF b THEN is_enabled \cup {p} ELSE is_enabled \ {p}
      /\ p \in exists /\ b # (p \in is_enabled)
  BY DEF BulkDataProfileEnable, places, bdc
<1>3. /\ exists' \subseteq Profiles /\ exists \subseteq exists' /\ exists' \subseteq exists
      /\ global_enable' \in BOOLEAN /\ is_enabled' \subseteq exists' /\ retry_enable' \subseteq exists'
      /\ RowsOK' /\ ps \in SUBSET exists /\ ps \in SUBSET exists'
      /\ exists \ ps \subseteq exists'
  BY <1>1, <1>2, RowsSame DEF SetsOK
<1>4. CASE b
  <2>1. Start(ps)
    BY <1>4 DEF BulkDataProfileEnable
  <2>2. \A q \in Profiles : (Started(q)' <=> Started(q) \/ q \in ps) /\ (q \in ps => ~Started(q))
    BY <1>1, <1>2, <1>4 DEF Started, SetsOK
  <2> QED
    BY <1>2, <1>3, <2>1, <2>2, StartStep
<1>5. CASE ~b
  <2>1. Stop(ps)
    BY <1>5 DEF BulkDataProfileEnable
  <2>2. \A q \in Profiles : Started(q)' <=> Started(q) /\ q \notin ps
    BY <1>1, <1>2, <1>5 DEF Started, SetsOK
  <2> QED
    BY <1>2, <1>3, <2>1, <2>2, StopStep
<1> QED
  BY <1>4, <1>5

LEMMA ReconfigureStep ==
    ASSUME IInv, NEW p \in Profiles, Reconfigure(p)
    PROVE  IInv'
<1>1. Base /\ TypeOK /\ SetsOK /\ ReportsOK
  BY TypeParts DEF IInv, Base
<1>2. /\ UNCHANGED places /\ UNCHANGED <<exists, unread, lost, global_enable, is_enabled, retry_enable>>
      /\ UNCHANGED <<reports, registered>> /\ retrying' \subseteq retrying /\ p \in exists
      /\ armed' = (IF Started(p) THEN armed \cup {p} ELSE armed)
      /\ silent' = (IF Started(p) THEN silent \ {p} ELSE silent)
      /\ disturbed' = (IF Started(p) /\ Outstanding(p) > 0 THEN disturbed \cup {p} ELSE disturbed)
  BY DEF Reconfigure, Resync, places, bdc, config
<1>3. \A q \in Profiles : Started(q)' <=> Started(q)
  BY <1>2 DEF Started
<1>4. SetsOK'
  BY <1>1, <1>2, ArmedStarted DEF SetsOK
<1>5. ReportsOK' /\ TimerIffStarted' /\ RowsOK'
  BY <1>1, <1>2, RowsSame DEF ReportsOK, Base, TimerIffStarted, Started
<1>6. ASSUME NEW q \in Profiles PROVE Kept(q)
  <2>1. Outstanding(q) > 0 <=> OnWay(q)
    BY <1>1, Counted
  <2>2. q = p /\ OnWay(q) /\ Started(q) => q \in disturbed'
    BY <1>2, <2>1
  <2> QED
    BY <1>2, <1>3, <2>2 DEF Kept
<1> QED
  BY <1>2, <1>4, <1>5, <1>6, ConfigStep

LEMMA BulkDataRetryEnableStep ==
    ASSUME IInv, NEW p \in Profiles, NEW b \in BOOLEAN, BulkDataRetryEnable(p, b)
    PROVE  IInv'
<1>1. Base /\ SetsOK /\ ReportsOK
  BY TypeParts DEF IInv, Base
<1>2. /\ UNCHANGED places /\ UNCHANGED <<exists, unread, lost, global_enable, is_enabled>>
      /\ UNCHANGED <<reports, retrying, registered, armed, disturbed, silent>>
      /\ retry_enable' \subseteq retry_enable \cup {p} /\ p \in exists
  BY DEF BulkDataRetryEnable, places, bdc, profile, timers, history
<1>3. \A q \in Profiles : Started(q)' <=> Started(q)
  BY <1>2 DEF Started
<1>4. SetsOK'
  BY <1>1, <1>2 DEF SetsOK
<1>5. ReportsOK' /\ TimerIffStarted' /\ RowsOK'
  BY <1>1, <1>2, RowsSame DEF ReportsOK, Base, TimerIffStarted, Started
<1>6. \A q \in Profiles : Kept(q)
  BY <1>2, <1>3 DEF Kept
<1> QED
  BY <1>2, <1>4, <1>5, <1>6, ConfigStep

LEMMA ExistsFinite == ASSUME SetsOK PROVE IsFiniteSet(exists) /\ Cardinality(exists) \in Nat
  BY BulkDataAssumption, FS_Subset, FS_CardinalityType DEF SetsOK

LEMMA RowsFinite ==
    ASSUME TypeOK
    PROVE  /\ IsFiniteSet(exists) /\ Cardinality(exists) \in Nat
           /\ IsFiniteSet(Rows) /\ Cardinality(Rows) \in Nat
<1>1. exists \in SUBSET Profiles /\ Rows \in SUBSET Profiles
  BY DEF TypeOK, RowsOK, Rows
<1> QED
  BY <1>1, BulkDataAssumption, FS_Subset, FS_CardinalityType

(* A row more. *)
LEMMA RowAdded ==
    ASSUME TypeOK, NEW p \in Profiles, MayBeAdded(p), Rows' = Rows \cup {p},
           unread' \subseteq Profiles \ exists', lost' \in Nat,
           Cardinality(exists') + lost' <= MaxProfiles
    PROVE  RowsOK'
<1>1. Cardinality(Rows \cup {p}) = Cardinality(Rows) + 1 /\ Cardinality(Rows) \in Nat
  BY RowsFinite, FS_AddElement DEF MayBeAdded
<1>2. Cardinality(Rows') <= MaxProfiles
  BY <1>1, BulkDataAssumption DEF MayBeAdded
<1> QED
  BY <1>2 DEF RowsOK

(* A row less. *)
LEMMA RowGone ==
    ASSUME TypeOK, NEW p \in Rows, Rows' = Rows \ {p},
           unread' \subseteq Profiles \ exists', lost' \in Nat,
           Cardinality(exists') + lost' <= MaxProfiles
    PROVE  RowsOK'
<1>1. Cardinality(Rows \ {p}) = Cardinality(Rows) - 1 /\ Cardinality(Rows) \in Nat
  BY RowsFinite, FS_RemoveElement
<1>2. Cardinality(Rows') <= MaxProfiles
  BY <1>1, BulkDataAssumption DEF TypeOK, RowsOK
<1> QED
  BY <1>2 DEF RowsOK

LEMMA ProfileAddedStep ==
    ASSUME IInv, NEW p \in Profiles, NEW enable \in BOOLEAN, NEW retry \in BOOLEAN,
           ProfileAdded(p, enable, retry)
    PROVE  IInv'
<1> DEFINE ps == IF enable /\ global_enable THEN {p} ELSE {}
<1>1. Base /\ SetsOK
  BY TypeParts DEF IInv, Base
<1>2. /\ UNCHANGED places /\ UNCHANGED <<unread, lost, global_enable>> /\ Start(ps)
      /\ p \notin exists /\ p \notin unread /\ MayBeAdded(p) /\ FreeProfile
      /\ exists' = exists \cup {p}
      /\ is_enabled' = IF enable THEN is_enabled \cup {p} ELSE is_enabled
      /\ retry_enable' = IF retry THEN retry_enable \cup {p} ELSE retry_enable
  BY DEF ProfileAdded, MayBeAdded, Rows, places, bdc
<1>3. RowsOK'
  <2>1. Cardinality(exists \cup {p}) = Cardinality(exists) + 1 /\ Cardinality(exists) \in Nat
    BY <1>1, <1>2, ExistsFinite, FS_AddElement
  <2>2. TypeOK /\ unread \subseteq Profiles \ exists /\ lost \in Nat
    BY <1>1 DEF Base, TypeOK, RowsOK
  <2>3. Rows' = Rows \cup {p} /\ unread' \subseteq Profiles \ exists' /\ lost' \in Nat
    BY <1>2, <2>2 DEF Rows
  <2>4. Cardinality(exists') + lost' <= MaxProfiles
    BY <1>2, <2>1, <2>2, BulkDataAssumption DEF FreeProfile
  <2> QED
    BY <1>2, <2>2, <2>3, <2>4, RowAdded
<1>4. /\ exists' \subseteq Profiles /\ exists \subseteq exists'
      /\ global_enable' \in BOOLEAN /\ is_enabled' \subseteq exists' /\ retry_enable' \subseteq exists'
      /\ ps \in SUBSET exists'
  BY <1>1, <1>2 DEF SetsOK
<1>5. \A q \in Profiles : (Started(q)' <=> Started(q) \/ q \in ps) /\ (q \in ps => ~Started(q))
  BY <1>1, <1>2 DEF Started, SetsOK
<1> QED
  BY <1>2, <1>3, <1>4, <1>5, StartStep

LEMMA ProfileDeletedStep ==
    ASSUME IInv, NEW p \in Profiles, ProfileDeleted(p)
    PROVE  IInv'
<1>1. Base /\ SetsOK /\ ReportsOK
  BY TypeParts DEF IInv, Base
<1>2. /\ UNCHANGED places /\ UNCHANGED <<unread, lost, global_enable>> /\ p \in exists
      /\ exists' = exists \ {p} /\ is_enabled' = is_enabled \ {p}
      /\ retry_enable' = retry_enable \ {p}
  BY DEF ProfileDeleted, places, bdc
<1>3. RowsOK'
  <2>1. Cardinality(exists \ {p}) = Cardinality(exists) - 1 /\ Cardinality(exists) \in Nat
    BY <1>1, <1>2, ExistsFinite, FS_RemoveElement
  <2>2. TypeOK /\ unread \subseteq Profiles \ exists /\ lost \in Nat
        /\ Cardinality(exists) + lost <= MaxProfiles
    BY <1>1 DEF Base, TypeOK, RowsOK
  <2>3. Rows' = Rows \ {p} /\ p \in Rows /\ unread' \subseteq Profiles \ exists' /\ lost' \in Nat
    BY <1>2, <2>2 DEF Rows
  <2>4. Cardinality(exists') + lost' <= MaxProfiles
    BY <1>2, <2>1, <2>2, BulkDataAssumption
  <2> QED
    BY <2>2, <2>3, <2>4, RowGone
<1>4. CASE Started(p)
  <2>1. Stop({p})
    BY <1>4 DEF ProfileDeleted
  <2>2. /\ exists' \subseteq exists /\ exists \ {p} \subseteq exists' /\ global_enable' \in BOOLEAN
        /\ is_enabled' \subseteq exists' /\ retry_enable' \subseteq exists' /\ {p} \in SUBSET exists
    BY <1>1, <1>2 DEF SetsOK
  <2>3. \A q \in Profiles : Started(q)' <=> Started(q) /\ q \notin {p}
    BY <1>2 DEF Started
  <2> QED
    BY <1>2, <1>3, <2>1, <2>2, <2>3, StopStep
<1>5. CASE ~Started(p)
  <2>1. retrying' = retrying \ {p} /\ UNCHANGED <<reports, registered, armed, disturbed, silent>>
    BY <1>5 DEF ProfileDeleted, timers, history
  <2>2. \A q \in Profiles : Started(q)' <=> Started(q)
    BY <1>2, <1>5 DEF Started
  <2>3. SetsOK'
    BY <1>1, <1>2, <2>1 DEF SetsOK
  <2>4. ReportsOK' /\ TimerIffStarted'
    BY <1>1, <2>1, <2>2 DEF ReportsOK, Base, TimerIffStarted
  <2>5. \A q \in Profiles : Kept(q)
    BY <2>1, <2>2 DEF Kept
  <2> QED
    BY <1>2, <1>3, <2>3, <2>4, <2>5, ConfigStep
<1> QED
  BY <1>4, <1>5

(* Rows without an entry come and go: nothing else changes. *)
LEMMA UnreadStep ==
    ASSUME IInv, RowsOK', UNCHANGED <<exists, global_enable, is_enabled, retry_enable>>,
           UNCHANGED <<profile, timers, posting, bdc, results, history>>
    PROVE  IInv'
<1>1. Base /\ SetsOK /\ ReportsOK
  BY TypeParts DEF IInv, Base
<1>2. /\ UNCHANGED places
      /\ UNCHANGED <<reports, retrying, registered, armed, disturbed, silent>>
  BY DEF places, bdc, profile, timers, history
<1>3. \A q \in Profiles : Started(q)' <=> Started(q)
  BY DEF Started
<1>4. SetsOK' /\ ReportsOK' /\ TimerIffStarted'
  BY <1>1, <1>2 DEF SetsOK, ReportsOK, Base, TimerIffStarted, Started
<1>5. \A q \in Profiles : Kept(q)
  BY <1>2, <1>3 DEF Kept
<1> QED
  BY <1>2, <1>4, <1>5, ConfigStep

LEMMA ProfileNotReadStep ==
    ASSUME IInv, NEW p \in Profiles, ProfileNotRead(p)
    PROVE  IInv'
<1>1. TypeOK /\ unread \subseteq Profiles \ exists /\ lost \in Nat
      /\ Cardinality(exists) + lost <= MaxProfiles /\ Cardinality(exists) \in Nat
  BY RowsFinite DEF IInv, Base, TypeOK, RowsOK
<1>2. /\ MayBeAdded(p) /\ p \notin exists /\ unread' = unread \cup {p}
      /\ lost' = (IF FreeProfile THEN lost + 1 ELSE lost) /\ exists' = exists
  BY DEF ProfileNotRead, MayBeAdded, Rows
<1>3. Rows' = Rows \cup {p} /\ unread' \subseteq Profiles \ exists'
  BY <1>1, <1>2 DEF Rows
<1>4. lost' \in Nat /\ Cardinality(exists') + lost' <= MaxProfiles
  BY <1>1, <1>2, BulkDataAssumption DEF FreeProfile
<1>5. RowsOK'
  BY <1>1, <1>2, <1>3, <1>4, RowAdded
<1> QED
  BY <1>5, UnreadStep DEF ProfileNotRead

LEMMA UnreadDeletedStep ==
    ASSUME IInv, NEW p \in Profiles, UnreadDeleted(p)
    PROVE  IInv'
<1>1. TypeOK /\ unread \subseteq Profiles \ exists /\ lost \in Nat
      /\ Cardinality(exists) + lost <= MaxProfiles
  BY DEF IInv, Base, TypeOK, RowsOK
<1>2. p \in unread /\ unread' = unread \ {p} /\ exists' = exists /\ lost' = lost
  BY DEF UnreadDeleted
<1>3. Rows' = Rows \ {p} /\ p \in Rows /\ unread' \subseteq Profiles \ exists'
  BY <1>1, <1>2 DEF Rows
<1>4. RowsOK'
  BY <1>1, <1>2, <1>3, RowGone
<1> QED
  BY <1>4, UnreadStep DEF UnreadDeleted

-----------------------------------------------------------------------------
(* Steps that move a transfer from one place to the next, or lose it. *)
LEMMA QueueAppend ==
    ASSUME NEW T, NEW s \in Seq(T), NEW x \in T
    PROVE  /\ Append(s, x) \in Seq(T) /\ Len(Append(s, x)) = Len(s) + 1
           /\ DOMAIN s = 1..Len(s) /\ Len(s) \in Nat
           /\ DOMAIN Append(s, x) = 1..(Len(s) + 1)
           /\ \A i \in DOMAIN s : Append(s, x)[i] = s[i]
           /\ Append(s, x)[Len(s) + 1] = x
  OBVIOUS

LEMMA QueueTail ==
    ASSUME NEW T, NEW s \in Seq(T), s # <<>>
    PROVE  /\ Tail(s) \in Seq(T) /\ Len(Tail(s)) = Len(s) - 1
           /\ DOMAIN s = 1..Len(s) /\ Len(s) \in Nat \ {0}
           /\ DOMAIN Tail(s) = 1..(Len(s) - 1)
           /\ \A i \in DOMAIN Tail(s) : Tail(s)[i] = s[i + 1]
           /\ Head(s) = s[1] /\ s[1] \in T
<1>1. DOMAIN s = 1..Len(s) /\ Len(s) \in Nat
  OBVIOUS
<1>2. Len(s) # 0
  OBVIOUS
<1>3. Tail(s) \in Seq(T) /\ Len(Tail(s)) = Len(s) - 1 /\ Head(s) = s[1] /\ s[1] \in T
  OBVIOUS
<1>4. DOMAIN Tail(s) = 1..(Len(s) - 1) /\ \A i \in DOMAIN Tail(s) : Tail(s)[i] = s[i + 1]
  OBVIOUS
<1> QED
  BY <1>1, <1>2, <1>3, <1>4

Alone(q) == OnePlace(q) /\ Carries(q, reports[q])

LEMMA MoveStep ==
    ASSUME IInv, UNCHANGED <<config, profile, timers, disturbed>>, PlacesOK',
           silent \subseteq silent', silent' \subseteq Profiles,
           \A q \in Profiles : /\ OnWay(q)' => OnWay(q)
                               /\ OnWay(q) => OnWay(q)' \/ q \in silent'
                               /\ Alone(q) => Alone(q)'
    PROVE  IInv'
<1>1. Base /\ SetsOK /\ ReportsOK
  BY TypeParts DEF IInv, Base
<1>2. UNCHANGED <<exists, unread, lost, global_enable, is_enabled, retry_enable, retrying, reports, registered,
                  armed, disturbed>>
  BY DEF config, profile, timers
<1>3. SetsOK' /\ ReportsOK' /\ TimerIffStarted' /\ RowsOK'
  BY <1>1, <1>2, RowsSame DEF SetsOK, ReportsOK, Base, TimerIffStarted, Started
<1>4. Base'
  BY <1>3, TypePartsNext DEF Base
<1>5. ASSUME NEW q \in Profiles PROVE Heard(q)' /\ (q \notin disturbed' => Undisturbed(q)')
  <2>1. Heard(q) /\ (q \notin disturbed => Undisturbed(q)) /\ (Started(q)' <=> Started(q))
    BY <1>2 DEF IInv, Started
  <2> QED
    BY <1>2, <2>1 DEF Heard, Undisturbed, Alone
<1> QED
  BY <1>4, <1>5 DEF IInv

LEMMA PostReportToSendStep ==
    ASSUME IInv, PostReportToSend
    PROVE  IInv'
<1>1. PlacesOK
  BY TypeParts DEF IInv, Base
<1>2. /\ UNCHANGED <<connection, notifying, results, reports, silent>>
      /\ UNCHANGED <<config, profile, timers, disturbed>>
      /\ posting # None /\ posting' = None
      /\ bdcQueue' = Append(bdcQueue, posting) /\ Len(bdcQueue) < BdcQueueMax
  BY DEF PostReportToSend, profile, history
<1> DEFINE n == Len(bdcQueue)
<1>3. /\ posting \in Transfer /\ bdcQueue' \in Seq(Transfer) /\ Len(bdcQueue') = n + 1 /\ n \in Nat
      /\ DOMAIN bdcQueue = 1..n /\ DOMAIN bdcQueue' = 1..(n + 1)
      /\ \A i \in 1..n : bdcQueue'[i] = bdcQueue[i]
      /\ bdcQueue'[n + 1] = posting
  BY <1>1, <1>2, QueueAppend DEF PlacesOK
<1>4. PlacesOK'
  BY <1>1, <1>2, <1>3, BulkDataAssumption DEF PlacesOK
<1>5. ASSUME NEW q \in Profiles
      PROVE  (OnWay(q)' <=> OnWay(q)) /\ (Alone(q) => Alone(q)')
  <2>1. (Held(q, posting) <=> posting.profile = q) /\ ~Held(q, posting)'
    BY <1>2 DEF Held
  <2>2. /\ Connected(q)' <=> Connected(q)
        /\ Held(q, notifying)' <=> Held(q, notifying)
        /\ Answered(q)' <=> Answered(q)
    BY <1>2 DEF Connected, Answered, Held
  <2>3. Queued(q)' <=> Queued(q) \/ posting.profile = q
    <3>1. \A i \in 1..(n + 1) : i \in 1..n \/ i = n + 1
      BY <1>3
    <3>2. 1..n \subseteq 1..(n + 1) /\ n + 1 \in 1..(n + 1)
      BY <1>3
    <3> HIDE DEF n
    <3> QED
      BY <1>3, <3>1, <3>2 DEF Queued
  <2>4. OnWay(q)' <=> OnWay(q)
    BY <2>1, <2>2, <2>3 DEF OnWay
  <2>5. ASSUME Alone(q) PROVE Alone(q)'
    <3>1. \A i, j \in DOMAIN bdcQueue' :
             bdcQueue'[i].profile = q /\ bdcQueue'[j].profile = q => i = j
      <4> SUFFICES ASSUME NEW i \in 1..(n + 1), NEW j \in 1..(n + 1),
                          bdcQueue'[i].profile = q, bdcQueue'[j].profile = q
                   PROVE  i = j
        BY <1>3
      <4>1. CASE posting.profile = q
        <5>1. ~Queued(q)
          BY <2>1, <2>5, <4>1 DEF Alone, OnePlace
        <5>2. i \notin 1..n /\ j \notin 1..n
          BY <1>3, <5>1 DEF Queued
        <5> QED
          BY <1>3, <5>2
      <4>2. CASE posting.profile # q
        <5>1. i \in 1..n /\ j \in 1..n
          BY <1>3, <4>2
        <5> QED
          BY <1>3, <2>5, <5>1 DEF Alone, OnePlace
      <4> QED
        BY <4>1, <4>2
    <3>2. OnePlace(q)'
      BY <1>2, <2>1, <2>2, <2>3, <2>5, <3>1 DEF Alone, OnePlace, Held
    <3>3. \A i \in DOMAIN bdcQueue' : bdcQueue'[i].profile = q => bdcQueue'[i].reports = reports[q]
      <4> SUFFICES ASSUME NEW i \in 1..(n + 1), bdcQueue'[i].profile = q
                   PROVE  bdcQueue'[i].reports = reports[q]
        BY <1>3
      <4>1. i \in 1..n \/ i = n + 1
        BY <1>3
      <4> QED
        BY <1>3, <2>1, <2>5, <4>1 DEF Alone, Carries
    <3>4. Carries(q, reports[q])'
      BY <1>2, <2>1, <2>5, <3>3 DEF Alone, Carries, Held
    <3> QED
      BY <3>2, <3>4 DEF Alone
  <2> QED
    BY <2>4, <2>5
<1>6. silent \subseteq silent' /\ silent' \subseteq Profiles
  BY <1>2 DEF IInv, Base, TypeOK
<1> QED
  BY <1>2, <1>4, <1>5, <1>6, MoveStep

(* Taking the head off the BDC thread's queue: what that does for a        *)
(* profile q.                                                              *)
LEMMA Dequeued ==
    ASSUME PlacesOK, bdcQueue # <<>>, bdcQueue' = Tail(bdcQueue)
    PROVE  /\ bdcQueue[1] \in Transfer /\ Head(bdcQueue) = bdcQueue[1]
           /\ bdcQueue' \in Seq(Transfer) /\ Len(bdcQueue') <= BdcQueueMax
           /\ \A q \in Profiles :
                /\ Queued(q)' => Queued(q)
                /\ Queued(q) => Queued(q)' \/ bdcQueue[1].profile = q
                /\ bdcQueue[1].profile = q => Queued(q)
                /\ OnePlace(q) /\ bdcQueue[1].profile = q => ~Queued(q)'
                /\ OnePlace(q) => \A i, j \in DOMAIN bdcQueue' :
                        bdcQueue'[i].profile = q /\ bdcQueue'[j].profile = q => i = j
                /\ \A rs : (\A i \in DOMAIN bdcQueue : bdcQueue[i].profile = q => bdcQueue[i].reports = rs)
                        => (\A i \in DOMAIN bdcQueue' : bdcQueue'[i].profile = q => bdcQueue'[i].reports = rs)
<1> DEFINE n == Len(bdcQueue)
<1>1. /\ bdcQueue' \in Seq(Transfer) /\ Len(bdcQueue') = n - 1 /\ n \in Nat \ {0}
      /\ DOMAIN bdcQueue = 1..n /\ DOMAIN bdcQueue' = 1..(n - 1)
      /\ \A i \in 1..(n - 1) : bdcQueue'[i] = bdcQueue[i + 1]
      /\ Head(bdcQueue) = bdcQueue[1] /\ bdcQueue[1] \in Transfer
  BY QueueTail DEF PlacesOK
<1>2. Len(bdcQueue') <= BdcQueueMax
  BY <1>1, BulkDataAssumption DEF PlacesOK
<1>3. \A i \in 1..(n - 1) : i + 1 \in 1..n /\ i + 1 # 1
  BY <1>1
<1>4. \A i \in 1..n : i = 1 \/ \E j \in 1..(n - 1) : i = j + 1
  <2> SUFFICES ASSUME NEW i \in 1..n, i # 1 PROVE \E j \in 1..(n - 1) : i = j + 1
    OBVIOUS
  <2>1. i - 1 \in 1..(n - 1) /\ i = (i - 1) + 1
    BY <1>1
  <2> QED
    BY <2>1
<1>5. 1 \in 1..n
  BY <1>1
<1>6. \A i, j \in 1..(n - 1) : i + 1 = j + 1 => i = j
  BY <1>1
<1> HIDE DEF n
<1>7. ASSUME NEW q \in Profiles
      PROVE  /\ Queued(q)' => Queued(q)
             /\ Queued(q) => Queued(q)' \/ bdcQueue[1].profile = q
             /\ bdcQueue[1].profile = q => Queued(q)
  <2>1. ASSUME Queued(q)' PROVE Queued(q)
    BY <1>1, <1>3, <2>1 DEF Queued
  <2>2. ASSUME Queued(q), bdcQueue[1].profile # q PROVE Queued(q)'
    <3>1. PICK i \in 1..n : bdcQueue[i].profile = q
      BY <1>1, <2>2 DEF Queued
    <3>2. PICK j \in 1..(n - 1) : i = j + 1
      BY <1>4, <2>2, <3>1
    <3>3. j \in DOMAIN bdcQueue' /\ bdcQueue'[j].profile = q
      BY <1>1, <3>1, <3>2
    <3> QED
      BY <3>3 DEF Queued
  <2>3. ASSUME bdcQueue[1].profile = q PROVE Queued(q)
    BY <1>1, <1>5, <2>3 DEF Queued
  <2> QED
    BY <2>1, <2>2, <2>3
<1>8. ASSUME NEW q \in Profiles, OnePlace(q), bdcQueue[1].profile = q
      PROVE  ~Queued(q)'
  <2>1. \A i, j \in 1..n : bdcQueue[i].profile = q /\ bdcQueue[j].profile = q => i = j
    BY <1>1, <1>8 DEF OnePlace
  <2> QED
    BY <1>1, <1>3, <1>5, <1>8, <2>1 DEF Queued
<1>9. ASSUME NEW q \in Profiles, OnePlace(q)
      PROVE  \A i, j \in DOMAIN bdcQueue' :
                bdcQueue'[i].profile = q /\ bdcQueue'[j].profile = q => i = j
  <2>1. \A i, j \in 1..n : bdcQueue[i].profile = q /\ bdcQueue[j].profile = q => i = j
    BY <1>1, <1>9 DEF OnePlace
  <2> QED
    BY <1>1, <1>3, <1>6, <2>1
<1>10. ASSUME NEW q \in Profiles, NEW rs,
              \A i \in DOMAIN bdcQueue : bdcQueue[i].profile = q => bdcQueue[i].reports = rs
       PROVE  \A i \in DOMAIN bdcQueue' : bdcQueue'[i].profile = q => bdcQueue'[i].reports = rs
  BY <1>1, <1>3, <1>10
<1> QED
  BY <1>1, <1>2, <1>7, <1>8, <1>9, <1>10

LEMMA ReportDroppedStep ==
    ASSUME IInv, ReportDropped
    PROVE  IInv'
<1>1. PlacesOK
  BY TypeParts DEF IInv, Base
<1>2. /\ UNCHANGED <<posting, connection, notifying, results, reports, disturbed>>
      /\ UNCHANGED <<config, profile, timers, disturbed>>
      /\ bdcQueue # <<>> /\ bdcQueue' = Tail(bdcQueue)
      /\ silent' = silent \cup {Head(bdcQueue).profile}
  BY DEF ReportDropped, profile
<1>3. bdcQueue[1] \in Transfer /\ Head(bdcQueue) = bdcQueue[1]
      /\ bdcQueue' \in Seq(Transfer) /\ Len(bdcQueue') <= BdcQueueMax
  BY <1>1, <1>2, Dequeued
<1>4. PlacesOK'
  BY <1>1, <1>2, <1>3 DEF PlacesOK
<1>5. silent \subseteq silent' /\ silent' \subseteq Profiles
  BY <1>2, <1>3 DEF IInv, Base, TypeOK, Transfer
<1>6. ASSUME NEW q \in Profiles
      PROVE  /\ OnWay(q)' => OnWay(q)
             /\ OnWay(q) => OnWay(q)' \/ q \in silent'
             /\ Alone(q) => Alone(q)'
  <2>1. /\ Held(q, posting)' <=> Held(q, posting)
        /\ Connected(q)' <=> Connected(q)
        /\ Held(q, notifying)' <=> Held(q, notifying)
        /\ Answered(q)' <=> Answered(q)
    BY <1>2 DEF Connected, Answered, Held
  <2>2. /\ Queued(q)' => Queued(q)
        /\ Queued(q) => Queued(q)' \/ bdcQueue[1].profile = q
        /\ OnePlace(q) => \A i, j \in DOMAIN bdcQueue' :
                bdcQueue'[i].profile = q /\ bdcQueue'[j].profile = q => i = j
        /\ (\A i \in DOMAIN bdcQueue : bdcQueue[i].profile = q => bdcQueue[i].reports = reports[q])
                => (\A i \in DOMAIN bdcQueue' : bdcQueue'[i].profile = q => bdcQueue'[i].reports = reports[q])
    BY <1>1, <1>2, Dequeued
  <2>3. (OnWay(q)' => OnWay(q)) /\ (OnWay(q) => OnWay(q)' \/ q \in silent')
    BY <1>2, <1>3, <2>1, <2>2 DEF OnWay
  <2>4. ASSUME Alone(q) PROVE OnePlace(q)'
    BY <1>2, <2>1, <2>2, <2>4 DEF Alone, OnePlace, Held
  <2>5. ASSUME Alone(q) PROVE Carries(q, reports[q])'
    BY <1>2, <2>2, <2>5 DEF Alone, Carries, Held
  <2> QED
    BY <2>3, <2>4, <2>5 DEF Alone
<1> QED
  BY <1>2, <1>4, <1>5, <1>6, MoveStep

LEMMA StartSendingReportStep ==
    ASSUME IInv, StartSendingReport
    PROVE  IInv'
<1>1. PlacesOK
  BY TypeParts DEF IInv, Base
<1>2. /\ UNCHANGED <<posting, notifying, results, reports, silent>>
      /\ UNCHANGED <<config, profile, timers, disturbed>>
      /\ bdcQueue # <<>> /\ bdcQueue' = Tail(bdcQueue)
  BY DEF StartSendingReport, profile, history
<1>3. bdcQueue[1] \in Transfer /\ Head(bdcQueue) = bdcQueue[1]
      /\ bdcQueue' \in Seq(Transfer) /\ Len(bdcQueue') <= BdcQueueMax
  BY <1>1, <1>2, Dequeued
<1> DEFINE h == bdcQueue[1]
<1>4. PICK c \in Slots : connection[c] = None /\ connection' = [connection EXCEPT ![c] = h]
  BY <1>3 DEF StartSendingReport, FreeConnection
<1>5. /\ connection' \in [Slots -> Transfer \cup {None}] /\ connection'[c] = h /\ h # None
      /\ \A i \in Slots \ {c} : connection'[i] = connection[i]
  BY <1>1, <1>3, <1>4, NoneAssumption DEF PlacesOK
<1> HIDE DEF h
<1>6. PlacesOK'
  BY <1>1, <1>2, <1>3, <1>5 DEF PlacesOK
<1>7. silent \subseteq silent' /\ silent' \subseteq Profiles
  BY <1>2 DEF IInv, Base, TypeOK
<1>8. ASSUME NEW q \in Profiles
      PROVE  (OnWay(q)' <=> OnWay(q)) /\ (Alone(q) => Alone(q)')
  <2>1. /\ Held(q, posting)' <=> Held(q, posting)
        /\ Held(q, notifying)' <=> Held(q, notifying)
        /\ Answered(q)' <=> Answered(q)
    BY <1>2 DEF Answered, Held
  <2>2. /\ Queued(q)' => Queued(q)
        /\ Queued(q) => Queued(q)' \/ h.profile = q
        /\ h.profile = q => Queued(q)
        /\ OnePlace(q) /\ h.profile = q => ~Queued(q)'
        /\ OnePlace(q) => \A i, j \in DOMAIN bdcQueue' :
                bdcQueue'[i].profile = q /\ bdcQueue'[j].profile = q => i = j
        /\ (\A i \in DOMAIN bdcQueue : bdcQueue[i].profile = q => bdcQueue[i].reports = reports[q])
                => (\A i \in DOMAIN bdcQueue' : bdcQueue'[i].profile = q => bdcQueue'[i].reports = reports[q])
    BY <1>1, <1>2, Dequeued DEF h
  <2>3. /\ Connected(q)' <=> Connected(q) \/ h.profile = q
        /\ \A i \in Slots : Held(q, connection[i])' <=> Held(q, connection[i]) \/ (i = c /\ h.profile = q)
    BY <1>4, <1>5 DEF Connected, Held
  <2>4. OnWay(q)' <=> OnWay(q)
    BY <2>1, <2>2, <2>3 DEF OnWay
  <2>5. ASSUME Alone(q) PROVE OnePlace(q)'
    <3>1. \A i, j \in Slots : Held(q, connection[i])' /\ Held(q, connection[j])' => i = j
      <4>1. CASE h.profile = q
        <5>1. ~Connected(q)
          BY <2>2, <2>5, <4>1 DEF Alone, OnePlace
        <5> QED
          BY <2>3, <5>1 DEF Connected
      <4>2. CASE h.profile # q
        BY <2>3, <2>5, <4>2 DEF Alone, OnePlace
      <4> QED
        BY <4>1, <4>2
    <3>2. \A i, j \in DOMAIN results' : results'[i].profile = q /\ results'[j].profile = q => i = j
      BY <1>2, <2>5 DEF Alone, OnePlace
    <3>3. h.profile = q => ~Held(q, posting) /\ ~Held(q, notifying) /\ ~Answered(q) /\ ~Queued(q)'
      BY <2>2, <2>5 DEF Alone, OnePlace
    <3> QED
      BY <2>1, <2>2, <2>3, <2>5, <3>1, <3>2, <3>3 DEF Alone, OnePlace
  <2>6. ASSUME Alone(q) PROVE Carries(q, reports[q])'
    <3>1. h.profile = q => h.reports = reports[q]
      <4>1. 1 \in DOMAIN bdcQueue
        BY <1>1, <1>2, QueueTail DEF PlacesOK
      <4> QED
        BY <2>6, <4>1 DEF Alone, Carries, h
    <3>2. \A i \in Slots : Held(q, connection[i])' => connection'[i].reports = reports[q]
      <4> SUFFICES ASSUME NEW i \in Slots, Held(q, connection[i])'
                   PROVE  connection'[i].reports = reports[q]
        OBVIOUS
      <4>1. CASE i = c
        BY <1>5, <3>1, <4>1 DEF Held
      <4>2. CASE i # c
        <5>1. connection'[i] = connection[i] /\ Held(q, connection[i])
          BY <1>5, <2>3, <4>2
        <5> QED
          BY <2>6, <5>1 DEF Alone, Carries
      <4> QED
        BY <4>1, <4>2
    <3> QED
      BY <1>2, <2>2, <2>6, <3>2 DEF Alone, Carries, Held
  <2> QED
    BY <2>4, <2>5, <2>6 DEF Alone
<1> QED
  BY <1>2, <1>6, <1>7, <1>8, MoveStep

LEMMA TransferCompleteStep ==
    ASSUME IInv, NEW c \in Slots, TransferComplete(c)
    PROVE  IInv'
<1>1. PlacesOK
  BY TypeParts DEF IInv, Base
<1>2. /\ UNCHANGED <<posting, bdcQueue, results, reports, silent>>
      /\ UNCHANGED <<config, profile, timers, disturbed>>
      /\ notifying = None /\ connection[c] # None
      /\ connection' = [connection EXCEPT ![c] = None]
  BY DEF TransferComplete, BdcFree, profile, history
<1> DEFINE h == connection[c]
<1>3. h \in Transfer /\ h # None
  BY <1>1, <1>2 DEF PlacesOK
<1>4. PICK ok \in BOOLEAN :
        notifying' = [profile |-> h.profile, ok |-> ok, reports |-> h.reports]
  BY DEF TransferComplete
<1>5. /\ notifying' \in Result /\ notifying' # None
      /\ notifying'.profile = h.profile /\ notifying'.reports = h.reports
  BY <1>3, <1>4, NoneAssumption DEF Transfer, Result
<1>6. /\ connection' \in [Slots -> Transfer \cup {None}] /\ connection'[c] = None
      /\ \A i \in Slots \ {c} : connection'[i] = connection[i]
  BY <1>1, <1>2 DEF PlacesOK
<1>7. PlacesOK'
  BY <1>1, <1>2, <1>5, <1>6 DEF PlacesOK
<1>8. silent \subseteq silent' /\ silent' \subseteq Profiles
  BY <1>2 DEF IInv, Base, TypeOK
<1>9. ASSUME NEW q \in Profiles
      PROVE  (OnWay(q)' <=> OnWay(q)) /\ (Alone(q) => Alone(q)')
  <2>1. /\ Held(q, posting)' <=> Held(q, posting)
        /\ Queued(q)' <=> Queued(q)
        /\ Answered(q)' <=> Answered(q)
    BY <1>2 DEF Answered, Queued, Held
  <2>2. (Held(q, notifying)' <=> h.profile = q) /\ ~Held(q, notifying)
    BY <1>2, <1>5 DEF Held
  <2>3. /\ \A i \in Slots : Held(q, connection[i])' <=> Held(q, connection[i]) /\ i # c
        /\ Held(q, connection[c]) <=> h.profile = q
    BY <1>2, <1>6 DEF Held
  <2>4. Connected(q)' => Connected(q)
    BY <2>3 DEF Connected
  <2>5. Connected(q) <=> Connected(q)' \/ h.profile = q
    BY <2>3 DEF Connected
  <2>6. OnWay(q)' <=> OnWay(q)
    BY <2>1, <2>2, <2>5 DEF OnWay
  <2>7. ASSUME Alone(q) PROVE OnePlace(q)'
    <3>1. h.profile = q => Connected(q) /\ ~Connected(q)'
      BY <2>3, <2>7 DEF Connected, Alone, OnePlace
    <3>2. h.profile = q => ~Held(q, posting) /\ ~Queued(q) /\ ~Answered(q)
      BY <2>7, <3>1 DEF Alone, OnePlace
    <3>3. \A i, j \in Slots : Held(q, connection[i])' /\ Held(q, connection[j])' => i = j
      BY <2>3, <2>7 DEF Alone, OnePlace
    <3>4. /\ \A i, j \in DOMAIN results' : results'[i].profile = q /\ results'[j].profile = q => i = j
          /\ \A i, j \in DOMAIN bdcQueue' : bdcQueue'[i].profile = q /\ bdcQueue'[j].profile = q => i = j
      BY <1>2, <2>7 DEF Alone, OnePlace
    <3> QED
      BY <2>1, <2>2, <2>5, <2>7, <3>1, <3>2, <3>3, <3>4 DEF Alone, OnePlace
  <2>8. ASSUME Alone(q) PROVE Carries(q, reports[q])'
    <3>1. h.profile = q => h.reports = reports[q]
      BY <2>3, <2>8 DEF Alone, Carries
    <3>2. \A i \in Slots : Held(q, connection[i])' => connection'[i].reports = reports[q]
      <4> SUFFICES ASSUME NEW i \in Slots, Held(q, connection[i])'
                   PROVE  connection'[i].reports = reports[q]
        OBVIOUS
      <4>1. i # c /\ connection'[i] = connection[i] /\ Held(q, connection[i])
        BY <1>6, <2>3
      <4> QED
        BY <2>8, <4>1 DEF Alone, Carries
    <3>3. Held(q, notifying)' => notifying'.reports = reports[q]
      BY <1>5, <2>2, <3>1
    <3> QED
      BY <1>2, <2>8, <3>2, <3>3 DEF Alone, Carries, Held
  <2> QED
    BY <2>6, <2>7, <2>8 DEF Alone
<1> QED
  BY <1>2, <1>7, <1>8, <1>9, MoveStep

LEMMA PostTransferResultStep ==
    ASSUME IInv, PostTransferResult
    PROVE  IInv'
<1>1. PlacesOK
  BY TypeParts DEF IInv, Base
<1>2. /\ UNCHANGED <<posting, bdcQueue, connection, reports, silent>>
      /\ UNCHANGED <<config, profile, timers, disturbed>>
      /\ notifying # None /\ notifying' = None
      /\ results' = Append(results, notifying) /\ Len(results) < DmQueueMax
  BY DEF PostTransferResult, profile, history
<1> DEFINE n == Len(results)
<1>3. /\ notifying \in Result /\ results' \in Seq(Result) /\ Len(results') = n + 1 /\ n \in Nat
      /\ DOMAIN results = 1..n /\ DOMAIN results' = 1..(n + 1)
      /\ \A i \in 1..n : results'[i] = results[i]
      /\ results'[n + 1] = notifying
  BY <1>1, <1>2, QueueAppend DEF PlacesOK
<1>4. PlacesOK'
  BY <1>1, <1>2, <1>3, BulkDataAssumption DEF PlacesOK
<1>5. ASSUME NEW q \in Profiles
      PROVE  (OnWay(q)' <=> OnWay(q)) /\ (Alone(q) => Alone(q)')
  <2>1. (Held(q, notifying) <=> notifying.profile = q) /\ ~Held(q, notifying)'
    BY <1>2 DEF Held
  <2>2. /\ Connected(q)' <=> Connected(q)
        /\ Held(q, posting)' <=> Held(q, posting)
        /\ Queued(q)' <=> Queued(q)
    BY <1>2 DEF Connected, Queued, Held
  <2>3. Answered(q)' <=> Answered(q) \/ notifying.profile = q
    <3>1. \A i \in 1..(n + 1) : i \in 1..n \/ i = n + 1
      BY <1>3
    <3>2. 1..n \subseteq 1..(n + 1) /\ n + 1 \in 1..(n + 1)
      BY <1>3
    <3> HIDE DEF n
    <3> QED
      BY <1>3, <3>1, <3>2 DEF Answered
  <2>4. OnWay(q)' <=> OnWay(q)
    BY <2>1, <2>2, <2>3 DEF OnWay
  <2>5. ASSUME Alone(q) PROVE Alone(q)'
    <3>1. \A i, j \in DOMAIN results' :
             results'[i].profile = q /\ results'[j].profile = q => i = j
      <4> SUFFICES ASSUME NEW i \in 1..(n + 1), NEW j \in 1..(n + 1),
                          results'[i].profile = q, results'[j].profile = q
                   PROVE  i = j
        BY <1>3
      <4>1. CASE notifying.profile = q
        <5>1. ~Answered(q)
          BY <2>1, <2>5, <4>1 DEF Alone, OnePlace
        <5>2. i \notin 1..n /\ j \notin 1..n
          BY <1>3, <5>1 DEF Answered
        <5> QED
          BY <1>3, <5>2
      <4>2. CASE notifying.profile # q
        <5>1. i \in 1..n /\ j \in 1..n
          BY <1>3, <4>2
        <5> QED
          BY <1>3, <2>5, <5>1 DEF Alone, OnePlace
      <4> QED
        BY <4>1, <4>2
    <3>2. OnePlace(q)'
      BY <1>2, <2>1, <2>2, <2>3, <2>5, <3>1 DEF Alone, OnePlace, Held
    <3>3. \A i \in DOMAIN results' : results'[i].profile = q => results'[i].reports = reports[q]
      <4> SUFFICES ASSUME NEW i \in 1..(n + 1), results'[i].profile = q
                   PROVE  results'[i].reports = reports[q]
        BY <1>3
      <4>1. i \in 1..n \/ i = n + 1
        BY <1>3
      <4> QED
        BY <1>3, <2>1, <2>5, <4>1 DEF Alone, Carries
    <3>4. Carries(q, reports[q])'
      BY <1>2, <2>1, <2>5, <3>3 DEF Alone, Carries, Held
    <3> QED
      BY <3>2, <3>4 DEF Alone
  <2> QED
    BY <2>4, <2>5
<1>6. silent \subseteq silent' /\ silent' \subseteq Profiles
  BY <1>2 DEF IInv, Base, TypeOK
<1> QED
  BY <1>2, <1>4, <1>5, <1>6, MoveStep

LEMMA ProcessProfileHttpStep ==
    ASSUME IInv, NEW p \in Profiles, ProcessProfileHttp(p)
    PROVE  IInv'
<1>1. Base /\ TypeOK /\ SetsOK /\ ReportsOK /\ PlacesOK
  BY TypeParts DEF IInv, Base
<1>2. /\ UNCHANGED <<exists, unread, lost, global_enable, is_enabled, retry_enable, retrying, registered>>
      /\ UNCHANGED <<bdcQueue, connection, notifying, results, disturbed, silent>>
      /\ posting = None /\ p \in armed /\ armed' = armed \ {p}
  BY DEF ProcessProfileHttp, Fires, DmFree, config, bdc, history
<1>3. PICK r \in Reports, keep \in 0..MaxRetained :
        /\ reports' = [reports EXCEPT ![p] = Collected(p, r, keep)]
        /\ posting' = [profile |-> p, reports |-> Collected(p, r, keep)]
  BY DEF ProcessProfileHttp
<1> DEFINE rs == Collected(p, r, keep)
<1>4. rs \in Seq(Reports) /\ Len(rs) <= MaxRetained + 1 /\ (p \notin retrying => rs # <<>>)
        /\ (p \in retrying => rs = reports[p])
  BY <1>1, CollectedType
<1>5. reports' = [reports EXCEPT ![p] = rs] /\ posting' = [profile |-> p, reports |-> rs]
  BY <1>3
<1> HIDE DEF rs
<1>6. ReportsOK' /\ reports'[p] = rs /\ \A q \in Profiles \ {p} : reports'[q] = reports[q]
  BY <1>1, <1>4, <1>5, OneReportsType
<1>7. posting' \in Transfer /\ posting' # None /\ posting'.profile = p /\ posting'.reports = rs
  BY <1>4, <1>5, NoneAssumption DEF Transfer
<1>8. Base'
  <2>1. SetsOK' /\ PlacesOK'
    BY <1>1, <1>2, <1>7 DEF SetsOK, PlacesOK
  <2>2. TypeOK'
    BY <1>1, <1>2, <1>6, <2>1, RowsSame, TypePartsNext
  <2> QED
    BY <1>1, <1>2, <2>2 DEF Base, TimerIffStarted, Started
<1>9. ASSUME NEW q \in Profiles PROVE Heard(q)' /\ (q \notin disturbed' => Undisturbed(q)')
  <2>1. Heard(q) /\ (q \notin disturbed => Undisturbed(q)) /\ (Started(q)' <=> Started(q))
    BY <1>2 DEF IInv, Started
  <2>2. /\ Connected(q)' <=> Connected(q)
        /\ Held(q, notifying)' <=> Held(q, notifying)
        /\ Answered(q)' <=> Answered(q)
        /\ Queued(q)' <=> Queued(q)
    BY <1>2 DEF Connected, Queued, Answered, Held
  <2>3. ~Held(q, posting) /\ (Held(q, posting)' <=> q = p)
    BY <1>2, <1>7 DEF Held
  <2>4. OnWay(q)' <=> OnWay(q) \/ q = p
    BY <2>2, <2>3 DEF OnWay
  <2>5. Heard(q)'
    BY <1>2, <2>1, <2>4 DEF Heard
  <2>6. ASSUME q \notin disturbed' PROVE Undisturbed(q)'
    <3>1. Undisturbed(q)
      BY <1>2, <2>1, <2>6
    <3>2. CASE q = p
      <4>1. ~OnWay(q) /\ Started(q) /\ rs # <<>>
        BY <1>1, <1>2, <1>4, <3>1, <3>2, ArmedStarted DEF Undisturbed
      <4>2. ~Queued(q) /\ ~Connected(q) /\ ~Held(q, notifying) /\ ~Answered(q)
        BY <4>1 DEF OnWay
      <4>3. /\ \A i \in DOMAIN bdcQueue' : bdcQueue'[i].profile # q
            /\ \A i \in Slots : ~Held(q, connection[i])'
            /\ \A i \in DOMAIN results' : results'[i].profile # q
        BY <1>2, <4>2 DEF Queued, Connected, Answered, Held
      <4>4. OnePlace(q)'
        BY <2>2, <4>2, <4>3 DEF OnePlace
      <4>5. Carries(q, reports[q])'
        BY <1>6, <1>7, <2>2, <3>2, <4>2, <4>3 DEF Carries
      <4> QED
        BY <1>2, <1>6, <2>1, <3>2, <4>1, <4>4, <4>5 DEF Undisturbed
    <3>3. CASE q # p
      <4>1. OnePlace(q)'
        BY <1>2, <2>2, <2>3, <3>1, <3>3 DEF Undisturbed, OnePlace, Held
      <4>2. Carries(q, reports[q])'
        BY <1>2, <1>6, <2>3, <3>1, <3>3 DEF Undisturbed, Carries, Held
      <4> QED
        BY <1>2, <1>6, <2>1, <2>4, <3>1, <3>3, <4>1, <4>2 DEF Undisturbed
    <3> QED
      BY <3>2, <3>3
  <2> QED
    BY <2>5, <2>6
<1> QED
  BY <1>8, <1>9 DEF IInv

(* Taking the head off the DM thread's queue. *)
LEMMA ResultTaken ==
    ASSUME PlacesOK, results # <<>>, results' = Tail(results),
           UNCHANGED <<posting, bdcQueue, connection, notifying>>
    PROVE  /\ results[1] \in Result /\ Head(results) = results[1]
           /\ PlacesOK'
           /\ \A q \in Profiles :
                /\ OnWay(q)' => OnWay(q)
                /\ OnWay(q) => OnWay(q)' \/ results[1].profile = q
                /\ results[1].profile = q => OnWay(q)
                /\ OnePlace(q) /\ results[1].profile = q => ~OnWay(q)'
                /\ OnePlace(q) => OnePlace(q)'
                /\ \A rs : (\A i \in DOMAIN results : results[i].profile = q => results[i].reports = rs)
                        => (\A i \in DOMAIN results' : results'[i].profile = q => results'[i].reports = rs)
<1> DEFINE n == Len(results)
<1>1. /\ results' \in Seq(Result) /\ Len(results') = n - 1 /\ n \in Nat \ {0}
      /\ DOMAIN results = 1..n /\ DOMAIN results' = 1..(n - 1)
      /\ \A i \in 1..(n - 1) : results'[i] = results[i + 1]
      /\ Head(results) = results[1] /\ results[1] \in Result
  BY QueueTail DEF PlacesOK
<1>2. PlacesOK'
  <2>1. Len(results') <= DmQueueMax
    BY <1>1, BulkDataAssumption DEF PlacesOK
  <2> QED
    BY <1>1, <2>1 DEF PlacesOK
<1>3. \A i \in 1..(n - 1) : i + 1 \in 1..n /\ i + 1 # 1
  BY <1>1
<1>4. \A i \in 1..n : i = 1 \/ \E j \in 1..(n - 1) : i = j + 1
  <2> SUFFICES ASSUME NEW i \in 1..n, i # 1 PROVE \E j \in 1..(n - 1) : i = j + 1
    OBVIOUS
  <2>1. i - 1 \in 1..(n - 1) /\ i = (i - 1) + 1
    BY <1>1
  <2> QED
    BY <2>1
<1>5. 1 \in 1..n
  BY <1>1
<1>6. \A i, j \in 1..(n - 1) : i + 1 = j + 1 => i = j
  BY <1>1
<1> HIDE DEF n
<1>7. ASSUME NEW q \in Profiles
      PROVE  /\ Answered(q)' => Answered(q)
             /\ Answered(q) => Answered(q)' \/ results[1].profile = q
             /\ results[1].profile = q => Answered(q)
  <2>1. ASSUME Answered(q)' PROVE Answered(q)
    BY <1>1, <1>3, <2>1 DEF Answered
  <2>2. ASSUME Answered(q), results[1].profile # q PROVE Answered(q)'
    <3>1. PICK i \in 1..n : results[i].profile = q
      BY <1>1, <2>2 DEF Answered
    <3>2. PICK j \in 1..(n - 1) : i = j + 1
      BY <1>4, <2>2, <3>1
    <3>3. j \in DOMAIN results' /\ results'[j].profile = q
      BY <1>1, <3>1, <3>2
    <3> QED
      BY <3>3 DEF Answered
  <2>3. ASSUME results[1].profile = q PROVE Answered(q)
    BY <1>1, <1>5, <2>3 DEF Answered
  <2> QED
    BY <2>1, <2>2, <2>3
<1>8. ASSUME NEW q \in Profiles
      PROVE  /\ Held(q, posting)' <=> Held(q, posting)
             /\ Queued(q)' <=> Queued(q)
             /\ Connected(q)' <=> Connected(q)
             /\ Held(q, notifying)' <=> Held(q, notifying)
  BY DEF Connected, Queued, Held
<1>9. ASSUME NEW q \in Profiles, OnePlace(q), results[1].profile = q
      PROVE  ~OnWay(q)'
  <2>1. \A i, j \in 1..n : results[i].profile = q /\ results[j].profile = q => i = j
    BY <1>1, <1>9 DEF OnePlace
  <2>2. ~Answered(q)'
    BY <1>1, <1>3, <1>5, <1>9, <2>1 DEF Answered
  <2> QED
    BY <1>7, <1>8, <1>9, <2>2 DEF OnePlace, OnWay
<1>10. ASSUME NEW q \in Profiles, OnePlace(q)
       PROVE  OnePlace(q)'
  <2>1. \A i, j \in 1..n : results[i].profile = q /\ results[j].profile = q => i = j
    BY <1>1, <1>10 DEF OnePlace
  <2>2. \A i, j \in DOMAIN results' : results'[i].profile = q /\ results'[j].profile = q => i = j
    BY <1>1, <1>3, <1>6, <2>1
  <2> QED
    BY <1>7, <1>8, <1>10, <2>2 DEF OnePlace, Held
<1>11. ASSUME NEW q \in Profiles, NEW rs,
              \A i \in DOMAIN results : results[i].profile = q => results[i].reports = rs
       PROVE  \A i \in DOMAIN results' : results'[i].profile = q => results'[i].reports = rs
  BY <1>1, <1>3, <1>11
<1>12. ASSUME NEW q \in Profiles
       PROVE  /\ OnWay(q)' => OnWay(q)
              /\ OnWay(q) => OnWay(q)' \/ results[1].profile = q
              /\ results[1].profile = q => OnWay(q)
  BY <1>7, <1>8 DEF OnWay
<1> QED
  BY <1>1, <1>2, <1>9, <1>10, <1>11, <1>12

LEMMA NotifyTransferResultStep ==
    ASSUME IInv, NotifyTransferResult
    PROVE  IInv'
<1> DEFINE p == results[1].profile
           ok == results[1].ok
<1>1. Base /\ TypeOK /\ SetsOK /\ ReportsOK /\ PlacesOK
  BY TypeParts DEF IInv, Base
<1>2. /\ UNCHANGED <<exists, unread, lost, global_enable, is_enabled, retry_enable>>
      /\ UNCHANGED <<posting, bdcQueue, connection, notifying>>
      /\ results # <<>> /\ results' = Tail(results)
  BY DEF NotifyTransferResult, config, bdc
<1>3. results[1] \in Result /\ Head(results) = results[1] /\ PlacesOK' /\ p \in Profiles
  BY <1>1, <1>2, ResultTaken DEF Result
<1>4. /\ IF p \notin exists THEN UNCHANGED <<profile, timers, silent>>
         ELSE IF ok THEN /\ reports' = [reports EXCEPT ![p] = <<>>]
                         /\ Resync(p, retrying \ {p}, armed)
         ELSE Failed(p, armed) /\ UNCHANGED reports
      /\ disturbed' = IF Settled(p) /\ (ok \/ p \notin exists) THEN disturbed \ {p} ELSE disturbed
  BY <1>3 DEF NotifyTransferResult
<1>5. Settled(p) => OnePlace(p)
  <2>1. Outstanding(p) = 1 => Outstanding(p) <= 1
    OBVIOUS
  <2> QED
    BY <1>1, <1>3, <2>1, Counted DEF Settled
<1> HIDE DEF p, ok
<1>6. /\ UNCHANGED registered
      /\ retrying' \subseteq retrying \cup {p}
      /\ p \in retrying' /\ p \in exists => ~ok
      /\ p \notin exists => UNCHANGED <<retrying, reports, armed, silent>>
      /\ \A q \in Profiles \ {p} : /\ q \in armed' <=> q \in armed
                                   /\ q \in silent' <=> q \in silent
      /\ p \in exists /\ Started(p) => p \in armed'
      /\ p \in exists /\ ~Started(p) => armed' = armed
      /\ silent' \subseteq silent
      /\ armed' \subseteq armed \cup {p}
      /\ ~ok => UNCHANGED reports
      /\ UNCHANGED reports \/ reports' = [reports EXCEPT ![p] = <<>>]
  BY <1>4 DEF Failed, Resync, profile, timers
<1>7. ReportsOK' /\ \A q \in Profiles \ {p} : reports'[q] = reports[q]
  <2>1. CASE UNCHANGED reports
    BY <1>1, <2>1 DEF ReportsOK
  <2>2. CASE reports' = [reports EXCEPT ![p] = <<>>]
    <3>1. <<>> \in Seq(Reports) /\ Len(<<>>) <= MaxRetained + 1
      BY BulkDataAssumption
    <3> QED
      BY <1>1, <1>3, <2>2, <3>1, OneReportsType
  <2> QED
    BY <1>6, <2>1, <2>2
<1>8. SetsOK'
  <2>1. p \in exists /\ Started(p) => p \in registered
    BY <1>1, <1>3, ArmedStarted
  <2>2. armed' \subseteq registered
    BY <1>1, <1>6, <2>1 DEF SetsOK
  <2>3. retrying' \subseteq exists
    BY <1>1, <1>6 DEF SetsOK
  <2>4. disturbed' \subseteq Profiles
    BY <1>1, <1>4 DEF SetsOK
  <2> QED
    BY <1>1, <1>2, <1>6, <2>2, <2>3, <2>4 DEF SetsOK
<1>9. Base'
  <2>1. TypeOK'
    BY <1>1, <1>2, <1>3, <1>7, <1>8, RowsSame, TypePartsNext
  <2> QED
    BY <1>1, <1>2, <1>6, <2>1 DEF Base, TimerIffStarted, Started
<1>10. ASSUME NEW q \in Profiles PROVE Heard(q)' /\ (q \notin disturbed' => Undisturbed(q)')
  <2>1. /\ Heard(q) /\ (q \notin disturbed => Undisturbed(q)) /\ (Started(q)' <=> Started(q))
        /\ Started(q) => q \in exists
    BY <1>2 DEF IInv, Started
  <2>2. /\ OnWay(q)' => OnWay(q)
        /\ OnWay(q) => OnWay(q)' \/ p = q
        /\ p = q => OnWay(q)
        /\ OnePlace(q) /\ p = q => ~OnWay(q)'
        /\ OnePlace(q) => OnePlace(q)'
        /\ (\A i \in DOMAIN results : results[i].profile = q => results[i].reports = reports[q])
               => (\A i \in DOMAIN results' : results'[i].profile = q => results'[i].reports = reports[q])
    BY <1>1, <1>2, ResultTaken DEF p
  <2>3. Heard(q)'
    BY <1>6, <2>1, <2>2 DEF Heard
  <2>4. ASSUME q \notin disturbed', q # p PROVE Undisturbed(q)'
    <3>1. Undisturbed(q)
      BY <1>4, <2>1, <2>4
    <3>2. reports'[q] = reports[q] /\ (q \in armed' <=> q \in armed)
          /\ (q \in retrying' => q \in retrying)
      BY <1>6, <1>7, <2>4
    <3>3. Carries(q, reports[q])'
      BY <1>2, <2>2, <3>1, <3>2 DEF Undisturbed, Carries, Held
    <3> QED
      BY <2>1, <2>2, <3>1, <3>2, <3>3 DEF Undisturbed
  <2>5. ASSUME q \notin disturbed', q = p PROVE Undisturbed(q)'
    <3>1. q \notin disturbed \/ (OnePlace(q) /\ (ok \/ q \notin exists))
      BY <1>4, <1>5, <2>5
    <3>2. OnePlace(q) /\ ~OnWay(q)'
      BY <2>1, <2>2, <2>5, <3>1 DEF Undisturbed
    <3>3. q \in retrying' => reports'[q] # <<>>
      <4>1. CASE q \notin exists
        BY <1>1, <1>6, <2>5, <4>1 DEF SetsOK
      <4>2. CASE q \in exists
        <5> SUFFICES ASSUME q \in retrying' PROVE reports'[q] # <<>>
          OBVIOUS
        <5>1. ~ok /\ UNCHANGED reports
          BY <1>6, <2>5, <4>2
        <5>2. Undisturbed(q) /\ OnWay(q)
          BY <2>1, <2>2, <2>5, <3>1, <4>2, <5>1
        <5> QED
          BY <5>1, <5>2 DEF Undisturbed
      <4> QED
        BY <4>1, <4>2
    <3>4. OnePlace(q)'
      BY <2>2, <3>2
    <3>5. Carries(q, reports[q])'
      BY <3>2 DEF Carries, OnWay, Queued, Connected, Answered
    <3> QED
      BY <3>2, <3>3, <3>4, <3>5 DEF Undisturbed
  <2> QED
    BY <2>3, <2>4, <2>5
<1> QED
  BY <1>9, <1>10 DEF IInv

LEMMA RestartStep ==
    ASSUME IInv, Restart
    PROVE  IInv'
<1>1. Base /\ SetsOK
  BY TypeParts DEF IInv, Base
<1>2. /\ UNCHANGED global_enable
      /\ retrying' = {} /\ reports' = [p \in Profiles |-> <<>>]
      /\ registered' = {p \in Profiles : Started(p)'} /\ armed' = registered'
      /\ posting' = None /\ bdcQueue' = <<>> /\ connection' = [i \in Slots |-> None]
      /\ notifying' = None /\ results' = <<>> /\ disturbed' = {} /\ silent' = {}
  BY DEF Restart
<1>3. /\ <<>> \in Seq(Transfer) /\ <<>> \in Seq(Result) /\ <<>> \in Seq(Reports) /\ Len(<<>>) = 0
      /\ DOMAIN <<>> = {}
  OBVIOUS
<1>4. PICK read \in SUBSET Rows :
        /\ exists' = read /\ lost' = Cardinality(Rows \ read) /\ unread' = {}
        /\ is_enabled' \subseteq read /\ retry_enable' \subseteq read
  BY DEF Restart
<1>rows. RowsOK'
  <2>1. TypeOK /\ Cardinality(Rows) <= MaxProfiles /\ IsFiniteSet(Rows) /\ Cardinality(Rows) \in Nat
    BY <1>1, RowsFinite DEF Base, TypeOK, RowsOK
  <2>2. IsFiniteSet(read) /\ Cardinality(read) \in Nat
        /\ IsFiniteSet(Rows \ read) /\ Cardinality(Rows \ read) \in Nat
    BY <2>1, FS_Subset, FS_CardinalityType
  <2>3. Cardinality(read) + Cardinality(Rows \ read) = Cardinality(Rows)
    <3>1. read \cap (Rows \ read) = {} /\ read \cup (Rows \ read) = Rows
      OBVIOUS
    <3>2. Cardinality(read \cup (Rows \ read)) =
            Cardinality(read) + Cardinality(Rows \ read) - Cardinality(read \cap (Rows \ read))
      BY <2>2, FS_Union
    <3>3. Cardinality({}) = 0
      BY FS_EmptySet
    <3>4. Cardinality(read \cap (Rows \ read)) = 0
      BY <3>1, <3>3
    <3>5. Cardinality(read \cup (Rows \ read)) = Cardinality(Rows)
      BY <3>1
    <3> QED
      BY <2>2, <3>2, <3>4, <3>5
  <2>4. Rows' = read
    BY <1>4 DEF Rows
  <2> QED
    BY <1>4, <2>1, <2>2, <2>3, <2>4, BulkDataAssumption DEF RowsOK
<1>5. SetsOK'
  <2>1. Rows \subseteq Profiles
    BY <1>1 DEF Base, TypeOK, RowsOK, Rows
  <2> QED
    BY <1>1, <1>2, <1>4, <2>1 DEF SetsOK
<1>6. ReportsOK'
  <2>1. reports' \in [Profiles -> Seq(Reports)] /\ \A p \in Profiles : reports'[p] = <<>>
    BY <1>2, <1>3
  <2> QED
    BY <1>3, <2>1, BulkDataAssumption DEF ReportsOK
<1>7. PlacesOK'
  <2>1. connection' \in [Slots -> Transfer \cup {None}]
    BY <1>2
  <2>2. Len(bdcQueue') = 0 /\ Len(results') = 0
    BY <1>2, <1>3
  <2> QED
    BY <1>2, <1>3, <2>1, <2>2, BulkDataAssumption DEF PlacesOK
<1>8. Base'
  <2>1. TypeOK'
    BY <1>5, <1>6, <1>7, <1>rows, TypePartsNext
  <2>2. TimerIffStarted'
    BY <1>2 DEF TimerIffStarted
  <2> QED
    BY <2>1, <2>2 DEF Base
<1>9. ASSUME NEW q \in Profiles PROVE Heard(q)' /\ Undisturbed(q)'
  <2>1. ~OnWay(q)'
    BY <1>2, <1>3 DEF OnWay, Held, Queued, Connected, Answered
  <2>2. OnePlace(q)' /\ Carries(q, reports[q])'
    BY <2>1 DEF OnePlace, Carries, OnWay, Queued, Connected, Answered
  <2> QED
    BY <1>2, <2>1, <2>2 DEF Heard, Undisturbed
<1> QED
  BY <1>8, <1>9 DEF IInv

-----------------------------------------------------------------------------
LEMMA NextIInv == IInv /\ [Next]_vars => IInv'
<1> SUFFICES ASSUME IInv, [Next]_vars PROVE IInv'
  OBVIOUS
<1>1. ASSUME NEW p \in Profiles, ProcessProfileHttp(p) PROVE IInv'
  BY <1>1, ProcessProfileHttpStep
<1>2. ASSUME NEW p \in Profiles, ScheduleFails(p) PROVE IInv'
  BY <1>2, ScheduleFailsStep
<1>3. ASSUME NEW p \in Profiles, ReportFails(p) PROVE IInv'
  BY <1>3, ReportFailsStep
<1>4. ASSUME NEW p \in Profiles, ProcessProfileUspEvent(p) PROVE IInv'
  BY <1>4, ProcessProfileUspEventStep
<1>5. ASSUME NEW p \in Profiles, UspEventFails(p) PROVE IInv'
  BY <1>5, UspEventFailsStep
<1>6. CASE PostReportToSend
  BY <1>6, PostReportToSendStep
<1>7. CASE StartSendingReport
  BY <1>7, StartSendingReportStep
<1>8. CASE ReportDropped
  BY <1>8, ReportDroppedStep
<1>9. ASSUME NEW i \in Slots, TransferComplete(i) PROVE IInv'
  BY <1>9, TransferCompleteStep
<1>10. CASE PostTransferResult
  BY <1>10, PostTransferResultStep
<1>11. CASE NotifyTransferResult
  BY <1>11, NotifyTransferResultStep
<1>12. ASSUME NEW b \in BOOLEAN, BulkDataGlobalEnable(b) PROVE IInv'
  BY <1>12, BulkDataGlobalEnableStep
<1>13. ASSUME NEW p \in Profiles, NEW b \in BOOLEAN, BulkDataProfileEnable(p, b) PROVE IInv'
  BY <1>13, BulkDataProfileEnableStep
<1>14. ASSUME NEW p \in Profiles, Reconfigure(p) PROVE IInv'
  BY <1>14, ReconfigureStep
<1>15. ASSUME NEW p \in Profiles, NEW b \in BOOLEAN, BulkDataRetryEnable(p, b) PROVE IInv'
  BY <1>15, BulkDataRetryEnableStep
<1>16. ASSUME NEW p \in Profiles, NEW enable \in BOOLEAN, NEW retry \in BOOLEAN,
              ProfileAdded(p, enable, retry)
       PROVE  IInv'
  BY <1>16, ProfileAddedStep
<1>17. ASSUME NEW p \in Profiles, ProfileDeleted(p) PROVE IInv'
  BY <1>17, ProfileDeletedStep
<1>18. CASE Restart
  BY <1>18, RestartStep
<1>19. CASE UNCHANGED vars
  <2>1. /\ UNCHANGED <<exists, unread, lost, global_enable, is_enabled, retry_enable>>
        /\ UNCHANGED <<retrying, reports, registered, armed, disturbed, silent>>
        /\ UNCHANGED <<posting, bdcQueue, connection, notifying, results>>
    BY <1>19 DEF vars, config, profile, timers, bdc, history
  <2>2. \A q \in Profiles : Started(q)' <=> Started(q)
    BY <2>1 DEF Started
  <2>3. \A q \in Profiles : Kept(q)
    BY <2>1, <2>2 DEF Kept
  <2>4. SetsOK' /\ ReportsOK' /\ TimerIffStarted' /\ RowsOK'
    <3>1. SetsOK /\ ReportsOK /\ TimerIffStarted /\ Base
      BY TypeParts DEF IInv, Base
    <3> QED
      BY <2>1, <3>1, RowsSame DEF SetsOK, ReportsOK, TimerIffStarted, Started
  <2> QED
    BY <2>1, <2>3, <2>4, ConfigStep DEF places, bdc
<1>20. ASSUME NEW p \in Profiles, ProfileNotRead(p) PROVE IInv'
  BY <1>20, ProfileNotReadStep
<1>21. ASSUME NEW p \in Profiles, UnreadDeleted(p) PROVE IInv'
  BY <1>21, UnreadDeletedStep
<1> QED
  BY <1>1, <1>2, <1>3, <1>4, <1>5, <1>6, <1>7, <1>8, <1>9, <1>10, <1>11, <1>12, <1>13, <1>14,
     <1>15, <1>16, <1>17, <1>18, <1>19, <1>20, <1>21
  DEF Next

(* The inductive invariant, for every set of profiles, every limit on the  *)
(* reports retained and every size of the queues (device_bulkdata.c,       *)
(* bdc_exec.c).                                                            *)
THEOREM Invariance == Spec => []IInv
  BY InitIInv, NextIInv, PTL DEF Spec

(* Types, and the bounds of the queues and of the reports retained         *)
(* (bulkdata_drop_oldest_retained_reports).                                *)
THEOREM TypeCorrect == Spec => []TypeOK
<1>1. IInv => TypeOK
  BY DEF IInv, Base
<1> QED
  BY <1>1, Invariance, PTL

(* Exactly the started profiles have a timer (bulkdata_start_profile,      *)
(* bulkdata_stop_profile).                                                 *)
THEOREM TimersExact == Spec => []TimerIffStarted
<1>1. IInv => TimerIffStarted
  BY DEF IInv, Base
<1> QED
  BY <1>1, Invariance, PTL

(* A started profile has a timer that will fire or a transfer that will    *)
(* arm it, unless the code gave its report up                              *)
(* (DEVICE_BULKDATA_NotifyTransferResult).                                 *)
THEOREM KeepsReporting == Spec => []NeverSilent
<1>1. IInv => NeverSilent
  <2> SUFFICES ASSUME IInv, NEW p \in Profiles, Started(p)
               PROVE  p \in armed \/ Outstanding(p) > 0 \/ p \in silent
    BY DEF NeverSilent
  <2>1. TypeOK /\ Heard(p)
    BY DEF IInv, Base
  <2> QED
    BY <2>1, Counted DEF Heard
<1> QED
  BY <1>1, Invariance, PTL

(* The result of a transfer is about what the profile retains              *)
(* (DEVICE_BULKDATA_NotifyTransferResult).                                 *)
THEOREM SentRetained == Spec => []SentIsRetained
<1>1. IInv => SentIsRetained
  <2> SUFFICES ASSUME IInv, NEW p \in Profiles \ disturbed
               PROVE  Outstanding(p) <= 1 /\ Carried(p) \subseteq {reports[p]} \ {<<>>}
    BY DEF SentIsRetained
  <2>1. TypeOK /\ Undisturbed(p)
    BY DEF IInv, Base
  <2>2. Outstanding(p) <= 1
    BY <2>1, Counted DEF Undisturbed
  <2>3. ASSUME NEW rs \in Carried(p) PROVE rs = reports[p] /\ OnWay(p)
    <3>1. PICK x \in {posting, notifying} \cup {connection[i] : i \in Slots}
                        \cup Elements(bdcQueue) \cup Elements(results) : Held(p, x) /\ rs = x.reports
      BY <2>3 DEF Carried
    <3>2. CASE x = posting \/ x = notifying
      BY <2>1, <3>1, <3>2 DEF Undisturbed, Carries, OnWay
    <3>3. CASE x \in {connection[i] : i \in Slots}
      BY <2>1, <3>1, <3>3 DEF Undisturbed, Carries, OnWay, Connected
    <3>4. CASE x \in Elements(bdcQueue)
      BY <2>1, <3>1, <3>4 DEF Undisturbed, Carries, OnWay, Queued, Elements, Held
    <3>5. CASE x \in Elements(results)
      BY <2>1, <3>1, <3>5 DEF Undisturbed, Carries, OnWay, Answered, Elements, Held
    <3> QED
      BY <3>1, <3>2, <3>3, <3>4, <3>5
  <2> QED
    BY <2>1, <2>2, <2>3 DEF Undisturbed
<1> QED
  BY <1>1, Invariance, PTL

(* There is a place in the queue and a connection for every transfer       *)
(* (BDC_EXEC_PostReportToSend, StartSendingReport).                        *)
THEOREM AlwaysRoom == Spec => []RoomForAll
<1>1. IInv => RoomForAll
  <2> SUFFICES ASSUME IInv, disturbed = {}
               PROVE  /\ posting # None => Len(bdcQueue) < BdcQueueMax
                      /\ bdcQueue # <<>> => \E i \in Slots : connection[i] = None
    BY DEF RoomForAll
  <2>1. Base /\ SetsOK /\ PlacesOK /\ \A q \in Profiles : Undisturbed(q)
    BY TypeParts DEF IInv, Base
  <2>2. ASSUME NEW q \in Profiles, OnWay(q) PROVE q \in exists
    BY <2>1, <2>2 DEF Undisturbed, Started
  <2>3. IsFiniteSet(exists) /\ Cardinality(exists) \in Nat /\ Cardinality(exists) <= MaxProfiles
    <3>1. lost \in Nat /\ Cardinality(exists) + lost <= MaxProfiles
      BY <2>1 DEF Base, TypeOK, RowsOK
    <3>2. IsFiniteSet(exists) /\ Cardinality(exists) \in Nat
      BY <2>1, ExistsFinite
    <3> QED
      BY <3>1, <3>2, BulkDataAssumption
  <2>4. ASSUME NEW q \in exists
        PROVE  /\ IsFiniteSet(exists \ {q}) /\ Cardinality(exists \ {q}) \in Nat
               /\ Cardinality(exists \ {q}) < MaxProfiles
    <3>1. IsFiniteSet(exists \ {q}) /\ Cardinality(exists \ {q}) = Cardinality(exists) - 1
          /\ Cardinality(exists \ {q}) \in Nat
      BY <2>3, FS_RemoveElement, FS_CardinalityType
    <3> QED
      BY <2>3, <3>1, BulkDataAssumption
  <2>5. ASSUME posting # None PROVE Len(bdcQueue) < BdcQueueMax
    <3> DEFINE p == posting.profile
               n == Len(bdcQueue)
               f == [i \in 1..n |-> bdcQueue[i].profile]
    <3>1. n \in Nat /\ DOMAIN bdcQueue = 1..n /\ \A i \in 1..n : bdcQueue[i].profile \in Profiles
      <4>1. bdcQueue \in Seq(Transfer)
        BY <2>1 DEF PlacesOK
      <4>2. n \in Nat /\ DOMAIN bdcQueue = 1..n /\ \A i \in 1..n : bdcQueue[i] \in Transfer
        BY <4>1
      <4> QED
        BY <4>2 DEF Transfer
    <3>2. p \in Profiles /\ Held(p, posting)
      BY <2>1, <2>5 DEF PlacesOK, Transfer, Held
    <3>3. p \in exists /\ ~Queued(p)
      BY <2>1, <2>2, <3>2 DEF OnWay, Undisturbed, OnePlace
    <3>4. ASSUME NEW i \in 1..n PROVE f[i] \in exists \ {p}
      <4>1. Queued(bdcQueue[i].profile)
        BY <3>1 DEF Queued
      <4> QED
        BY <2>2, <3>1, <3>3, <4>1 DEF OnWay
    <3>5. \A i, j \in 1..n : f[i] = f[j] => i = j
      BY <2>1, <3>1 DEF Undisturbed, OnePlace
    <3>6. f \in [1..n -> exists \ {p}]
      BY <3>4
    <3>7. IsFiniteSet(1..n) /\ Cardinality(1..n) = n
      BY <3>1, FS_Interval
    <3>8. ~(Cardinality(exists \ {p}) < n)
      <4> HIDE DEF f, n, p
      <4> SUFFICES ASSUME Cardinality(exists \ {p}) < n PROVE FALSE
        OBVIOUS
      <4>1. \E x, y \in 1..n : x # y /\ f[x] = f[y]
        <5> DEFINE T == exists \ {p}
                   S == 1..n
        <5>1. IsFiniteSet(T) /\ Cardinality(T) < Cardinality(S) /\ f \in [S -> T] /\ IsFiniteSet(S)
          BY <2>4, <3>3, <3>6, <3>7
        <5>2. \E x, y \in S : x # y /\ f[x] = f[y]
          <6> HIDE DEF S, T
          <6> QED
            BY <5>1, FS_PigeonHole
        <5> QED
          BY <5>2
      <4> QED
        BY <3>5, <4>1
    <3>9. Cardinality(exists \ {p}) \in Nat /\ Cardinality(exists \ {p}) < MaxProfiles
      BY <2>4, <3>3
    <3> HIDE DEF n, p
    <3> QED
      BY <3>1, <3>8, <3>9, BulkDataAssumption DEF n
  <2>6. ASSUME bdcQueue # <<>> PROVE \E i \in Slots : connection[i] = None
    <3> SUFFICES ASSUME \A i \in Slots : connection[i] # None PROVE FALSE
      OBVIOUS
    <3> DEFINE p == bdcQueue[1].profile
               f == [i \in Slots |-> connection[i].profile]
    <3>1. 1 \in DOMAIN bdcQueue /\ bdcQueue[1] \in Transfer
      BY <2>1, <2>6, QueueTail DEF PlacesOK
    <3>2. p \in Profiles /\ Queued(p)
      BY <3>1 DEF Transfer, Queued
    <3>3. p \in exists /\ ~Connected(p)
      BY <2>1, <2>2, <3>2 DEF OnWay, Undisturbed, OnePlace
    <3>4. ASSUME NEW i \in Slots
          PROVE  Held(connection[i].profile, connection[i]) /\ connection[i].profile \in Profiles
      BY <2>1 DEF PlacesOK, Transfer, Held
    <3>5. ASSUME NEW i \in Slots PROVE f[i] \in exists \ {p}
      <4>1. Connected(connection[i].profile)
        BY <3>4 DEF Connected
      <4> QED
        BY <2>2, <3>3, <3>4, <4>1 DEF OnWay
    <3>6. ASSUME NEW i \in Slots, NEW j \in Slots, f[i] = f[j] PROVE i = j
      <4>1. Held(connection[i].profile, connection[i]) /\ Held(connection[i].profile, connection[j])
        BY <3>4, <3>6
      <4> QED
        BY <2>1, <3>4, <4>1 DEF Undisturbed, OnePlace
    <3>7. f \in [Slots -> exists \ {p}]
      BY <3>5
    <3>8. IsFiniteSet(Slots) /\ Cardinality(Slots) = MaxProfiles
      BY FS_Interval, BulkDataAssumption DEF Slots
    <3>9. \E x, y \in Slots : x # y /\ f[x] = f[y]
      <4> HIDE DEF f, p
      <4>1. IsFiniteSet(exists \ {p}) /\ Cardinality(exists \ {p}) < Cardinality(Slots)
        BY <2>4, <3>3, <3>8
      <4> DEFINE T == exists \ {p}
      <4>2. IsFiniteSet(T) /\ Cardinality(T) < Cardinality(Slots) /\ f \in [Slots -> T]
        BY <3>7, <4>1
      <4> HIDE DEF T
      <4> QED
        BY <3>8, <4>2, FS_PigeonHole
    <3> QED
      BY <3>6, <3>9
  <2> QED
    BY <2>5, <2>6
<1> QED
  BY <1>1, Invariance, PTL
=============================================================================
