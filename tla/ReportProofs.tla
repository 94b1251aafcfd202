----------------------------- MODULE ReportProofs -----------------------------
(* What the System and the History pages show: that the worker is alive and *)
(* what is wrong (Monitor), for every choice of the intervals and of the    *)
(* time a pass may take that meets MonitorAssumption; and what imports said *)
(* and came to (Journal), for any number of imports, records and walks.     *)
EXTENDS Monitor, Journal, FiniteSetTheorems, FunctionTheorems, SequenceTheorems, TLAPS

LEMMA Bounds ==
    /\ HeartbeatInterval \in Nat /\ HeartbeatInterval >= 1
    /\ HealthCheckInterval \in Nat
    /\ Second \in Nat /\ Second >= 1
    /\ MaxHeld \in Nat /\ MaxMissed \in Nat
    /\ StaleAfter \in Nat /\ StaleAfter >= HeartbeatInterval
    /\ HeartbeatInterval + (MaxMissed + 2) * MaxHeld + Second <= StaleAfter
  BY MonitorAssumption DEF StaleAfter

(* What the passes of n failed heartbeats cost. *)
Lost(n) == n * MaxHeld

LEMMA LostGrows ==
    /\ \A n \in Nat : Lost(n) \in Nat /\ Lost(n + 1) = Lost(n) + MaxHeld
    /\ \A n \in 0..MaxMissed : Lost(n) <= Lost(MaxMissed)
    /\ Lost(MaxMissed) \in Nat
    /\ HeartbeatInterval + Lost(MaxMissed) + 2 * MaxHeld + Second <= StaleAfter
  <1> USE Bounds
  <1>1. \A n \in Nat : Lost(n) \in Nat /\ Lost(n + 1) = Lost(n) + MaxHeld
    BY DEF Lost
  <1>2. ASSUME NEW n \in 0..MaxMissed PROVE Lost(n) <= Lost(MaxMissed)
    <2>1. (MaxMissed - n) * MaxHeld \in Nat
      OBVIOUS
    <2>2. MaxMissed * MaxHeld = n * MaxHeld + (MaxMissed - n) * MaxHeld
      OBVIOUS
    <2>3. QED
      BY <2>1, <2>2 DEF Lost
  <1>3. (MaxMissed + 2) * MaxHeld = Lost(MaxMissed) + 2 * MaxHeld
    BY DEF Lost
  <1>4. QED
    BY <1>1, <1>2, <1>3

(* A time stamp of the current pass is fresh. *)
LEMMA StampsAreFresh ==
    \A age \in 0..MaxHeld, fraction \in Fractions : age + fraction \in 0..StaleAfter
  BY Bounds, LostGrows DEF Fractions

-----------------------------------------------------------------------------

(* The passes in which the heartbeat is still to come, and in which it has  *)
(* been dealt with.                                                         *)
Before == {"reload", "beat", "beating"}
After == {"fill", "idle", "wait", "check", "report"}

(* How old the row may be: older than the last heartbeat by what was cut    *)
(* off its time stamp; less than an interval and that when the beat was     *)
(* last found not to be due, and a pass more for each that failed since.    *)
AgeInv ==
    /\ At("beating") => stampAge <= held
    /\ Serves /\ beaten =>
          /\ seenAge \in Nat
          /\ beatAge < HeartbeatInterval => seenAge < beatAge + Second
          /\ pc \in Before =>
                seenAge - held < HeartbeatInterval + Second + Lost(missed) + MaxHeld
          /\ pc \in After => seenAge - held < HeartbeatInterval + Second + Lost(missed)

LEMMA InitHolds == Init => TypeOK /\ AgeInv
  <1> USE Bounds DEF Init
  <1>1. Init => checked \in BOOLEAN /\ running \in BOOLEAN /\ beaten \in BOOLEAN
    BY Zenon
  <1>2. Init => TypeOK
    BY <1>1, MonitorAssumption DEF TypeOK, Awaits
  <1>3. Init => AgeInv
    BY DEF AgeInv, Serves, At
  <1>4. QED
    BY <1>2, <1>3

LEMMA StepsKeepTypes == ASSUME TypeOK, AgeInv, [Next]_vars PROVE TypeOK'
  <1> USE Bounds, MonitorAssumption
      DEF TypeOK, Awaits, clockVars, loopVars, envVars, At, Goto, EndPass, Event, Capped
  <1>1. CASE Start
    <2>1. (checked \in BOOLEAN /\ running \in BOOLEAN /\ beaten \in BOOLEAN)'
      BY <1>1, Zenon DEF Start
    <2>2. QED
      BY <1>1, <2>1 DEF Start
  <1>2. CASE Reload
    <2>1. (checked \in BOOLEAN /\ running \in BOOLEAN /\ beaten \in BOOLEAN)'
      BY <1>2, Zenon DEF Reload
    <2>2. QED
      BY <1>2, <2>1 DEF Reload
  <1>3. CASE Beat BY <1>3 DEF Beat
  <1>4. CASE BeatStored
    <2>1. seenAge' \in 0..StaleAfter
      BY <1>4, StampsAreFresh DEF BeatStored
    <2>2. QED
      BY <1>4, <2>1 DEF BeatStored
  <1>5. CASE BeatFails BY <1>5 DEF BeatFails
  <1>6. CASE Fill
    <2>1. (checked \in BOOLEAN /\ running \in BOOLEAN /\ beaten \in BOOLEAN)'
      BY <1>6, Zenon DEF Fill
    <2>2. QED
      BY <1>6, <2>1 DEF Fill
  <1>7. CASE Wake BY <1>7 DEF Wake
  <1>8. CASE IdleOver BY <1>8 DEF IdleOver
  <1>9. CASE CheckNotDue BY <1>9 DEF CheckNotDue
  <1>10. CASE Check BY <1>10 DEF Check
  <1>11. CASE Report
    <2>1. seenAge' = seenAge \/ seenAge' \in 0..StaleAfter
      <3>1. 0..held \subseteq 0..MaxHeld
        OBVIOUS
      <3>2. QED
        BY <1>11, <3>1, StampsAreFresh DEF Report
    <2>2. QED
      BY <1>11, <2>1 DEF Report
  <1>12. CASE ReportFails BY <1>12 DEF ReportFails
  <1>13. CASE Drained BY <1>13 DEF Drained
  <1>14. CASE ImportEnds BY <1>14 DEF ImportEnds
  <1>15. CASE Drain BY <1>15 DEF Drain
  <1>16. CASE Kill
    <2>1. (checked \in BOOLEAN /\ running \in BOOLEAN /\ beaten \in BOOLEAN)'
      BY <1>16, Zenon DEF Kill
    <2>2. QED
      BY <1>16, <2>1 DEF Kill
  <1>17. CASE HostChanges BY <1>17 DEF HostChanges
  <1>18. CASE Tick BY <1>18 DEF Tick, AgeInv
  <1>19. CASE UNCHANGED vars BY <1>19 DEF vars
  <1>20. QED
    BY <1>1, <1>2, <1>3, <1>4, <1>5, <1>6, <1>7, <1>8, <1>9, <1>10, <1>11, <1>12, <1>13,
       <1>14, <1>15, <1>16, <1>17, <1>18, <1>19 DEF Next, LoopStep

LEMMA StepsKeepAges == ASSUME TypeOK, AgeInv, [Next]_vars PROVE AgeInv'
  <1> USE Bounds, LostGrows
      DEF TypeOK, AgeInv, Serves, Before, After, clockVars, loopVars, envVars, At, Goto, EndPass
  (* Within a pass, and out of the loop. *)
  <1>1. ASSUME UNCHANGED <<held, beatAge, seenAge, missed, beaten>>, pc' # "beating",
               \/ pc \in After /\ pc' \in After
               \/ pc \in Before /\ pc' \in Before
               \/ pc' \in {"off", "drain"}
        PROVE  AgeInv'
    BY <1>1
  (* From one pass to the next. *)
  <1>2. ASSUME UNCHANGED <<beatAge, missed, beaten>>, pc' = "reload", held' = 0, pc \in After,
               seenAge' = seenAge \/ seenAge = -1
        PROVE  AgeInv'
    BY <1>2
  <1>3. CASE Start BY <1>3 DEF Start
  <1>4. CASE Reload BY <1>4, <1>1 DEF Reload
  <1>5. CASE Beat
    <2>1. CASE beatAge < HeartbeatInterval
      BY <1>5, <2>1 DEF Beat, Capped
    <2>2. CASE ~ (beatAge < HeartbeatInterval)
      BY <1>5, <2>2 DEF Beat
    <2>3. QED
      BY <2>1, <2>2
  <1>6. CASE BeatStored
    <2>1. PICK fraction \in Fractions : seenAge' = stampAge + fraction
      BY <1>6 DEF BeatStored
    <2>2. fraction \in 0 .. Second - 1
      BY DEF Fractions
    <2>3. QED
      BY <1>6, <2>1, <2>2 DEF BeatStored, Capped
  <1>7. CASE BeatFails BY <1>7 DEF BeatFails
  <1>8. CASE Fill BY <1>8, <1>1 DEF Fill
  <1>9. CASE Wake BY <1>9, <1>2 DEF Wake
  <1>10. CASE IdleOver BY <1>10, <1>1 DEF IdleOver
  <1>11. CASE CheckNotDue BY <1>11, <1>2 DEF CheckNotDue
  <1>12. CASE Check BY <1>12, <1>1 DEF Check
  <1>13. CASE Report BY <1>13, <1>2 DEF Report
  <1>14. CASE ReportFails BY <1>14, <1>2 DEF ReportFails
  <1>15. CASE Drained BY <1>15, <1>1 DEF Drained
  <1>16. CASE Drain BY <1>16, <1>1 DEF Drain
  <1>17. CASE Kill BY <1>17 DEF Kill
  <1>18. CASE ImportEnds \/ HostChanges \/ UNCHANGED vars
    BY <1>18 DEF ImportEnds, HostChanges, vars
  <1>19. CASE Tick
    BY <1>19 DEF Tick, Capped
  <1>20. QED
    BY <1>3, <1>4, <1>5, <1>6, <1>7, <1>8, <1>9, <1>10, <1>11, <1>12, <1>13, <1>14, <1>15,
       <1>16, <1>17, <1>18, <1>19 DEF Next, LoopStep

(* Ages and positions keep their types. *)
THEOREM TypeCorrect == Spec => []TypeOK
  BY InitHolds, StepsKeepTypes, StepsKeepAges, PTL DEF Spec

(* Six intervals forgive an interval, MaxMissed failures, two passes and    *)
(* the second that the time stamp was cut to, however fine the ticks.       *)
THEOREM LiveWorkerIsSeen == Spec => []LiveIsSeen
  <1>1. TypeOK /\ AgeInv => LiveIsSeen
    <2> SUFFICES ASSUME TypeOK, AgeInv, Serves, beaten PROVE seenAge \in 0..StaleAfter
      BY DEF LiveIsSeen, Fresh
    <2>1. /\ seenAge \in Nat /\ held \in 0..MaxHeld /\ missed \in 0..MaxMissed
          /\ pc \in Before \cup After
      BY DEF AgeInv, TypeOK, Awaits, Before, After, Serves
    <2>2. seenAge < HeartbeatInterval + Second + Lost(missed) + MaxHeld + held
      BY <2>1, Bounds, LostGrows DEF AgeInv
    <2>3. QED
      BY <2>1, <2>2, Bounds, LostGrows
  <1>2. QED
    BY <1>1, InitHolds, StepsKeepTypes, StepsKeepAges, PTL DEF Spec

-----------------------------------------------------------------------------
(* What leads the System page. *)

(* Every one of a set of positions has its place in it. *)
LEMMA NthPlace ==
    ASSUME NEW places \in SUBSET Nat, IsFiniteSet(places), NEW p \in 1..Cardinality(places)
    PROVE  /\ Nth(places, p) \in places
           /\ Cardinality({m \in places : m < Nth(places, p)}) = p - 1
  <1> DEFINE Below(n) == {m \in places : m < n}
             size == Cardinality(places)
             rank == [n \in places |-> Cardinality(Below(n))]
  <1>1. size \in Nat
    BY FS_CardinalityType
  <1>2. \A n \in places : IsFiniteSet(Below(n)) /\ Cardinality(Below(n)) \in Nat
    BY FS_Subset, FS_CardinalityType
  <1>3. ASSUME NEW n \in places
        PROVE  Cardinality(Below(n)) \in 0 .. size - 1
    <2>1. Below(n) \in SUBSET (places \ {n})
      OBVIOUS
    <2>2. IsFiniteSet(places \ {n}) /\ Cardinality(places \ {n}) = size - 1
      BY FS_RemoveElement
    <2>3. Cardinality(Below(n)) <= size - 1
      BY <2>1, <2>2, FS_Subset
    <2>4. QED
      BY <1>1, <1>2, <2>3
  <1>4. ASSUME NEW m \in places, NEW n \in places, m < n
        PROVE  Cardinality(Below(m)) < Cardinality(Below(n))
    <2> m \in Nat /\ n \in Nat
      OBVIOUS
    <2>1. Below(m) \cup {m} \in SUBSET Below(n) /\ m \notin Below(m)
      <3>1. ASSUME NEW k \in places, k < m PROVE k < n
        <4>1. k \in Nat
          OBVIOUS
        <4>2. QED
          BY <1>4, <3>1, <4>1
      <3>2. m \in Below(n) /\ ~ (m < m)
        BY <1>4
      <3>3. QED
        BY <3>1, <3>2
    <2>2. Cardinality(Below(m) \cup {m}) = Cardinality(Below(m)) + 1
      BY <1>2, <2>1, FS_AddElement
    <2>3. Cardinality(Below(m) \cup {m}) <= Cardinality(Below(n))
      BY <1>2, <2>1, FS_Subset
    <2>4. QED
      BY <1>2, <2>2, <2>3
  <1>5. rank \in [places -> 0 .. size - 1] /\ \A m, n \in places : rank[m] = rank[n] => m = n
    <2>1. ASSUME NEW m \in places, NEW n \in places, rank[m] = rank[n]
          PROVE  m = n
      <3>1. ~ (m < n) /\ ~ (n < m)
        BY <1>2, <1>4, <2>1
      <3>2. m \in Nat /\ n \in Nat
        OBVIOUS
      <3>3. QED
        BY <3>1, <3>2
    <2>2. QED
      BY <1>3, <2>1
  <1>7. p - 1 \in 0 .. size - 1 /\ Cardinality(places) = size
    BY <1>1
  <1> HIDE DEF rank, size
  <1>6. IsFiniteSet(0 .. size - 1) /\ Cardinality(0 .. size - 1) = size
    BY <1>1, FS_Interval
  <1>8. PICK n \in places : rank[n] = p - 1
    <2> DEFINE ranks == 0 .. size - 1
    <2>1. /\ IsFiniteSet(ranks) /\ Cardinality(places) = Cardinality(ranks)
          /\ rank \in [places -> ranks] /\ p - 1 \in ranks
      BY <1>5, <1>6, <1>7
    <2>2. \A m, n \in places : rank[m] = rank[n] => m = n
      BY <1>5
    <2> HIDE DEF ranks
    <2>3. \A t \in ranks : \E n \in places : rank[n] = t
      <3> SUFFICES ASSUME NEW t \in ranks PROVE \E n \in places : rank[n] = t
        OBVIOUS
      <3>1. rank \in Injection(places, ranks)
        BY <2>1, <2>2, Fun_IsInj
      <3>2. rank \in Surjection(places, ranks)
        BY <2>1, <3>1, FS_Injection
      <3>3. QED
        BY <3>2 DEF Surjection
    <2>4. QED
      BY <2>1, <2>3
  <1>9. \E k \in places : Cardinality({m \in places : m < k}) = p - 1
    BY <1>8 DEF rank
  <1>10. QED
    BY <1>9 DEF Nth

(* The first is the first. *)
LEMMA NthFirst ==
    ASSUME NEW places \in SUBSET Nat, IsFiniteSet(places), NEW p \in 1..Cardinality(places),
           NEW n \in places, \A m \in places : n <= m
    PROVE  Nth(places, p) = n <=> p = 1
  <1> DEFINE k == Nth(places, p)
             Below(i) == {m \in places : m < i}
  <1>1. k \in places /\ Cardinality(Below(k)) = p - 1 /\ IsFiniteSet(Below(k)) /\ k \in Nat
    BY NthPlace, FS_Subset
  <1>2. Cardinality(Below(k)) = 0 <=> Below(k) = {}
    BY <1>1, FS_EmptySet
  <1>3. Below(k) = {} <=> k = n
    <2>1. n \in Nat /\ n <= k /\ k \in Nat /\ k \in places
      BY <1>1
    <2> HIDE DEF k
    <2>2. ASSUME Below(k) = {} PROVE k = n
      <3>1. ~ (n < k)
        BY <2>2
      <3>2. QED
        BY <2>1, <3>1
    <2>3. ASSUME k = n PROVE Below(k) = {}
      <3>1. ASSUME NEW m \in places PROVE ~ (m < k)
        <4>1. m \in Nat /\ n <= m
          OBVIOUS
        <4>2. QED
          BY <2>1, <2>3, <4>1
      <3>2. QED
        BY <3>1
    <2>4. QED
      BY <2>2, <2>3
  <1>4. Cardinality(places) \in Nat
    BY FS_CardinalityType
  <1> HIDE DEF k, Below
  <1>5. QED
    BY <1>1, <1>2, <1>3, <1>4 DEF k

WorkerCodes == {"mkvmerge_missing", "mkvmerge_outdated", "read_root_missing",
                "read_root_unreadable", "scratch_dir_unusable"}

OwnCodes == {"sqlite_split", "login_off", "proxies_untrusted"}

Others == OwnCodes \cup WorkerCodes

AllCodes == {"worker_offline"} \cup Others

LEMMA IfType == ASSUME NEW S, NEW code \in S, NEW condition PROVE If(condition, code) \in Seq(S)
  <1>1. CASE condition
    <2>1. If(condition, code) = <<code>>
      BY <1>1 DEF If
    <2>2. QED
      BY <2>1
  <1>2. CASE ~ condition
    <2>1. If(condition, code) = <<>>
      BY <1>2 DEF If
    <2>2. QED
      BY <2>1
  <1>3. QED
    BY <1>1, <1>2

LEMMA PickedType ==
    ASSUME NEW S, NEW s \in Seq(S), NEW places \in SUBSET DOMAIN s
    PROVE  /\ places \in SUBSET Nat /\ IsFiniteSet(places) /\ Cardinality(places) \in Nat
           /\ Picked(s, places) \in Seq(S)
           /\ DOMAIN Picked(s, places) = 1..Cardinality(places)
           /\ Len(Picked(s, places)) = Cardinality(places)
           /\ \A p \in 1..Cardinality(places) : Nth(places, p) \in places
                                               /\ Picked(s, places)[p] = s[Nth(places, p)]
  <1>1. Len(s) \in Nat /\ DOMAIN s = 1..Len(s)
    OBVIOUS
  <1>2. places \in SUBSET Nat
    BY <1>1
  <1>3. IsFiniteSet(places)
    <2>1. IsFiniteSet(1..Len(s)) /\ places \in SUBSET (1..Len(s))
      BY <1>1, FS_Interval
    <2>2. QED
      BY <2>1, FS_Subset
  <1>4. Cardinality(places) \in Nat
    BY <1>3, FS_CardinalityType
  <1>5. \A p \in 1..Cardinality(places) : Nth(places, p) \in places
    BY <1>2, <1>3, NthPlace
  <1>6. \A p \in 1..Cardinality(places) : s[Nth(places, p)] \in S
    BY <1>5
  <1> DEFINE picked == [p \in 1..Cardinality(places) |-> s[Nth(places, p)]]
  <1>7. Picked(s, places) = picked
    BY DEF Picked
  <1>8. DOMAIN picked = 1..Cardinality(places)
        /\ \A p \in 1..Cardinality(places) : picked[p] = s[Nth(places, p)]
    OBVIOUS
  <1>9. picked \in [1..Cardinality(places) -> S]
    BY <1>6
  <1> HIDE DEF picked
  <1>10. picked \in Seq(S) /\ Len(picked) = Cardinality(places)
    BY <1>4, <1>9
  <1>11. QED
    BY <1>2, <1>3, <1>4, <1>5, <1>7, <1>8, <1>10

LEMMA WorkerIssuesType ==
    ASSUME NEW h \in Hosts
    PROVE  WorkerIssues(h) \in Seq(WorkerCodes)
  <1>1. Toolchain(h) \in Seq(WorkerCodes)
    <2>1. /\ If(h.mkvmerge = "none", "mkvmerge_missing") \in Seq(WorkerCodes)
          /\ If(h.mkvmerge = "old", "mkvmerge_outdated") \in Seq(WorkerCodes)
      BY IfType DEF WorkerCodes
    <2>2. QED
      BY <2>1 DEF Toolchain
  <1>2. Scratch(h) \in Seq(WorkerCodes)
    BY IfType DEF Scratch, WorkerCodes
  <1>3. Roots(h) \in Seq(WorkerCodes)
    <2> DEFINE places == {n \in DOMAIN h.roots : h.roots[n] # "ok"}
               bad == Picked(h.roots, places)
    <2>1. h.roots \in Seq({"ok", "missing", "unreadable"})
      BY MonitorAssumption DEF HostStates
    <2>2. places \in SUBSET DOMAIN h.roots
      OBVIOUS
    <2> HIDE DEF places
    <2>3. DOMAIN bad = 1..Cardinality(places) /\ Cardinality(places) \in Nat
      BY <2>1, <2>2, PickedType
    <2>4. Roots(h) = [n \in 1..Cardinality(places) |->
                        IF bad[n] = "missing" THEN "read_root_missing" ELSE "read_root_unreadable"]
      BY <2>3 DEF Roots, places
    <2> HIDE DEF bad
    <2>5. QED
      BY <2>3, <2>4 DEF WorkerCodes
  <1>4. QED
    BY <1>1, <1>2, <1>3 DEF WorkerIssues

(* What is reported is never that the worker is offline. *)
ReportsInv == found \in Seq(WorkerCodes) /\ checks \in Seq(WorkerCodes)

LEMMA StepsKeepReports == ASSUME TypeOK, ReportsInv, [Next]_vars PROVE ReportsInv'
  <1> USE DEF ReportsInv, EndPass, Goto, loopVars, envVars
  <1>1. <<>> \in Seq(WorkerCodes)
    OBVIOUS
  <1>2. CASE Check
    BY <1>2, WorkerIssuesType DEF Check, TypeOK
  <1>3. CASE Report \/ ReportFails \/ Kill
    BY <1>1, <1>3 DEF Report, ReportFails, Kill
  <1>4. CASE Start \/ Reload \/ Beat \/ BeatStored \/ BeatFails \/ Fill \/ Wake
    BY <1>4 DEF Start, Reload, Beat, BeatStored, BeatFails, Fill, Wake
  <1>5. CASE IdleOver \/ CheckNotDue \/ Drained \/ ImportEnds \/ Drain \/ HostChanges \/ Tick
    BY <1>5 DEF IdleOver, CheckNotDue, Drained, ImportEnds, Drain, HostChanges, Tick
  <1>6. CASE UNCHANGED vars
    BY <1>6 DEF vars
  <1>7. QED
    BY <1>2, <1>3, <1>4, <1>5, <1>6 DEF Next, LoopStep

(* What is appended to a sequence the alarm leads, if it is there at all. *)
Leads(s, alarm) ==
    /\ s \in Seq(AllCodes)
    /\ \A n \in DOMAIN s : s[n] = "worker_offline" => n = 1 /\ alarm

LEMMA LeadsOn ==
    ASSUME NEW s, NEW alarm, Leads(s, alarm), NEW t \in Seq(Others)
    PROVE  Leads(s \o t, alarm)
  <1>1. s \in Seq(AllCodes) /\ t \in Seq(AllCodes) /\ Len(s) \in Nat /\ Len(t) \in Nat
    BY DEF Leads, AllCodes
  <1>2. /\ s \o t \in Seq(AllCodes)
        /\ DOMAIN (s \o t) = 1..Len(s) + Len(t)
        /\ DOMAIN s = 1..Len(s) /\ DOMAIN t = 1..Len(t)
    BY <1>1
  <1>3. ASSUME NEW n \in 1..Len(s) + Len(t), (s \o t)[n] = "worker_offline"
        PROVE  n = 1 /\ alarm
    <2>1. CASE n <= Len(s)
      <3>1. n \in DOMAIN s /\ (s \o t)[n] = s[n]
        BY <1>1, <1>2, <2>1
      <3>2. QED
        BY <1>3, <3>1 DEF Leads
    <2>2. CASE ~ (n <= Len(s))
      <3>1. n - Len(s) \in DOMAIN t /\ (s \o t)[n] = t[n - Len(s)]
        BY <1>1, <1>2, <2>2
      <3>2. t[n - Len(s)] \in Others
        BY <3>1
      <3>3. QED
        BY <1>3, <3>1, <3>2 DEF Others, OwnCodes, WorkerCodes
    <2>3. QED
      BY <2>1, <2>2
  <1>4. QED
    BY <1>2, <1>3 DEF Leads

(* Own issues, and then the ones reported. *)
LEMMA IssuesInOrder ==
    ASSUME NEW c \in Configs, NEW up \in BOOLEAN, NEW reported \in Seq(WorkerCodes)
    PROVE  Leads(OwnIssues(c, up) \o reported, ~ up)
  <1>1. Leads(If(~ up, "worker_offline"), ~ up)
    <2>1. CASE up
      <3>1. If(~ up, "worker_offline") = <<>>
        BY <2>1 DEF If
      <3>2. <<>> \in Seq(AllCodes) /\ DOMAIN <<>> = {}
        OBVIOUS
      <3>3. QED
        BY <3>1, <3>2, Zenon DEF Leads
    <2>2. CASE ~ up
      <3>1. If(~ up, "worker_offline") = <<"worker_offline">>
        BY <2>2 DEF If
      <3>2. /\ <<"worker_offline">> \in Seq(AllCodes)
            /\ \A n \in DOMAIN <<"worker_offline">> : n = 1
        BY DEF AllCodes
      <3>3. QED
        BY <2>2, <3>1, <3>2, Zenon DEF Leads
    <2>3. QED
      BY <2>1, <2>2
  <1>2. /\ If(c.split /\ c.sqlite, "sqlite_split") \in Seq(Others)
        /\ If(c.login = "external", "login_off") \in Seq(Others)
        /\ If(c.login = "remote_only" /\ ~ c.proxies, "proxies_untrusted") \in Seq(Others)
        /\ reported \in Seq(Others)
    <2>1. {"sqlite_split", "login_off", "proxies_untrusted"} \subseteq Others
          /\ WorkerCodes \subseteq Others
      BY DEF Others, OwnCodes
    <2>2. reported \in Seq(Others)
      BY <2>1
    <2>3. QED
      BY <2>1, <2>2, IfType
  <1>3. QED
    BY <1>1, <1>2, LeadsOn DEF OwnIssues

(* The alarm is an error, and the only one that the order concerns. *)
LEMMA SortedLeads ==
    ASSUME NEW codes, NEW alarm, Leads(codes, alarm)
    PROVE  Leads(BySeverity(codes), alarm)
  <1> DEFINE Places(level) == {n \in DOMAIN codes : Level(codes[n]) = level}
             Of(level) == Picked(codes, Places(level))
  <1>1. codes \in Seq(AllCodes)
    BY DEF Leads
  <1>2. ASSUME NEW level
        PROVE  /\ Places(level) \in SUBSET Nat /\ IsFiniteSet(Places(level))
               /\ Cardinality(Places(level)) \in Nat
               /\ Of(level) \in Seq(AllCodes)
               /\ DOMAIN Of(level) = 1..Cardinality(Places(level))
               /\ \A p \in 1..Cardinality(Places(level)) :
                     /\ Nth(Places(level), p) \in Places(level)
                     /\ Of(level)[p] = codes[Nth(Places(level), p)]
    BY <1>1, PickedType
  <1>3. Level("worker_offline") = "error"
    BY DEF Level
  <1>4. ASSUME NEW level, NEW p \in DOMAIN Of(level), Of(level)[p] = "worker_offline"
        PROVE  level = "error" /\ p = 1 /\ alarm
    <2> DEFINE places == Places(level)
               k == Nth(places, p)
    <2>1. k \in places /\ codes[k] = "worker_offline" /\ p \in 1..Cardinality(places)
      BY <1>2, <1>4
    <2>2. k \in DOMAIN codes /\ Level(codes[k]) = level
      BY <2>1
    <2>3. k = 1 /\ alarm /\ level = "error"
      BY <1>3, <2>1, <2>2 DEF Leads
    <2>4. \A m \in places : 1 <= m
      BY <1>1
    <2>5. places \in SUBSET Nat /\ IsFiniteSet(places)
      BY <1>2
    <2> HIDE DEF places
    <2>6. p = 1
      BY <2>1, <2>3, <2>4, <2>5, NthFirst
    <2>7. QED
      BY <2>3, <2>6
  <1>5. Leads(Of("error"), alarm)
    BY <1>2, <1>4 DEF Leads
  <1>6. ASSUME NEW level, level # "error"
        PROVE  Of(level) \in Seq(Others)
    <2>1. Of(level) \in Seq(AllCodes) /\ \A p \in DOMAIN Of(level) : Of(level)[p] # "worker_offline"
      BY <1>2, <1>4, <1>6
    <2> DEFINE s == Of(level)
    <2> HIDE DEF s
    <2>2. ASSUME NEW p \in 1..Len(s) PROVE s[p] \in Others
      BY <2>1, <2>2 DEF AllCodes, s
    <2>3. QED
      BY <2>1, <2>2 DEF s
  <1> HIDE DEF Of
  <1>7. Leads((Of("error") \o Of("warning")) \o Of("notice"), alarm)
    BY <1>5, <1>6, LeadsOn
  <1>8. QED
    BY <1>7 DEF BySeverity, Of

(* The System page leads with a worker that is offline, and raises no such  *)
(* alarm about one that serves, whatever else either process has found.     *)
THEOREM OfflineLeads == Spec => []OfflineComesFirst
  <1>1. Init => ReportsInv
    BY DEF Init, ReportsInv
  <1>2. LiveIsSeen /\ ReportsInv => OfflineComesFirst
    <2> SUFFICES ASSUME LiveIsSeen, ReportsInv, NEW c \in Configs, NEW n \in DOMAIN Health(c),
                        Health(c)[n] = "worker_offline"
                 PROVE  n = 1 /\ ~ (Serves /\ beaten)
      BY DEF OfflineComesFirst
    <2> DEFINE codes == OwnIssues(c, Fresh) \o checks
    <2>1. Fresh \in BOOLEAN
      BY DEF Fresh
    <2>2. Leads(codes, ~ Fresh)
      BY <2>1, IssuesInOrder DEF ReportsInv
    <2>3. Leads(Health(c), ~ Fresh)
      BY <2>2, SortedLeads DEF Health
    <2>4. n = 1 /\ ~ Fresh
      BY <2>3 DEF Leads
    <2>5. QED
      BY <2>4 DEF LiveIsSeen
  <1>3. QED
    BY <1>1, <1>2, StepsKeepReports, TypeCorrect, LiveWorkerIsSeen, PTL DEF Spec

-----------------------------------------------------------------------------
(* The operations table. *)

LEMMA Greatest ==
    ASSUME NEW S \in SUBSET Nat, IsFiniteSet(S), S # {}
    PROVE  Max(S) \in S /\ \A n \in S : n <= Max(S)
  <1> DEFINE size == Cardinality(S)
             last == Nth(S, size)
             Below == {m \in S : m < last}
  <1>1. size \in Nat /\ size # 0
    BY FS_CardinalityType, FS_EmptySet
  <1>2. size \in 1..Cardinality(S)
    BY <1>1
  <1>3. last \in S /\ Cardinality(Below) = size - 1
    BY <1>2, NthPlace
  <1> HIDE DEF size, last
  <1>4. Below = S \ {last}
    <2>1. Below \in SUBSET (S \ {last})
      <3>1. last \in Nat /\ ~ (last < last)
        BY <1>3
      <3>2. QED
        BY <3>1
    <2>2. IsFiniteSet(S \ {last}) /\ Cardinality(S \ {last}) = size - 1
      BY <1>3, FS_RemoveElement DEF size
    <2>3. QED
      BY <1>3, <2>1, <2>2, FS_Subset
  <1>5. \A n \in S : n <= last
    <2> TAKE n \in S
    <2>1. n \in Nat /\ last \in Nat
      BY <1>3
    <2>2. CASE n = last
      BY <2>1, <2>2
    <2>3. CASE n # last
      <3>1. n \in Below
        BY <1>4, <2>3
      <3>2. QED
        BY <2>1, <3>1
    <2>4. QED
      BY <2>2, <2>3
  <1>6. \E x \in S : \A y \in S : x >= y
    BY <1>3, <1>5
  <1>7. Max(S) \in S /\ \A y \in S : Max(S) >= y
    BY <1>6 DEF Max
  <1>8. QED
    BY <1>7

TableInv ==
    /\ IsFiniteSet(operations)
    /\ \A op \in operations : op.id \in Nat \ {0}
    /\ \A op, other \in operations : op.id = other.id => op = other

LEMMA NextIsNew ==
    ASSUME TableInv
    PROVE  NextId \in Nat \ {0} /\ \A op \in operations : op.id < NextId
  <1>1. CASE operations = {}
    BY <1>1 DEF NextId
  <1>2. CASE operations # {}
    <2> DEFINE ids == {op.id : op \in operations}
               id == [op \in operations |-> op.id]
    <2>1. ids \in SUBSET Nat /\ ids # {}
      BY <1>2 DEF TableInv
    <2>2. id \in Surjection(operations, ids)
      <3>1. id \in [operations -> ids] /\ \A n \in ids : \E op \in operations : id[op] = n
        OBVIOUS
      <3>2. QED
        BY <3>1 DEF Surjection
    <2> HIDE DEF id
    <2>3. IsFiniteSet(ids)
      BY <2>2, FS_Surjection DEF TableInv
    <2>4. Max(ids) \in Nat /\ \A n \in ids : n <= Max(ids)
      BY <2>1, <2>3, Greatest
    <2>5. NextId = Max(ids) + 1
      BY <1>2 DEF NextId
    <2> HIDE DEF ids
    <2>6. \A op \in operations : op.id \in ids /\ op.id \in Nat
      BY DEF ids, TableInv
    <2>7. QED
      BY <2>4, <2>5, <2>6
  <1>3. QED
    BY <1>1, <1>2

(* What is kept is the newest: the cutoff is in no row that has fewer than  *)
(* HistoryMax newer ones.                                                   *)
LEMMA PrunedFacts ==
    ASSUME TableInv
    PROVE  /\ Pruned \subseteq operations
           /\ \A op \in Pruned : \A other \in operations : other.id > op.id => other \in Pruned
           /\ \A op \in operations \ Pruned :
                 HistoryMax > 0 /\ Cardinality(Newer(op)) >= HistoryMax
  <1>1. Pruned \subseteq operations
    BY DEF Pruned
  <1>2. ASSUME NEW op \in Pruned, NEW other \in operations, other.id > op.id
        PROVE  other \in Pruned
    <2>1. /\ op.id \in Nat /\ other.id \in Nat
          /\ \A last \in operations : last.id \in Nat
      BY <1>1 DEF TableInv
    <2>2. \A last \in operations : KeptFrom(last.id, op) => KeptFrom(last.id, other)
      BY <1>2, <2>1 DEF KeptFrom
    <2>3. QED
      BY <2>2 DEF Pruned
  <1>3. ASSUME NEW op \in operations \ Pruned
        PROVE  HistoryMax > 0 /\ Cardinality(Newer(op)) >= HistoryMax
    <2>1. PICK last \in operations : /\ HistoryMax > 0 /\ ~ KeptFrom(last.id, op)
                                     /\ Cardinality(Newer(last)) = HistoryMax - 1
      BY <1>3 DEF Pruned
    <2>2. op.id \in Nat /\ last.id \in Nat /\ op.id < last.id
          /\ \A other \in operations : other.id \in Nat
      BY <2>1 DEF KeptFrom, TableInv
    <2>3. IsFiniteSet(Newer(op)) /\ IsFiniteSet(Newer(last))
      BY FS_Subset DEF Newer, TableInv
    <2>4. last \notin Newer(last) /\ Newer(last) \cup {last} \in SUBSET Newer(op)
      BY <2>2 DEF Newer
    <2>5. Cardinality(Newer(last) \cup {last}) = Cardinality(Newer(last)) + 1
      BY <2>3, <2>4, FS_AddElement
    <2>6. Cardinality(Newer(last) \cup {last}) <= Cardinality(Newer(op))
      BY <2>3, <2>4, FS_Subset
    <2>7. Cardinality(Newer(op)) \in Nat /\ HistoryMax \in Nat
      BY <2>3, FS_CardinalityType, HistoryAssumption
    <2> HIDE DEF KeptFrom
    <2>8. QED
      BY <2>1, <2>5, <2>6, <2>7
  <1>4. QED
    BY <1>1, <1>2, <1>3

(* Steps that touch the history. *)
Recorded == \E i \in Imports : Record(i)

LEMMA HistoryMoves ==
    ASSUME [JournalNext]_journalVars
    PROVE  UNCHANGED historyVars \/ Recorded \/ Sweep \/ Web
  <1>1. CASE UNCHANGED journalVars
    BY <1>1 DEF journalVars
  <1>2. CASE Reconfigure
    BY <1>2 DEF Reconfigure
  <1>3. ASSUME NEW i \in Imports, TaskStep(i)
        PROVE  UNCHANGED historyVars \/ Record(i)
    BY <1>3 DEF TaskStep, Begin, MuxSays, MuxEnds, Stop, Flush, FlushFails, RecordFails, Settle
  <1>4. ASSUME NEW i \in Imports, FollowerStep(i)
        PROVE  UNCHANGED historyVars
    BY <1>4 DEF FollowerStep, FollowerWakes, FollowerSaves, FollowerFails
  <1>5. QED
    BY <1>1, <1>2, <1>3, <1>4 DEF JournalNext, Recorded

WalkTypes ==
    /\ reading \in {"closed", "count", "fetch"}
    /\ offset \in Nat /\ total \in Nat /\ clears \in Nat /\ walks \in Nat
    /\ late \in BOOLEAN

WalkInv ==
    /\ steady \subseteq operations
    /\ reading = "fetch" /\ ~ late => Cardinality(operations) <= total
    /\ reading # "closed" =>
          \A op \in steady : op \in seen \/ Cardinality(Newer(op)) >= offset
    /\ WalkIsComplete

LEMMA HistoryStarts == JournalInit => TableInv /\ WalkTypes /\ WalkInv
  <1> SUFFICES ASSUME JournalInit PROVE TableInv /\ WalkTypes /\ WalkInv
    OBVIOUS
  <1> USE DEF JournalInit, HistoryInit
  <1>1. TableInv
    BY HistoryAssumption DEF TableInv
  <1>2. WalkTypes
    BY DEF WalkTypes
  <1>3. WalkInv
    BY DEF WalkInv, WalkIsComplete
  <1>4. QED
    BY <1>1, <1>2, <1>3

LEMMA StepsKeepTable ==
    ASSUME TableInv, WalkTypes, [JournalNext]_journalVars
    PROVE  TableInv' /\ WalkTypes'
  <1>1. CASE UNCHANGED historyVars
    BY <1>1 DEF historyVars, walkVars, TableInv, WalkTypes
  <1>2. ASSUME NEW i \in Imports, Record(i) PROVE TableInv' /\ WalkTypes'
    <2> DEFINE row == [id |-> NextId, import |-> i, log |-> entries[i]]
    <2>1. operations' = operations \cup {row}
      BY <1>2 DEF Record, InsertOperation
    <2>2. IsFiniteSet(operations')
      BY <2>1, FS_AddElement DEF TableInv
    <2>3. row.id \in Nat \ {0} /\ \A op \in operations : op.id \in Nat /\ op.id < row.id
      BY NextIsNew DEF TableInv
    <2> HIDE DEF row
    <2>4. \A op \in operations' : op.id \in Nat \ {0}
      BY <2>1, <2>3 DEF TableInv
    <2>5. ASSUME NEW op \in operations', NEW other \in operations', op.id = other.id
          PROVE  op = other
      <3>1. \A k \in operations : k.id # row.id
        BY <2>3
      <3>2. QED
        BY <2>1, <2>5, <3>1 DEF TableInv
    <2>6. WalkTypes'
      BY <1>2 DEF Record, InsertOperation, WalkTypes
    <2>7. QED
      BY <2>2, <2>4, <2>5, <2>6 DEF TableInv
  <1>3. CASE Sweep
    <2>1. operations' = Pruned /\ Pruned \subseteq operations
      BY <1>3, PrunedFacts DEF Sweep, Prune
    <2>2. IsFiniteSet(operations')
      BY <2>1, FS_Subset DEF TableInv
    <2>3. QED
      BY <1>3, <2>1, <2>2 DEF Sweep, Prune, walkVars, TableInv, WalkTypes
  <1>4. CASE Web
    <2>1. CASE ClearHistory
      <3>1. operations' = {} /\ IsFiniteSet({})
        BY <2>1, FS_EmptySet DEF ClearHistory
      <3>2. QED
        BY <2>1, <3>1 DEF ClearHistory, walkVars, TableInv, WalkTypes
    <2>2. CASE OpenHistory
      <3>1. /\ reading' = "count" /\ offset' = 0 /\ total' = 0 /\ late' = FALSE
            /\ walks' = walks + 1 /\ clears' = clears /\ operations' = operations
        BY <2>2 DEF OpenHistory
      <3>2. TableInv'
        BY <3>1 DEF TableInv
      <3>3. WalkTypes'
        <4>1. late' \in BOOLEAN
          BY <3>1
        <4>2. reading' \in {"closed", "count", "fetch"} /\ offset' \in Nat /\ total' \in Nat
          BY <3>1
        <4>3. clears' \in Nat /\ walks' \in Nat
          BY <3>1 DEF WalkTypes
        <4>4. QED
          BY <4>1, <4>2, <4>3 DEF WalkTypes
      <3>4. QED
        BY <3>2, <3>3
    <2>3. CASE CountRows
      <3>1. Cardinality(operations) \in Nat
        BY FS_CardinalityType DEF TableInv
      <3>2. QED
        BY <2>3, <3>1 DEF CountRows, TableInv, WalkTypes
    <2>4. CASE FetchRows
      <3>1. UNCHANGED <<operations, total, late, clears, walks>>
            /\ reading' \in {"closed", "count"} /\ offset' = offset + PageSize
        BY <2>4 DEF FetchRows
      <3>2. offset' \in Nat
        BY <3>1, HistoryAssumption DEF WalkTypes
      <3>3. QED
        BY <3>1, <3>2 DEF TableInv, WalkTypes
    <2>5. QED
      BY <1>4, <2>1, <2>2, <2>3, <2>4 DEF Web, Walk
  <1>5. QED
    BY <1>1, <1>2, <1>3, <1>4, HistoryMoves DEF Recorded

(* A new row is newer than all, and the retention takes none from above a   *)
(* row it keeps: what is left to show never moves below the offset.         *)
LEMMA StepsKeepWalk ==
    ASSUME TableInv, WalkTypes, WalkInv, [JournalNext]_journalVars
    PROVE  WalkInv'
  <1> USE DEF WalkInv, WalkIsComplete
  <1>0. \A op : IsFiniteSet(Newer(op)) /\ Cardinality(Newer(op)) \in Nat
    BY FS_Subset, FS_CardinalityType DEF Newer, TableInv
  <1>1. CASE UNCHANGED historyVars
    BY <1>1 DEF historyVars, walkVars, Newer
  <1>2. ASSUME NEW i \in Imports, Record(i) PROVE WalkInv'
    <2> DEFINE row == [id |-> NextId, import |-> i, log |-> entries[i]]
    <2>1. /\ operations' = operations \cup {row}
          /\ late' = (late \/ reading = "fetch")
          /\ UNCHANGED <<reading, offset, total, seen, steady, walks>>
      BY <1>2 DEF Record, InsertOperation
    <2> HIDE DEF row
    <2>2. ASSUME NEW op \in steady
          PROVE  Cardinality(Newer(op)) <= Cardinality(Newer(op)')
      <3>1. Newer(op) \in SUBSET Newer(op)'
        BY <2>1 DEF Newer
      <3>2. IsFiniteSet(Newer(op)')
        <4>1. IsFiniteSet(operations')
          BY <2>1, FS_AddElement DEF TableInv
        <4>2. QED
          BY <4>1, FS_Subset DEF Newer
      <3>3. QED
        BY <3>1, <3>2, FS_Subset
    <2>3. \A op \in steady : Cardinality(Newer(op)') \in Nat
      <3>1. IsFiniteSet(operations')
        BY <2>1, FS_AddElement DEF TableInv
      <3>2. QED
        BY <3>1, FS_Subset, FS_CardinalityType DEF Newer
    <2>4. offset \in Nat
      BY DEF WalkTypes
    <2>5. reading # "closed" =>
             \A op \in steady : op \in seen \/ Cardinality(Newer(op)') >= offset
      BY <1>0, <2>2, <2>3, <2>4
    <2>6. QED
      BY <2>1, <2>5 DEF WalkTypes
  <1>3. CASE Sweep
    <2>1. /\ operations' = Pruned /\ steady' = steady \cap Pruned
          /\ UNCHANGED <<reading, offset, total, seen, late, walks>>
      BY <1>3 DEF Sweep, Prune, walkVars
    <2>2. ASSUME NEW op \in steady' PROVE Newer(op)' = Newer(op)
      BY <2>1, PrunedFacts DEF Newer
    <2>3. Cardinality(operations') <= Cardinality(operations)
          /\ Cardinality(operations') \in Nat /\ Cardinality(operations) \in Nat
      BY <2>1, PrunedFacts, FS_Subset, FS_CardinalityType DEF TableInv
    <2>4. total \in Nat
      BY DEF WalkTypes
    <2>5. reading = "fetch" /\ ~ late => Cardinality(operations') <= total
      BY <2>3, <2>4
    <2>6. QED
      BY <2>1, <2>2, <2>5
  <1>4. CASE Web
    <2>1. CASE ClearHistory
      <3>1. Cardinality({}) = 0
        BY FS_EmptySet
      <3>2. operations' = {} /\ steady' = {} /\ UNCHANGED <<reading, offset, total, seen, late, walks>>
        BY <2>1 DEF ClearHistory, walkVars
      <3>3. QED
        BY <3>1, <3>2 DEF WalkTypes
    <2>2. CASE OpenHistory
      <3>1. \A op \in steady' : Newer(op)' = Newer(op)
        BY <2>2 DEF OpenHistory, Newer
      <3>2. QED
        BY <1>0, <2>2, <3>1 DEF OpenHistory
    <2>3. CASE CountRows
      <3>1. \A op \in steady' : Newer(op)' = Newer(op)
        BY <2>3 DEF CountRows, Newer
      <3>2. Cardinality(operations) \in Nat
        BY FS_CardinalityType DEF TableInv
      <3>3. QED
        BY <2>3, <3>1, <3>2 DEF CountRows
    <2>4. CASE FetchRows
      <3>1. /\ reading = "fetch" /\ offset' = offset + PageSize /\ seen' = seen \cup Page
            /\ reading' = IF offset + PageSize >= total THEN "closed" ELSE "count"
            /\ UNCHANGED <<operations, total, steady, late, walks>>
        BY <2>4 DEF FetchRows
      <3>2. offset \in Nat /\ PageSize \in Nat /\ total \in Nat
        BY HistoryAssumption DEF WalkTypes
      <3>3. ASSUME NEW op \in steady
            PROVE  op \in seen' \/ Cardinality(Newer(op)) >= offset'
        <4>1. CASE op \in seen
          BY <3>1, <4>1
        <4>2. CASE op \notin seen
          <5>1. Cardinality(Newer(op)) >= offset /\ op \in operations
            BY <3>1, <4>2
          <5>2. Cardinality(Newer(op)) <= offset + PageSize - 1 => op \in Page
            BY <1>0, <3>2, <5>1 DEF Page, RowsBefore
          <5>3. QED
            BY <1>0, <3>1, <3>2, <5>2
        <4>3. QED
          BY <4>1, <4>2
      <3>4. ASSUME NEW op \in steady, ~ late, offset + PageSize >= total
            PROVE  op \in seen'
        <4>1. op \in operations /\ op \notin Newer(op) /\ Newer(op) \cup {op} \in SUBSET operations
          BY DEF Newer, TableInv
        <4>2. Cardinality(Newer(op) \cup {op}) = Cardinality(Newer(op)) + 1
          BY <1>0, <4>1, FS_AddElement
        <4>3. Cardinality(Newer(op) \cup {op}) <= Cardinality(operations)
              /\ Cardinality(operations) \in Nat
          BY <4>1, FS_Subset, FS_CardinalityType DEF TableInv
        <4>4. Cardinality(operations) <= total
          BY <3>1, <3>4
        <4>5. QED
          BY <1>0, <3>1, <3>2, <3>3, <3>4, <4>2, <4>3, <4>4
      <3>5. \A op : Newer(op)' = Newer(op)
        BY <3>1 DEF Newer
      <3>6. QED
        BY <3>1, <3>3, <3>4, <3>5
    <2>5. QED
      BY <1>4, <2>1, <2>2, <2>3, <2>4 DEF Web, Walk
  <1>5. QED
    BY <1>1, <1>2, <1>3, <1>4, HistoryMoves DEF Recorded

(* A walk shows every operation that was there all along, for every page    *)
(* size and retention: imports are recorded above what is left to show, and *)
(* the retention takes away from below.                                     *)
THEOREM WalksAreComplete == JournalSpec => []WalkIsComplete
  <1>1. WalkInv => WalkIsComplete
    BY DEF WalkInv
  <1>2. QED
    BY <1>1, HistoryStarts, StepsKeepTable, StepsKeepWalk, PTL DEF JournalSpec

(* Only a row with HistoryMax newer ones goes, unless the user clears.      *)
THEOREM RetentionKeepsNewest == JournalSpec => NewestAreKept
  <1>1. ASSUME TableInv, WalkTypes, [JournalNext]_journalVars, clears' = clears
        PROVE  \A op \in operations \ operations' :
                  HistoryMax > 0 /\ Cardinality(Newer(op)) >= HistoryMax
    <2>1. CASE UNCHANGED historyVars
      BY <2>1 DEF historyVars
    <2>2. CASE Recorded
      BY <2>2 DEF Recorded, Record, InsertOperation
    <2>3. CASE Sweep
      BY <1>1, <2>3, PrunedFacts DEF Sweep, Prune
    <2>4. CASE Web
      <3>1. ~ ClearHistory
        BY <1>1 DEF ClearHistory, WalkTypes
      <3>2. QED
        BY <2>4, <3>1 DEF Web, Walk, OpenHistory, CountRows, FetchRows
    <2>5. QED
      BY <1>1, <2>1, <2>2, <2>3, <2>4, HistoryMoves
  <1>2. ASSUME TableInv, WalkTypes, [JournalNext]_journalVars
        PROVE  [clears' = clears =>
                  \A op \in operations \ operations' :
                     HistoryMax > 0 /\ Cardinality(Newer(op)) >= HistoryMax]_historyVars
    BY <1>1, <1>2
  <1>3. QED
    BY <1>2, HistoryStarts, StepsKeepTable, PTL DEF JournalSpec, NewestAreKept

-----------------------------------------------------------------------------
(* What is kept of an import's records. *)

Entry == Nat \X Nat

LEMMA AccountShape ==
    ASSUME NEW i \in Imports, NEW n \in Nat
    PROVE  /\ Account(i, n) \in Seq(Entry)
           /\ Len(Account(i, n)) \in Nat
           /\ Len(Account(i, n)) = IF n < Limit THEN n ELSE Limit
           /\ \A m \in 1..Len(Account(i, n)) :
                 Account(i, n)[m] = IF m = Limit THEN Truncation ELSE <<i, m>>
  <1> DEFINE size == IF n < Limit THEN n ELSE Limit
             account == [m \in 1..size |-> IF m = Limit THEN Truncation ELSE <<i, m>>]
  <1>1. size \in Nat /\ i \in Nat
    BY JournalAssumption
  <1>2. \A m \in 1..size : (IF m = Limit THEN Truncation ELSE <<i, m>>) \in Entry
    BY <1>1 DEF Truncation, Entry
  <1>3. Account(i, n) = account
    BY DEF Account
  <1> HIDE DEF size
  <1>4. account \in [1..size -> Entry]
    BY <1>2
  <1>5. account \in Seq(Entry) /\ Len(account) = size
    BY <1>1, <1>4
  <1>6. /\ DOMAIN account = 1..size
        /\ \A m \in 1..size : account[m] = IF m = Limit THEN Truncation ELSE <<i, m>>
    OBVIOUS
  <1> HIDE DEF account
  <1>7. QED
    <2>1. Account(i, n) \in Seq(Entry) /\ Len(Account(i, n)) = size
      BY <1>3, <1>5
    <2>2. \A m \in 1..Len(Account(i, n)) :
             Account(i, n)[m] = IF m = Limit THEN Truncation ELSE <<i, m>>
      BY <1>3, <1>6, <2>1
    <2>3. QED
      BY <1>1, <2>1, <2>2 DEF size

(* A shorter account is how a longer one begins. *)
LEMMA AccountPrefix ==
    ASSUME NEW i \in Imports, NEW m \in Nat, NEW n \in Nat,
           Len(Account(i, m)) <= Len(Account(i, n))
    PROVE  IsPrefix(Account(i, m), Account(i, n))
  <1> DEFINE s == Account(i, m)
             t == Account(i, n)
  <1>1. /\ s \in Seq(Entry) /\ t \in Seq(Entry)
        /\ Len(s) \in Nat /\ Len(t) \in Nat /\ Len(s) <= Len(t)
        /\ \A k \in 1..Len(s) : s[k] = IF k = Limit THEN Truncation ELSE <<i, k>>
        /\ \A k \in 1..Len(t) : t[k] = IF k = Limit THEN Truncation ELSE <<i, k>>
    <2>1. /\ s \in Seq(Entry) /\ Len(s) \in Nat
          /\ \A k \in 1..Len(s) : s[k] = IF k = Limit THEN Truncation ELSE <<i, k>>
      BY AccountShape, Zenon
    <2>2. /\ t \in Seq(Entry) /\ Len(t) \in Nat
          /\ \A k \in 1..Len(t) : t[k] = IF k = Limit THEN Truncation ELSE <<i, k>>
      BY AccountShape, Zenon
    <2>3. QED
      BY <2>1, <2>2
  <1> HIDE DEF s, t
  <1>2. ASSUME NEW k \in 1..Len(s) PROVE s[k] = t[k]
    <2>1. k \in 1..Len(t)
      BY <1>1
    <2>2. QED
      BY <1>1, <2>1, Zenon
  <1>3. SubSeq(s, 1, Len(s)) = SubSeq(t, 1, Len(s))
    <2>1. /\ SubSeq(s, 1, Len(s)) \in Seq(Entry) /\ SubSeq(t, 1, Len(s)) \in Seq(Entry)
          /\ Len(SubSeq(s, 1, Len(s))) = Len(s) /\ Len(SubSeq(t, 1, Len(s))) = Len(s)
          /\ \A k \in 1..Len(s) : SubSeq(s, 1, Len(s))[k] = s[k] /\ SubSeq(t, 1, Len(s))[k] = t[k]
      BY <1>1
    <2>2. QED
      BY <1>1, <1>2, <2>1, SeqEqual
  <1>4. QED
    BY <1>1, <1>3 DEF IsPrefix, s, t

(* The next record of import i makes the next account of it. *)
LEMMA SunkAccount ==
    ASSUME NEW i \in Imports, NEW n \in Nat
    PROVE  Sunk(Account(i, n), <<i, n + 1>>) = Account(i, n + 1)
  <1> DEFINE s == Account(i, n)
             t == Account(i, n + 1)
  <1>1. /\ s \in Seq(Entry) /\ t \in Seq(Entry) /\ Limit \in Nat /\ i \in Nat
        /\ Len(s) = (IF n < Limit THEN n ELSE Limit)
        /\ Len(t) = (IF n + 1 < Limit THEN n + 1 ELSE Limit)
        /\ \A k \in 1..Len(s) : s[k] = IF k = Limit THEN Truncation ELSE <<i, k>>
        /\ \A k \in 1..Len(t) : t[k] = IF k = Limit THEN Truncation ELSE <<i, k>>
    <2>1. /\ s \in Seq(Entry) /\ Len(s) = (IF n < Limit THEN n ELSE Limit)
          /\ \A k \in 1..Len(s) : s[k] = IF k = Limit THEN Truncation ELSE <<i, k>>
      BY AccountShape, Zenon
    <2>2. n + 1 \in Nat
      OBVIOUS
    <2>3. /\ t \in Seq(Entry) /\ Len(t) = (IF n + 1 < Limit THEN n + 1 ELSE Limit)
          /\ \A k \in 1..Len(t) : t[k] = IF k = Limit THEN Truncation ELSE <<i, k>>
      BY <2>2, AccountShape, Zenon
    <2>4. Limit \in Nat /\ i \in Nat
      BY JournalAssumption
    <2>5. QED
      BY <2>1, <2>3, <2>4
  <1> HIDE DEF s, t
  <1>2. CASE n >= Limit
    <2>1. Sunk(s, <<i, n + 1>>) = s
      BY <1>1, <1>2 DEF Sunk
    <2>2. Len(s) = Len(t)
      BY <1>1, <1>2
    <2>3. \A k \in 1..Len(s) : s[k] = t[k]
      BY <1>1, <2>2, Zenon
    <2>4. s = t
      BY <1>1, <2>2, <2>3, SeqEqual
    <2>5. QED
      BY <2>1, <2>4 DEF s, t
  <1>3. CASE n < Limit
    <2> DEFINE entry == IF n + 1 = Limit THEN Truncation ELSE <<i, n + 1>>
    <2>1. Sunk(s, <<i, n + 1>>) = Append(s, entry)
      BY <1>1, <1>3 DEF Sunk
    <2>2. entry \in Entry
      BY <1>1 DEF Truncation, Entry
    <2>3. entry = t[n + 1] /\ Len(t) = Len(s) + 1 /\ Len(s) = n
      BY <1>1, <1>3
    <2> HIDE DEF entry
    <2>4. /\ Append(s, entry) \in Seq(Entry) /\ Len(Append(s, entry)) = Len(s) + 1
          /\ \A k \in 1..Len(s) : Append(s, entry)[k] = s[k]
          /\ Append(s, entry)[Len(s) + 1] = entry
      BY <1>1, <2>2
    <2>5. \A k \in 1..Len(t) : Append(s, entry)[k] = t[k]
      <3> TAKE k \in 1..Len(t)
      <3>1. CASE k = n + 1
        BY <2>3, <2>4, <3>1
      <3>2. CASE k \in 1..Len(s)
        BY <1>1, <2>3, <2>4, <3>2
      <3>3. QED
        BY <1>1, <2>3, <3>1, <3>2
    <2>6. Append(s, entry) = t
      BY <1>1, <2>3, <2>4, <2>5, SeqEqual
    <2>7. QED
      BY <2>1, <2>6 DEF s, t
  <1>4. QED
    BY <1>1, <1>2, <1>3

(* A buffer or a stored log that is an account of import i. *)
Own(i, buffer) == \E n \in Nat : buffer = Account(i, n)

LEMMA OwnFacts ==
    ASSUME NEW i \in Imports
    PROVE  /\ Own(i, <<>>)
           /\ \A s : Own(i, s) => s \in Seq(Entry) /\ Len(s) \in Nat
           /\ \A s, t : Own(i, s) /\ Own(i, t) /\ Len(s) <= Len(t) => IsPrefix(s, t)
  <1>1. Account(i, 0) = <<>>
    <2>1. Account(i, 0) \in Seq(Entry) /\ Len(Account(i, 0)) = 0
      BY AccountShape, JournalAssumption
    <2>2. QED
      BY <2>1
  <1>2. Own(i, <<>>)
    BY <1>1 DEF Own
  <1>3. \A s : Own(i, s) => s \in Seq(Entry) /\ Len(s) \in Nat
    BY AccountShape DEF Own
  <1>4. \A s, t : Own(i, s) /\ Own(i, t) /\ Len(s) <= Len(t) => IsPrefix(s, t)
    BY AccountPrefix DEF Own
  <1>5. QED
    BY <1>2, <1>3, <1>4

-----------------------------------------------------------------------------
(* What the buffers hold. *)

Shapes ==
    /\ task \in [Imports -> {"none", "mux", "stop", "flush"} \cup Past]
    /\ failed \in [Imports -> BOOLEAN]
    /\ heard \in [Imports -> BOOLEAN]
    /\ said \in [Imports -> Nat]
    /\ entries \in [Imports -> Seq(Entry)]
    /\ follower \in [Imports -> {"off", "asleep", "saving"}]
    /\ written \in [Imports -> 0..Limit]
    /\ inflight \in [Imports -> Seq(Entry)]
    /\ log \in [Imports -> Seq(Entry)]
    /\ faults \in Nat /\ reloads \in Nat

(* The buffer has the first records of the import, and all of them as long  *)
(* as its handler is installed.                                             *)
Told(i) ==
    \E n \in 0..said[i] : /\ entries[i] = Account(i, n)
                          /\ reloads = 0 \/ heard[i] => n = said[i]

(* Only a change of the log level takes the handler away before the end. *)
Heeded(i) == reloads = 0 /\ Limit > 0 /\ task[i] \notin {"none", "done"} => heard[i]

(* Nothing is said before the beginning, and nothing follows after Stop. *)
InOrder(i) ==
    /\ task[i] = "none" => said[i] = 0 /\ ~ heard[i]
    /\ follower[i] # "off" => task[i] \in {"mux", "stop"}

TellInv == \A i \in Imports : Told(i) /\ Heeded(i) /\ InOrder(i)

LEMMA ToldFacts ==
    ASSUME Shapes, NEW i \in Imports, Told(i)
    PROVE  Own(i, entries[i]) /\ entries[i] \in Seq(Entry) /\ Len(entries[i]) \in 0..Limit
  <1>1. PICK n \in 0..said[i] : entries[i] = Account(i, n)
    BY DEF Told
  <1>2. n \in Nat /\ Limit \in Nat
    BY JournalAssumption DEF Shapes
  <1>3. Account(i, n) \in Seq(Entry) /\ Len(Account(i, n)) = IF n < Limit THEN n ELSE Limit
    BY <1>2, AccountShape
  <1>4. Len(Account(i, n)) \in 0..Limit
    BY <1>2, <1>3
  <1>5. QED
    BY <1>1, <1>2, <1>3, <1>4 DEF Own

(* A record of import i, given to the handlers "installed". *)
LEMMA SayTells ==
    ASSUME Shapes, NEW installed \in [Imports -> BOOLEAN], NEW i \in Imports, Say(i, installed),
           heard' = installed, reloads' = reloads,
           \A j \in Imports \ {i} : installed[j] = heard[j],
           installed[i] => heard[i] \/ reloads = 0 \/ said[i] = 0,
           reloads = 0 /\ Limit > 0 => installed[i],
           \A j \in Imports : Told(j)
    PROVE  /\ said' \in [Imports -> Nat] /\ entries' \in [Imports -> Seq(Entry)]
           /\ \A j \in Imports : Told(j)'
           /\ \A j \in Imports : Len(entries[j]) <= Len(entries'[j])
           /\ \A j \in Imports \ {i} : said'[j] = said[j] /\ entries'[j] = entries[j]
  <1>1. /\ said' = [said EXCEPT ![i] = said[i] + 1]
        /\ entries' = [k \in Imports |->
                          IF installed[k] /\ k = i
                          THEN Sunk(entries[k], <<i, said[i] + 1>>) ELSE entries[k]]
    BY DEF Say, ForMe
  <1>2. /\ said' \in [Imports -> Nat] /\ said'[i] = said[i] + 1 /\ said[i] \in Nat
        /\ \A j \in Imports \ {i} : said'[j] = said[j] /\ entries'[j] = entries[j]
        /\ entries'[i] = IF installed[i] THEN Sunk(entries[i], <<i, said[i] + 1>>) ELSE entries[i]
    BY <1>1 DEF Shapes
  <1>3. \A j \in Imports \ {i} : Told(j)'
    BY <1>2 DEF Told
  <1>4. PICK n \in 0..said[i] : entries[i] = Account(i, n) /\ (reloads = 0 \/ heard[i] => n = said[i])
    BY DEF Told
  <1>5. n \in Nat /\ Limit \in Nat
    BY <1>2, JournalAssumption
  <1>6. /\ Account(i, n) \in Seq(Entry) /\ Account(i, n + 1) \in Seq(Entry)
        /\ Len(Account(i, n)) = IF n < Limit THEN n ELSE Limit
        /\ Len(Account(i, n + 1)) = IF n + 1 < Limit THEN n + 1 ELSE Limit
    <2>1. n + 1 \in Nat
      BY <1>5
    <2>2. QED
      BY <1>5, <2>1, AccountShape
  <1>7. Len(Account(i, n)) <= Len(Account(i, n + 1)) /\ Len(Account(i, n)) \in Nat
    BY <1>5, <1>6
  <1>8. Told(i)' /\ Len(entries[i]) <= Len(entries'[i]) /\ entries'[i] \in Seq(Entry)
    <2>1. CASE installed[i]
      <3>1. n = said[i]
        BY <1>2, <1>4, <2>1
      <3>2. entries'[i] = Account(i, n + 1)
        BY <1>2, <1>4, <1>5, <2>1, <3>1, SunkAccount
      <3>3. said'[i] \in 0..said'[i] /\ said'[i] = n + 1
        BY <1>2, <3>1
      <3>4. QED
        BY <1>4, <1>6, <1>7, <3>2, <3>3 DEF Told
    <2>2. CASE ~ installed[i]
      <3>1. entries'[i] = entries[i]
        BY <1>2, <2>2
      <3>2. n \in 0..said'[i]
        BY <1>2
      <3>3. CASE reloads = 0
        <4>1. Limit = 0 /\ n = said[i]
          BY <1>4, <1>5, <2>2, <3>3
        <4>2. Len(Account(i, n)) = 0 /\ Len(Account(i, n + 1)) = 0
          BY <1>5, <1>6, <4>1
        <4>3. Account(i, n + 1) = Account(i, n)
          BY <1>6, <4>2
        <4>4. entries'[i] = Account(i, said'[i]) /\ said'[i] \in 0..said'[i]
          BY <1>2, <1>4, <3>1, <4>1, <4>3
        <4>5. QED
          BY <1>4, <1>6, <1>7, <3>1, <4>4 DEF Told
      <3>4. CASE reloads # 0
        <4>1. ~ (reloads' = 0 \/ heard'[i])
          BY <2>2, <3>4
        <4>2. QED
          BY <1>4, <1>6, <1>7, <3>1, <3>2, <4>1 DEF Told
      <3>5. QED
        BY <3>3, <3>4
    <2>3. QED
      BY <2>1, <2>2
  <1>9. entries' \in [Imports -> Seq(Entry)]
    <2>1. \A j \in Imports : entries'[j] \in Seq(Entry)
      BY <1>2, <1>8 DEF Shapes
    <2>2. QED
      BY <1>1, <2>1
  <1>10. \A j \in Imports : Len(entries[j]) <= Len(entries'[j])
    <2>1. ASSUME NEW j \in Imports \ {i} PROVE Len(entries[j]) <= Len(entries'[j])
      <3>1. Len(entries[j]) \in Nat /\ entries'[j] = entries[j]
        BY <1>2 DEF Shapes
      <3>2. QED
        BY <3>1
    <2>2. QED
      BY <1>8, <2>1
  <1>11. QED
    BY <1>2, <1>3, <1>8, <1>9, <1>10

(* Nothing is emitted, and no handler is installed. *)
LEMMA SilenceTells ==
    ASSUME UNCHANGED <<entries, said>>, reloads' = 0 => reloads = 0,
           NEW i \in Imports, heard'[i] => heard[i], Told(i)
    PROVE  Told(i)'
  BY DEF Told


LEMMA StepsKeepTelling ==
    ASSUME Shapes, TellInv, [JournalNext]_journalVars
    PROVE  /\ Shapes' /\ TellInv'
           /\ \A i \in Imports : Len(entries[i]) <= Len(entries'[i])
  <1> DEFINE Goal == /\ Shapes' /\ TellInv'
                     /\ \A i \in Imports : Len(entries[i]) <= Len(entries'[i])
  <1>a. \A i \in Imports : Told(i) /\ Heeded(i) /\ InOrder(i)
    BY DEF TellInv
  <1>b. \A i \in Imports : /\ entries[i] \in Seq(Entry) /\ Len(entries[i]) \in Nat
                           /\ Len(entries[i]) \in 0..Limit
    BY <1>a, ToldFacts DEF Shapes
  <1>c. ASSUME UNCHANGED <<entries, said>>, reloads' = 0 => reloads = 0,
               \A i \in Imports : heard'[i] => heard[i]
        PROVE  /\ said' \in [Imports -> Nat] /\ entries' \in [Imports -> Seq(Entry)]
               /\ \A i \in Imports : Told(i)'
               /\ \A i \in Imports : Len(entries[i]) <= Len(entries'[i])
    <2>1. \A i \in Imports : Told(i)'
      BY <1>a, <1>c, SilenceTells
    <2>2. \A i \in Imports : Len(entries[i]) <= Len(entries'[i])
      BY <1>b, <1>c
    <2>3. QED
      BY <1>c, <2>1, <2>2 DEF Shapes
  <1>1. ASSUME NEW i \in Imports, Begin(i) PROVE Goal
    <2>1. /\ task[i] = "none" /\ heard' = [heard EXCEPT ![i] = Limit > 0] /\ Say(i, heard')
          /\ follower' = [follower EXCEPT ![i] = "asleep"]
          /\ task' = [task EXCEPT ![i] = "mux"]
          /\ UNCHANGED <<failed, written, inflight, log, faults, reloads>>
      BY <1>1 DEF Begin, On, GoesOn
    <2>2. said[i] = 0
      BY <1>a, <2>1 DEF InOrder
    <2>3. /\ heard' \in [Imports -> BOOLEAN] /\ heard'[i] = (Limit > 0)
          /\ \A j \in Imports \ {i} : heard'[j] = heard[j]
      BY <2>1 DEF Shapes
    <2>4. /\ said' \in [Imports -> Nat] /\ entries' \in [Imports -> Seq(Entry)]
          /\ \A j \in Imports : Told(j)'
          /\ \A j \in Imports : Len(entries[j]) <= Len(entries'[j])
          /\ \A j \in Imports \ {i} : said'[j] = said[j]
      <3>1. \A j \in Imports : Told(j)
        BY <1>a
      <3> DEFINE h == heard'
      <3>2. /\ h \in [Imports -> BOOLEAN] /\ Say(i, h) /\ heard' = h /\ reloads' = reloads
            /\ \A j \in Imports \ {i} : h[j] = heard[j]
            /\ h[i] => heard[i] \/ reloads = 0 \/ said[i] = 0
            /\ reloads = 0 /\ Limit > 0 => h[i]
        BY <2>1, <2>2, <2>3
      <3> HIDE DEF h
      <3>3. QED
        BY <3>1, <3>2, SayTells
    <2>5. Shapes'
      BY <2>1, <2>3, <2>4 DEF Shapes
    <2>6. \A j \in Imports : Heeded(j)'
      BY <1>a, <2>1, <2>3 DEF Heeded, Shapes
    <2>7. \A j \in Imports : InOrder(j)'
      BY <1>a, <2>1, <2>3, <2>4 DEF InOrder, Shapes
    <2>8. QED
      BY <2>4, <2>5, <2>6, <2>7 DEF TellInv
  <1>d. ASSUME NEW i \in Imports, Say(i, heard), UNCHANGED <<heard, reloads>>,
               task[i] \notin {"none", "done"}
        PROVE  /\ said' \in [Imports -> Nat] /\ entries' \in [Imports -> Seq(Entry)]
               /\ \A j \in Imports : Told(j)'
               /\ \A j \in Imports : Len(entries[j]) <= Len(entries'[j])
               /\ \A j \in Imports \ {i} : said'[j] = said[j]
    <2>1. \A j \in Imports : Told(j)
      BY <1>a
    <2>2. reloads = 0 /\ Limit > 0 => heard[i]
      BY <1>a, <1>d DEF Heeded
    <2>3. heard \in [Imports -> BOOLEAN] /\ heard' = heard /\ reloads' = reloads
      BY <1>d DEF Shapes
    <2>4. QED
      BY <1>d, <2>1, <2>2, <2>3, SayTells
  <1>2. ASSUME NEW i \in Imports,
               MuxSays(i) \/ MuxEnds(i) \/ FlushFails(i) \/ RecordFails(i) \/ FollowerFails(i)
        PROVE  Goal
    <2>1. Say(i, heard) /\ UNCHANGED <<heard, reloads, written, log>>
      BY <1>2 DEF MuxSays, MuxEnds, FlushFails, RecordFails, FollowerFails, followVars
    <2>2. task[i] \in {"mux", "stop", "flush", "record"}
      <3>1. CASE FollowerFails(i)
        BY <1>a, <3>1 DEF FollowerFails, InOrder
      <3>2. CASE ~ FollowerFails(i)
        BY <1>2, <3>2 DEF MuxSays, MuxEnds, FlushFails, RecordFails, On
      <3>3. QED
        BY <3>1, <3>2
    <2>3. /\ said' \in [Imports -> Nat] /\ entries' \in [Imports -> Seq(Entry)]
          /\ \A j \in Imports : Told(j)'
          /\ \A j \in Imports : Len(entries[j]) <= Len(entries'[j])
          /\ \A j \in Imports \ {i} : said'[j] = said[j]
      BY <1>d, <2>1, <2>2
    <2>4. /\ task' \in [Imports -> {"none", "mux", "stop", "flush"} \cup Past]
          /\ \A j \in Imports \ {i} : task'[j] = task[j]
          /\ task'[i] \in {"mux", "stop", "record", "settle"}
          /\ failed' \in [Imports -> BOOLEAN] /\ faults' \in Nat
          /\ follower' \in [Imports -> {"off", "asleep", "saving"}]
          /\ inflight' \in [Imports -> Seq(Entry)]
          /\ \A j \in Imports : follower'[j] # "off" => follower[j] # "off"
          /\ follower'[i] # "off" => task'[i] \in {"mux", "stop"}
      <3>1. CASE MuxSays(i)
        BY <3>1, <1>a DEF MuxSays, On, followVars, Shapes, InOrder
      <3>2. CASE MuxEnds(i)
        BY <3>2, <1>a DEF MuxEnds, On, GoesOn, followVars, Shapes, InOrder, Past
      <3>3. CASE FlushFails(i)
        <4>1. /\ task[i] = "flush" /\ faults' = faults + 1
              /\ task' = [task EXCEPT ![i] = IF failed[i] THEN "settle" ELSE "record"]
              /\ UNCHANGED <<failed, follower, inflight>>
          BY <3>3 DEF FlushFails, Fault, On, GoesOn, AfterFlush, followVars
        <4>2. follower[i] = "off"
          BY <1>a, <4>1 DEF InOrder, Shapes
        <4>3. QED
          BY <4>1, <4>2 DEF Shapes, Past
      <3>4. CASE RecordFails(i)
        <4>1. /\ task[i] = "record" /\ faults' = faults + 1
              /\ task' = [task EXCEPT ![i] = "settle"]
              /\ UNCHANGED <<failed, follower, inflight>>
          BY <3>4 DEF RecordFails, Fault, On, GoesOn, followVars
        <4>2. follower[i] = "off"
          BY <1>a, <4>1 DEF InOrder, Shapes
        <4>3. QED
          BY <4>1, <4>2 DEF Shapes, Past
      <3>5. CASE FollowerFails(i)
        <4>1. <<>> \in Seq(Entry)
          OBVIOUS
        <4>2. QED
          BY <3>5, <4>1, <1>a DEF FollowerFails, Fault, Shapes, InOrder, Past
      <3>6. QED
        BY <1>2, <3>1, <3>2, <3>3, <3>4, <3>5
    <2>5. Shapes'
      BY <2>1, <2>3, <2>4 DEF Shapes
    <2>6. \A j \in Imports : Heeded(j)'
      <3>1. Heeded(i)'
        BY <1>a, <2>1, <2>2 DEF Heeded
      <3>2. ASSUME NEW j \in Imports \ {i} PROVE Heeded(j)'
        BY <1>a, <2>1, <2>4 DEF Heeded
      <3>3. QED
        BY <3>1, <3>2
    <2>7. \A j \in Imports : InOrder(j)'
      BY <1>a, <2>1, <2>3, <2>4 DEF InOrder
    <2>8. QED
      BY <2>3, <2>5, <2>6, <2>7 DEF TellInv
  <1>3. ASSUME NEW i \in Imports,
               Stop(i) \/ Flush(i) \/ Record(i) \/ Settle(i) \/ FollowerWakes(i) \/ FollowerSaves(i)
        PROVE  Goal
    <2>1. /\ UNCHANGED <<entries, said, reloads, faults>>
          /\ heard' \in [Imports -> BOOLEAN]
          /\ \A j \in Imports : heard'[j] => heard[j]
          /\ \A j \in Imports : heard'[j] = heard[j] \/ task'[j] = "done"
      BY <1>3 DEF Stop, Flush, Record, Settle, FollowerWakes, FollowerSaves, captureVars, GoesOn, Shapes
    <2>2. /\ said' \in [Imports -> Nat] /\ entries' \in [Imports -> Seq(Entry)]
          /\ \A j \in Imports : Told(j)'
          /\ \A j \in Imports : Len(entries[j]) <= Len(entries'[j])
      BY <1>c, <2>1
    <2>3. /\ task' \in [Imports -> {"none", "mux", "stop", "flush"} \cup Past]
          /\ \A j \in Imports \ {i} : task'[j] = task[j] /\ follower'[j] = follower[j]
          /\ task[i] # "none" /\ task'[i] # "none"
          /\ task[i] = "done" => task'[i] = "done"
          /\ failed' \in [Imports -> BOOLEAN]
          /\ follower' \in [Imports -> {"off", "asleep", "saving"}]
          /\ written' \in [Imports -> 0..Limit]
          /\ inflight' \in [Imports -> Seq(Entry)] /\ log' \in [Imports -> Seq(Entry)]
          /\ follower'[i] # "off" => task'[i] \in {"mux", "stop"}
      <3>0. <<>> \in Seq(Entry) /\ 0 \in 0..Limit
        BY JournalAssumption
      <3>1. CASE Stop(i)
        BY <3>0, <3>1, <1>a DEF Stop, On, GoesOn, Shapes, InOrder, Past
      <3>2. CASE Flush(i)
        BY <3>2, <1>a, <1>b DEF Flush, AfterFlush, On, GoesOn, followVars, Shapes, InOrder, Past
      <3>3. CASE Record(i)
        BY <3>3, <1>a DEF Record, On, GoesOn, followVars, Shapes, InOrder, Past
      <3>4. CASE Settle(i)
        BY <3>4, <1>a DEF Settle, On, GoesOn, followVars, Shapes, InOrder, Past
      <3>5. CASE FollowerWakes(i)
        BY <3>5, <1>a, <1>b DEF FollowerWakes, Shapes, InOrder, Past
      <3>6. CASE FollowerSaves(i)
        BY <3>0, <3>6, <1>a DEF FollowerSaves, Shapes, InOrder, Past
      <3>7. QED
        BY <1>3, <3>1, <3>2, <3>3, <3>4, <3>5, <3>6
    <2>4. Shapes'
      BY <2>1, <2>2, <2>3 DEF Shapes
    <2>5. \A j \in Imports : Heeded(j)'
      <3>1. ASSUME NEW j \in Imports, task'[j] \notin {"none", "done"}
            PROVE  task[j] \notin {"none", "done"} /\ heard'[j] = heard[j]
        BY <2>1, <2>3, <3>1
      <3>2. QED
        BY <1>a, <2>1, <3>1 DEF Heeded
    <2>6. \A j \in Imports : InOrder(j)'
      <3>1. ASSUME NEW j \in Imports \ {i} PROVE InOrder(j)'
        BY <1>a, <2>1, <2>3 DEF InOrder
      <3>2. InOrder(i)'
        BY <2>3 DEF InOrder
      <3>3. QED
        BY <3>1, <3>2
    <2>7. QED
      BY <2>2, <2>4, <2>5, <2>6 DEF TellInv
  <1>4. CASE Reconfigure
    <2>1. /\ UNCHANGED <<task, failed, entries, said, follower, written, inflight, log, faults>>
          /\ reloads' = reloads + 1 /\ heard' = [i \in Imports |-> FALSE]
      BY <1>4 DEF Reconfigure, followVars
    <2>2. reloads' \in Nat /\ reloads' # 0
      BY <2>1 DEF Shapes
    <2>3. /\ said' \in [Imports -> Nat] /\ entries' \in [Imports -> Seq(Entry)]
          /\ \A i \in Imports : Told(i)'
          /\ \A i \in Imports : Len(entries[i]) <= Len(entries'[i])
      BY <1>c, <2>1, <2>2
    <2>4. Shapes'
      BY <2>1, <2>2, <2>3 DEF Shapes
    <2>5. \A i \in Imports : Heeded(i)' /\ InOrder(i)'
      BY <1>a, <2>1, <2>2 DEF Heeded, InOrder
    <2>6. QED
      BY <2>3, <2>4, <2>5 DEF TellInv
  <1>5. CASE Sweep \/ Web \/ UNCHANGED journalVars
    <2>1. UNCHANGED <<task, failed, captureVars, followVars, log, faults, reloads>>
      BY <1>5 DEF Sweep, Web, journalVars
    <2>2. /\ UNCHANGED <<task, failed, heard, entries, said, follower, written, inflight, log>>
          /\ UNCHANGED <<faults, reloads>>
      BY <2>1 DEF captureVars, followVars
    <2>3. Shapes'
      BY <2>2 DEF Shapes
    <2>4. TellInv'
      BY <2>2 DEF TellInv, Told, Heeded, InOrder
    <2>5. QED
      BY <1>b, <2>2, <2>3, <2>4
  <1>6. QED
    BY <1>1, <1>2, <1>3, <1>4, <1>5 DEF JournalNext, TaskStep, FollowerStep


-----------------------------------------------------------------------------
(* What is stored of them. *)

(* A save that is under way has no less than what is stored, and no more    *)
(* than the buffer.                                                         *)
Stored(i) ==
    /\ Own(i, log[i])
    /\ Own(i, inflight[i])
    /\ Len(log[i]) <= Len(entries[i])
    /\ follower[i] = "saving" =>
          Len(log[i]) <= Len(inflight[i]) /\ Len(inflight[i]) <= Len(entries[i])

(* With the last flush the whole buffer is stored. *)
Flushed(i) == task[i] \in Past /\ faults = 0 => log[i] = entries[i]

StoreInv == \A i \in Imports : Stored(i) /\ Flushed(i)

LEMMA StepsKeepStored ==
    ASSUME Shapes, TellInv, StoreInv, [JournalNext]_journalVars
    PROVE  /\ StoreInv'
           /\ \A i \in Imports : Len(log[i]) <= Len(log'[i])
           /\ \A i \in Imports : task[i] \in Past => log'[i] = log[i]
  <1> DEFINE Goal == /\ StoreInv'
                     /\ \A i \in Imports : Len(log[i]) <= Len(log'[i])
                     /\ \A i \in Imports : task[i] \in Past => log'[i] = log[i]
  <1>a. \A i \in Imports : Told(i) /\ InOrder(i) /\ Stored(i) /\ Flushed(i)
    BY DEF TellInv, StoreInv
  <1>b. \A i \in Imports : /\ Own(i, entries[i]) /\ Own(i, log[i]) /\ Own(i, inflight[i]) /\ Own(i, <<>>)
                           /\ Len(entries[i]) \in Nat /\ Len(log[i]) \in Nat
                           /\ Len(inflight[i]) \in Nat /\ Len(<<>>) = 0
    BY <1>a, ToldFacts, OwnFacts DEF Stored
  <1>c. Shapes' /\ TellInv' /\ \A i \in Imports : Len(entries[i]) <= Len(entries'[i])
    BY StepsKeepTelling
  <1>d. \A i \in Imports : Len(entries'[i]) \in Nat
    BY <1>c DEF Shapes
  <1>e. ASSUME NEW j \in Imports, log'[j] = log[j],
               inflight'[j] = inflight[j] \/ inflight'[j] = <<>>,
               follower'[j] = "saving" => follower[j] = "saving" /\ inflight'[j] = inflight[j],
               \/ task[j] \in Past /\ entries'[j] = entries[j]
               \/ faults' # 0
               \/ task'[j] \notin Past,
               faults' = 0 => faults = 0
        PROVE  Stored(j)' /\ Flushed(j)' /\ Len(log[j]) <= Len(log'[j])
    <2>1. Own(j, log'[j]) /\ Own(j, inflight'[j])
      BY <1>b, <1>e
    <2>2. Len(log[j]) <= Len(entries[j]) /\ Len(entries[j]) <= Len(entries'[j])
      BY <1>a, <1>c DEF Stored
    <2>3. Len(log'[j]) <= Len(entries'[j])
      BY <1>b, <1>d, <1>e, <2>2
    <2>4. ASSUME follower'[j] = "saving"
          PROVE  Len(log'[j]) <= Len(inflight'[j]) /\ Len(inflight'[j]) <= Len(entries'[j])
      <3>1. Len(log[j]) <= Len(inflight[j]) /\ Len(inflight[j]) <= Len(entries[j])
        BY <1>a, <1>e, <2>4 DEF Stored
      <3>2. QED
        BY <1>b, <1>d, <1>e, <2>2, <2>4, <3>1
    <2>5. Stored(j)'
      BY <2>1, <2>3, <2>4 DEF Stored
    <2>6. Flushed(j)'
      BY <1>a, <1>e DEF Flushed
    <2>7. QED
      BY <1>b, <1>e, <2>5, <2>6
  <1>1. ASSUME NEW i \in Imports,
               \/ Begin(i) \/ MuxSays(i) \/ MuxEnds(i) \/ FlushFails(i) \/ RecordFails(i)
               \/ FollowerFails(i)
        PROVE  Goal
    <2>1. /\ UNCHANGED log
          /\ faults' = 0 => faults = 0
          /\ task[i] \notin Past => task'[i] \notin Past \/ faults' # 0
          /\ task[i] \in Past => faults' # 0
          /\ \A j \in Imports : inflight'[j] = inflight[j] \/ inflight'[j] = <<>>
          /\ \A j \in Imports : follower'[j] = "saving" =>
                follower[j] = "saving" /\ inflight'[j] = inflight[j]
          /\ \A j \in Imports \ {i} : task'[j] = task[j]
      <3>1. CASE Begin(i) \/ MuxSays(i) \/ MuxEnds(i)
        BY <3>1 DEF Begin, MuxSays, MuxEnds, On, GoesOn, followVars, Shapes, Past
      <3>2. CASE FlushFails(i) \/ RecordFails(i)
        BY <3>2 DEF FlushFails, RecordFails, Fault, On, GoesOn, AfterFlush, followVars, Shapes, Past
      <3>3. CASE FollowerFails(i)
        BY <3>3, <1>a DEF FollowerFails, Fault, Shapes, InOrder, Past
      <3>4. QED
        BY <1>1, <3>1, <3>2, <3>3
    <2>2. \A j \in Imports \ {i} : entries'[j] = entries[j]
      BY <1>1 DEF Begin, MuxSays, MuxEnds, FlushFails, RecordFails, FollowerFails, Say, ForMe
    <2>3. ASSUME NEW j \in Imports PROVE Stored(j)' /\ Flushed(j)' /\ Len(log[j]) <= Len(log'[j])
      <3>1. CASE j = i
        BY <1>e, <2>1, <3>1
      <3>2. CASE j # i
        BY <1>e, <2>1, <2>2, <3>2
      <3>3. QED
        BY <3>1, <3>2
    <2>4. QED
      BY <2>1, <2>3 DEF StoreInv
  <1>2. ASSUME NEW i \in Imports, Record(i) \/ Settle(i) \/ FollowerWakes(i)
        PROVE  Goal
    <2>1. /\ UNCHANGED <<log, faults, entries>>
          /\ \A j \in Imports : task'[j] \in Past => task[j] \in Past
          /\ \A j \in Imports \ {i} : inflight'[j] = inflight[j] /\ follower'[j] = follower[j]
      BY <1>2 DEF Record, Settle, FollowerWakes, On, GoesOn, captureVars, followVars, Shapes, Past
    <2>2. ASSUME NEW j \in Imports \ {i}
          PROVE  Stored(j)' /\ Flushed(j)' /\ Len(log[j]) <= Len(log'[j])
      BY <1>e, <2>1
    <2>3. Stored(i)' /\ Flushed(i)' /\ Len(log[i]) <= Len(log'[i])
      <3>1. CASE FollowerWakes(i)
        <4>1. inflight'[i] = entries[i] /\ UNCHANGED task
          BY <3>1 DEF FollowerWakes, Shapes
        <4>2. Stored(i)'
          BY <1>a, <1>b, <2>1, <4>1 DEF Stored
        <4>3. QED
          BY <1>a, <1>b, <2>1, <4>1, <4>2 DEF Flushed
      <3>2. CASE Record(i) \/ Settle(i)
        <4>1. UNCHANGED <<inflight, follower>>
          BY <3>2 DEF Record, Settle, followVars
        <4>2. QED
          BY <1>e, <2>1, <4>1
      <3>3. QED
        BY <1>2, <3>1, <3>2
    <2>4. QED
      BY <2>1, <2>2, <2>3 DEF StoreInv
  <1>3. ASSUME NEW i \in Imports, Stop(i) \/ Flush(i) \/ FollowerSaves(i)
        PROVE  Goal
    <2>1. /\ UNCHANGED <<faults, entries>>
          /\ \A j \in Imports \ {i} : /\ task'[j] = task[j] /\ log'[j] = log[j]
                                        /\ inflight'[j] = inflight[j] /\ follower'[j] = follower[j]
      BY <1>3 DEF Stop, Flush, FollowerSaves, GoesOn, AfterFlush, captureVars, followVars, Shapes
    <2>2. ASSUME NEW j \in Imports \ {i}
          PROVE  Stored(j)' /\ Flushed(j)' /\ Len(log[j]) <= Len(log'[j])
      BY <1>e, <2>1
    <2>3. task[i] \notin Past
      <3>1. CASE FollowerSaves(i)
        BY <1>a, <3>1 DEF FollowerSaves, InOrder, Past
      <3>2. CASE Stop(i) \/ Flush(i)
        BY <3>2 DEF Stop, Flush, On, Past
      <3>3. QED
        BY <1>3, <3>1, <3>2
    <2>4. /\ follower'[i] # "saving"
          /\ inflight'[i] = inflight[i] \/ inflight'[i] = <<>>
          /\ \/ log'[i] = log[i]
             \/ log'[i] = entries[i]
             \/ log'[i] = inflight[i] /\ follower[i] = "saving"
          /\ task'[i] \in Past => log'[i] = entries[i]
      <3>1. CASE Stop(i)
        BY <3>1 DEF Stop, GoesOn, Shapes, Past
      <3>2. CASE Flush(i)
        <4>1. follower[i] = "off"
          BY <1>a, <3>2 DEF Flush, On, InOrder, Shapes
        <4>2. QED
          BY <3>2, <4>1 DEF Flush, followVars, Shapes
      <3>3. CASE FollowerSaves(i)
        BY <2>3, <3>3 DEF FollowerSaves, Shapes
      <3>4. QED
        BY <1>3, <3>1, <3>2, <3>3
    <2>5. /\ Own(i, log'[i]) /\ Own(i, inflight'[i])
          /\ Len(log[i]) <= Len(log'[i]) /\ Len(log'[i]) <= Len(entries[i])
      <3>1. Len(log[i]) <= Len(entries[i])
        BY <1>a DEF Stored
      <3>2. CASE log'[i] = log[i] \/ log'[i] = entries[i]
        BY <1>b, <2>4, <3>1, <3>2
      <3>3. CASE log'[i] = inflight[i] /\ follower[i] = "saving"
        <4>1. Len(log[i]) <= Len(inflight[i]) /\ Len(inflight[i]) <= Len(entries[i])
          BY <1>a, <3>3 DEF Stored
        <4>2. QED
          BY <1>b, <2>4, <3>3, <4>1
      <3>4. QED
        BY <2>4, <3>2, <3>3
    <2>6. Stored(i)' /\ Flushed(i)'
      BY <2>1, <2>4, <2>5 DEF Stored, Flushed
    <2>7. ASSUME NEW j \in Imports, task[j] \in Past PROVE log'[j] = log[j]
      BY <2>1, <2>3, <2>7
    <2>8. QED
      BY <2>2, <2>5, <2>6, <2>7 DEF StoreInv
  <1>4. CASE Reconfigure \/ Sweep \/ Web \/ UNCHANGED journalVars
    <2>1. UNCHANGED <<task, entries, follower, inflight, log, faults>>
      BY <1>4 DEF Reconfigure, Sweep, Web, journalVars, captureVars, followVars
    <2>2. StoreInv'
      BY <2>1 DEF StoreInv, Stored, Flushed
    <2>3. QED
      BY <1>b, <2>1, <2>2
  <1>5. QED
    BY <1>1, <1>2, <1>3, <1>4 DEF JournalNext, TaskStep, FollowerStep

(* What the operation of an import tells of it is no less than the job's    *)
(* copy.                                                                    *)
RecordedInv ==
    \A op \in operations : op.import \in Imports =>
        /\ task[op.import] \in {"settle", "done"}
        /\ Own(op.import, op.log)
        /\ Len(log[op.import]) <= Len(op.log)

LEMMA StepsKeepRecorded ==
    ASSUME Shapes, TellInv, StoreInv, RecordedInv, Pruned \subseteq operations,
           [JournalNext]_journalVars
    PROVE  RecordedInv'
  <1>1. /\ StoreInv'
        /\ \A i \in Imports : task[i] \in Past => log'[i] = log[i]
    BY StepsKeepStored
  <1>2. \A i \in Imports : task[i] \in {"settle", "done"} => task'[i] \in {"settle", "done"}
    <2>1. ASSUME NEW i \in Imports, TaskStep(i) \/ FollowerStep(i), NEW j \in Imports,
                 task[j] \in {"settle", "done"}
          PROVE  task'[j] \in {"settle", "done"}
      <3>1. CASE Settle(i)
        BY <2>1, <3>1 DEF Settle, GoesOn, Shapes
      <3>2. CASE j # i \/ FollowerStep(i)
        BY <2>1, <3>2 DEF TaskStep, Begin, MuxSays, MuxEnds, Stop, Flush, FlushFails, Record,
              RecordFails, Settle, AfterFlush, FollowerStep, FollowerWakes, FollowerSaves,
              FollowerFails, GoesOn, Shapes
      <3>3. CASE j = i /\ TaskStep(i) /\ ~ Settle(i)
        BY <2>1, <3>3 DEF TaskStep, Begin, MuxSays, MuxEnds, Stop, Flush, FlushFails, Record,
              RecordFails, On
      <3>4. QED
        BY <2>1, <3>1, <3>2, <3>3
    <2>2. CASE Reconfigure \/ Sweep \/ Web \/ UNCHANGED journalVars
      BY <2>2 DEF Reconfigure, Sweep, Web, journalVars
    <2>3. QED
      BY <2>1, <2>2 DEF JournalNext
  <1>3. ASSUME NEW op \in operations', op \in operations, op.import \in Imports
        PROVE  /\ task'[op.import] \in {"settle", "done"}
               /\ Own(op.import, op.log)
               /\ Len(log'[op.import]) <= Len(op.log)
    BY <1>1, <1>2, <1>3 DEF RecordedInv, Past
  <1>4. ASSUME NEW i \in Imports, Record(i)
        PROVE  RecordedInv'
    <2> DEFINE row == [id |-> NextId, import |-> i, log |-> entries[i]]
    <2>1. /\ operations' = operations \cup {row}
          /\ task'[i] = "settle" /\ log' = log
      BY <1>4 DEF Record, InsertOperation, GoesOn, Shapes
    <2>2. row.import = i /\ row.log = entries[i]
      OBVIOUS
    <2> HIDE DEF row
    <2>3. Own(i, entries[i]) /\ Len(log[i]) <= Len(entries[i])
      BY ToldFacts DEF TellInv, StoreInv, Stored
    <2>4. QED
      BY <1>3, <2>1, <2>2, <2>3 DEF RecordedInv
  <1>5. ASSUME operations' \subseteq operations
        PROVE  RecordedInv'
    BY <1>3, <1>5 DEF RecordedInv
  <1>6. operations' \subseteq operations \/ \E i \in Imports : Record(i)
    <2>1. CASE UNCHANGED historyVars
      BY <2>1 DEF historyVars
    <2>2. CASE Sweep
      BY <2>2 DEF Sweep, Prune
    <2>3. CASE Web
      BY <2>3 DEF Web, Walk, OpenHistory, CountRows, FetchRows, ClearHistory
    <2>4. QED
      BY <2>1, <2>2, <2>3, HistoryMoves DEF Recorded
  <1>7. QED
    BY <1>4, <1>5, <1>6

JournalInv == Shapes /\ TellInv /\ StoreInv /\ TableInv /\ WalkTypes /\ RecordedInv

LEMMA JournalStarts == JournalInit => JournalInv
  <1> SUFFICES ASSUME JournalInit PROVE JournalInv
    OBVIOUS
  <1>1. TableInv /\ WalkTypes
    BY HistoryStarts
  <1>2. Shapes
    <2>1. <<>> \in Seq(Entry) /\ 0 \in 0..Limit
      BY JournalAssumption
    <2>2. QED
      BY <2>1 DEF JournalInit, Shapes
  <1>3. ASSUME NEW i \in Imports
        PROVE  Told(i) /\ Heeded(i) /\ InOrder(i) /\ Stored(i) /\ Flushed(i)
    <2>1. /\ task[i] = "none" /\ heard[i] = FALSE /\ said[i] = 0 /\ entries[i] = <<>>
          /\ follower[i] = "off" /\ inflight[i] = <<>> /\ log[i] = <<>>
      BY <1>3 DEF JournalInit
    <2>2. Account(i, 0) = <<>>
      <3>1. Account(i, 0) \in Seq(Entry) /\ Len(Account(i, 0)) = 0
        BY AccountShape, JournalAssumption
      <3>2. QED
        BY <3>1
    <2>3. Told(i)
      BY <2>1, <2>2 DEF Told
    <2>4. Stored(i)
      BY <2>1, OwnFacts DEF Stored
    <2>5. QED
      BY <2>1, <2>3, <2>4 DEF Heeded, InOrder, Flushed, Past
  <1>4. RecordedInv
    BY JournalAssumption DEF JournalInit, HistoryInit, RecordedInv
  <1>5. QED
    BY <1>1, <1>2, <1>3, <1>4 DEF JournalInv, TellInv, StoreInv

LEMMA StepsKeepJournal == JournalInv /\ [JournalNext]_journalVars => JournalInv'
  <1> SUFFICES ASSUME JournalInv, [JournalNext]_journalVars PROVE JournalInv'
    OBVIOUS
  <1>1. Shapes' /\ TellInv' /\ StoreInv' /\ TableInv' /\ WalkTypes'
    BY StepsKeepTelling, StepsKeepStored, StepsKeepTable DEF JournalInv
  <1>2. RecordedInv'
    BY StepsKeepRecorded, PrunedFacts DEF JournalInv
  <1>3. QED
    BY <1>1, <1>2 DEF JournalInv

(* Buffers, logs and the table keep their types, and ids stay unique. *)
THEOREM JournalTypeCorrect == JournalSpec => []JournalTypeOK
  <1>1. JournalInv => JournalTypeOK
    BY DEF JournalInv, Shapes, TableInv, WalkTypes, JournalTypeOK, HistoryTypeOK
  <1>2. QED
    BY <1>1, JournalStarts, StepsKeepJournal, PTL DEF JournalSpec

(* Every log is the account of its own import, whatever fails and whoever   *)
(* else logs meanwhile, and the operation's copy is never behind the job's. *)
THEOREM AccountsAreWhole == JournalSpec => []AccountIsWhole
  <1>1. ASSUME JournalInv PROVE AccountIsWhole
    <2>1. ASSUME NEW i \in Imports
          PROVE  /\ \E n \in 0..said[i] : entries[i] = Account(i, n) /\ (reloads = 0 => n = said[i])
                 /\ task[i] \in Past /\ faults = 0 => log[i] = entries[i]
      BY <1>1 DEF JournalInv, TellInv, StoreInv, Told, Flushed
    <2>2. ASSUME NEW op \in operations, op.import \in Imports
          PROVE  IsPrefix(log[op.import], op.log)
      <3>1. Own(op.import, log[op.import]) /\ Own(op.import, op.log)
            /\ Len(log[op.import]) <= Len(op.log)
        BY <1>1, <2>2 DEF JournalInv, StoreInv, Stored, RecordedInv
      <3>2. QED
        BY <2>2, <3>1, OwnFacts
    <2>3. QED
      BY <2>1, <2>2 DEF AccountIsWhole
  <1>2. QED
    BY <1>1, JournalStarts, StepsKeepJournal, PTL DEF JournalSpec

(* No write of a log, of the follower or of the end, takes an entry back.   *)
THEOREM LogsOnlyGrow == JournalSpec => LogOnlyGrows
  <1>1. ASSUME JournalInv, [JournalNext]_journalVars, NEW i \in Imports
        PROVE  IsPrefix(log[i], log'[i])
    <2>1. Own(i, log[i]) /\ Own(i, log'[i]) /\ Len(log[i]) <= Len(log'[i])
      BY <1>1, StepsKeepStored DEF JournalInv, StoreInv, Stored
    <2>2. QED
      BY <2>1, OwnFacts
  <1>2. ASSUME JournalInv, [JournalNext]_journalVars
        PROVE  [\A i \in Imports : IsPrefix(log[i], log'[i])]_journalVars
    BY <1>1, <1>2
  <1>3. QED
    BY <1>2, JournalStarts, StepsKeepJournal, PTL DEF JournalSpec, LogOnlyGrows

=============================================================================
