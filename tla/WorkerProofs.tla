----------------------------- MODULE WorkerProofs -----------------------------
(***************************************************************************)
(* Theorems about Worker, for any number of imports, slots, kills and      *)
(* failing statements, any page size and any length of the history.        *)
(***************************************************************************)
EXTENDS Worker, JobTableProofs, SequenceTheorems

LEMMA TrimmedIsSuffix ==
    ASSUME NEW S, NEW h \in Seq(S)
    PROVE  /\ Trimmed(h) \in Seq(S)
           /\ \E k \in Nat : \A n \in 1..Len(Trimmed(h)) :
                 n + k \in 1..Len(h) /\ Trimmed(h)[n] = h[n + k]
  <1> DEFINE m == Len(h) - HistoryMax + 1
  <1>1. CASE HistoryMax = 0 \/ Len(h) <= HistoryMax
    <2>1. Trimmed(h) = h
      BY <1>1 DEF Trimmed
    <2>2. \A n \in 1..Len(h) : n + 0 \in 1..Len(h) /\ h[n] = h[n + 0]
      OBVIOUS
    <2>3. QED
      BY <2>1, <2>2
  <1>2. CASE ~ (HistoryMax = 0 \/ Len(h) <= HistoryMax)
    <2>1. Trimmed(h) = SubSeq(h, m, Len(h)) /\ m \in 1..Len(h)
      BY <1>2, WorkerAssumption DEF Trimmed
    <2>2. /\ SubSeq(h, m, Len(h)) \in Seq(S)
          /\ Len(SubSeq(h, m, Len(h))) = Len(h) - m + 1
          /\ \A n \in 1..Len(h) - m + 1 : SubSeq(h, m, Len(h))[n] = h[n + (m - 1)]
      BY <2>1, SubSeqProperties
    <2>3. m - 1 \in Nat /\ Len(Trimmed(h)) = Len(h) - (m - 1)
      BY <2>1, <2>2
    <2> HIDE DEF m
    <2>4. \A n \in 1..Len(Trimmed(h)) :
             n + (m - 1) \in 1..Len(h) /\ Trimmed(h)[n] = h[n + (m - 1)]
      BY <2>1, <2>2, <2>3
    <2>5. QED
      BY <2>1, <2>2, <2>3, <2>4
  <1>3. QED
    BY <1>1, <1>2

-----------------------------------------------------------------------------
(* A task belongs to a running row, a staging file to a task, and a task to *)
(* a worker that serves.                                                    *)
TaskInv ==
    /\ \A j \in Jobs : task[j] # "none" => rows[j].state = "running"
    /\ \A j \in Jobs : staging[j] => task[j] = "mux"
    /\ pc \notin Serving => \A j \in Jobs : task[j] = "none"

(* The rows of a process that started with a clean slate. *)
CleanInv ==
    clean =>
        /\ pc \in Serving => \A j \in Jobs : rows[j].state = "running" => task[j] # "none"
        /\ pc \in {"discard", "exited"} => \A j \in Jobs : rows[j].state # "running"

(* Where the staging files of killed tasks can still be found: their rows   *)
(* are running, or they are being discarded.                                *)
LeftInv ==
    /\ \A j \in left \ missed :
          /\ task[j] = "none"
          /\ rows[j].state = "running" \/ (pc = "discard" /\ j \in listed)
    /\ clean /\ pc \in Serving => left \subseteq missed

(* A rescue follows a failing statement. *)
RescueInv == \A j \in Jobs : task[j] = "rescue" => faults >= 1

CoreInv == TaskInv /\ CleanInv /\ LeftInv /\ RescueInv

(* A submission that has not been recorded yet is not in the history.       *)
RecordInv ==
    /\ \A n \in 1..Len(history) : history[n][2] <= born[history[n][1]]
    /\ \A j \in Jobs :
          rows[j].state = "pending" \/ task[j] \in {"mux", "record"} =>
              \A n \in 1..Len(history) : history[n] # <<j, born[j]>>
    /\ RecordedOnce

LEMMA InitHolds == Init => TypeOK /\ CoreInv /\ RecordInv
  <1> SUFFICES ASSUME Init PROVE TypeOK /\ CoreInv /\ RecordInv
    OBVIOUS
  <1> USE DEF Init, TableInit
  <1>1. TypeOK
    <2>1. stop \in BOOLEAN /\ clean \in BOOLEAN /\ staging \in [Jobs -> BOOLEAN]
      BY Zenon
    <2>2. history \in Seq(Jobs \X Nat)
      OBVIOUS
    <2>3. QED
      BY <2>1, <2>2 DEF TypeOK, TableTypeOK, StartUp, Serving, Gone, Outcomes
  <1>2. CoreInv
    BY DEF CoreInv, TaskInv, CleanInv, LeftInv, RescueInv, Serving, NoRow
  <1>3. RecordInv
    BY DEF RecordInv, RecordedOnce, NoRow
  <1>4. QED
    BY <1>1, <1>2, <1>3

LEMMA FaultTypes ==
    ASSUME TypeOK, Fault
    PROVE  /\ faults' = faults + 1 /\ faults' \in Nat /\ crashes' \in Nat
           /\ clean' = FALSE /\ left' = left /\ missed' = missed
  BY DEF TypeOK, Fault, diskVars

LEMMA LoopTyped == ASSUME TypeOK, LoopStep \/ Boot PROVE TypeOK'
  <1> USE FaultTypes DEF TypeOK, StartUp, Serving, Gone, At, Goto, AfterFill,
          loopVars, taskVars, diskVars, eventVars, tableVars
  <1>1. CASE Boot
    BY <1>1 DEF Boot, TableTypeOK
  <1>2. CASE ListRunning
    BY <1>2 DEF ListRunning, NewestRunning, InState, TableTypeOK
  <1>3. CASE FailStale
    BY <1>3, FailRunningType DEF FailStale
  <1>4. ASSUME NEW j \in Jobs, Discard(j) PROVE TypeOK'
    BY <1>4 DEF Discard, TableTypeOK
  <1>5. CASE Reconciled BY <1>5 DEF Reconciled, TableTypeOK
  <1>6. CASE ReconcileFails BY <1>6 DEF ReconcileFails, TableTypeOK
  <1>7. CASE LoopTop BY <1>7 DEF LoopTop, TableTypeOK
  <1>8. CASE AskForJob BY <1>8 DEF AskForJob, TableTypeOK
  <1>9. CASE SlotsFull BY <1>9 DEF SlotsFull, TableTypeOK
  <1>10. ASSUME NEW j \in Jobs, Claim(j) PROVE TypeOK'
    BY <1>10, ClaimRowType DEF Claim
  <1>11. ASSUME NEW j \in Jobs, ClaimReadBackFails(j) PROVE TypeOK'
    BY <1>11, ClaimRowType DEF ClaimReadBackFails
  <1>12. CASE NothingPending BY <1>12 DEF NothingPending, TableTypeOK
  <1>13. CASE ClaimFails BY <1>13 DEF ClaimFails, TableTypeOK
  <1>14. CASE Wake BY <1>14 DEF Wake, TableTypeOK
  <1>15. CASE IdleOver BY <1>15 DEF IdleOver, TableTypeOK
  <1>16. CASE SweepJobs BY <1>16, PruneRowsType DEF SweepJobs
  <1>17. CASE SweepHistory BY <1>17, TrimmedIsSuffix DEF SweepHistory, TableTypeOK
  <1>18. CASE SweepFails BY <1>18 DEF SweepFails, TableTypeOK
  <1>19. CASE Drained BY <1>19 DEF Drained, TableTypeOK
  <1>20. QED
    BY <1>1, <1>2, <1>3, <1>4, <1>5, <1>6, <1>7, <1>8, <1>9, <1>10, <1>11, <1>12, <1>13,
       <1>14, <1>15, <1>16, <1>17, <1>18, <1>19 DEF LoopStep

LEMMA TaskTyped == ASSUME TypeOK, NEW j \in Jobs, TaskStep(j) PROVE TypeOK'
  <1> USE FaultTypes DEF TypeOK, Advance, Ends,
          loopVars, taskVars, diskVars, eventVars, tableVars
  <1>1. CASE Stage(j) BY <1>1 DEF Stage, TableTypeOK
  <1>2. CASE MuxEnds(j)
    <2>1. CASE MuxRaises(j)
      BY <2>1 DEF MuxRaises, TableTypeOK
    <2>2. ASSUME NEW o \in Outcomes, MuxReturns(j, o) PROVE TypeOK'
      BY <2>2 DEF MuxReturns, TableTypeOK
    <2>3. QED
      BY <1>2, <2>1, <2>2 DEF MuxEnds
  <1>3. CASE Record(j)
    <2>1. <<j, born[j]>> \in Jobs \X Nat
      BY DEF TableTypeOK
    <2>2. Append(history, <<j, born[j]>>) \in Seq(Jobs \X Nat)
      BY <2>1
    <2>3. QED
      BY <1>3, <2>2 DEF Record, TableTypeOK
  <1>4. CASE StoreSuccess(j)
    BY <1>4, FinishRowType DEF StoreSuccess, SucceedRow, Settled, Outcomes
  <1>5. CASE StoreFailure(j)
    BY <1>5, FinishRowType DEF StoreFailure, FailRow, Settled, Outcomes
  <1>6. CASE StoreFails(j) BY <1>6 DEF StoreFails, TableTypeOK
  <1>7. CASE Rescue(j)
    BY <1>7, FinishRowType DEF Rescue, FailRow, Settled, Outcomes
  <1>8. CASE RescueFails(j) BY <1>8 DEF RescueFails, TableTypeOK, Outcomes
  <1>9. QED
    BY <1>1, <1>2, <1>3, <1>4, <1>5, <1>6, <1>7, <1>8 DEF TaskStep

LEMMA OthersTyped ==
    ASSUME TypeOK, (\E j \in Jobs : Submit(j)) \/ Signal \/ Kill \/ Tick \/ UNCHANGED vars
    PROVE  TypeOK'
  <1> USE DEF TypeOK, StartUp, Serving, Gone, At, Goto,
          loopVars, taskVars, diskVars, eventVars, tableVars
  <1>1. ASSUME NEW j \in Jobs, Submit(j) PROVE TypeOK'
    BY <1>1, InsertRowType DEF Submit
  <1>2. CASE Signal BY <1>2 DEF Signal, TableTypeOK
  <1>3. CASE Kill
    <2>1. stop' \in BOOLEAN /\ clean' \in BOOLEAN
      BY <1>3, Zenon DEF Kill
    <2>2. task' \in [Jobs -> {"none", "mux", "record", "succeed", "fail", "rescue"}]
      BY <1>3 DEF Kill
    <2>3. missed' \subseteq left' /\ left' \subseteq Jobs
      BY <1>3 DEF Kill
    <2>4. QED
      BY <1>3, <2>1, <2>2, <2>3 DEF Kill, TableTypeOK, Outcomes
  <1>4. CASE Tick BY <1>4 DEF Tick, AdvanceClock, TableTypeOK
  <1>5. CASE UNCHANGED vars BY <1>5 DEF vars, TableTypeOK
  <1>6. QED
    BY <1>1, <1>2, <1>3, <1>4, <1>5

(* Rows, tasks and the history keep their types. *)
THEOREM TypeCorrect == Spec => []TypeOK
  <1>1. TypeOK /\ [Next]_vars => TypeOK'
    BY LoopTyped, TaskTyped, OthersTyped DEF Next
  <1>2. QED
    BY <1>1, InitHolds, PTL DEF Spec

-----------------------------------------------------------------------------

(* A step that leaves rows and tasks alone and stays in the loop, on its    *)
(* way to it, or out of it.                                                 *)
LEMMA MovesKeepCore ==
    ASSUME TypeOK, CoreInv, UNCHANGED <<rows, task, staging, left, missed>>,
           faults' \in Nat, faults' >= faults, clean' => clean,
           \/ pc' = pc /\ listed' = listed
           \/ pc \in Serving /\ pc' \in Serving
           \/ pc \in {"reconcile", "failrun"} /\ pc' = "failrun"
           \/ pc \in {"reconcile", "failrun"} /\ pc' = "loop" /\ ~ clean'
    PROVE  CoreInv'
  <1> USE DEF CoreInv, Serving
  <1>1. TaskInv' BY DEF TaskInv
  <1>2. CleanInv' BY DEF CleanInv
  <1>3. LeftInv' BY DEF LeftInv
  <1>4. RescueInv' BY DEF RescueInv, TypeOK
  <1>5. QED
    BY <1>1, <1>2, <1>3, <1>4

LEMMA LoopKeepsCore == ASSUME TypeOK, CoreInv, LoopStep \/ Boot PROVE CoreInv'
  <1> TableTypeOK /\ faults \in Nat
    BY DEF TypeOK
  <1> USE DEF tableVars, taskVars, diskVars, eventVars, At, Goto
  <1>1. CASE Boot
    BY <1>1 DEF Boot, CoreInv, TaskInv, CleanInv, LeftInv, RescueInv, Serving, Gone
  <1>2. CASE ListRunning
    BY <1>2, MovesKeepCore DEF ListRunning, TypeOK
  <1>3. CASE FailStale
    <2>1. \A k \in Jobs :
             rows'[k].state = IF rows[k].state = "running" THEN "failed" ELSE rows[k].state
      BY <1>3, FailRunningStates DEF FailStale
    <2>2. QED
      BY <1>3, <2>1 DEF FailStale, CoreInv, TaskInv, CleanInv, LeftInv, RescueInv, Serving,
                        InState, TypeOK
  <1>4. ASSUME NEW j \in Jobs, Discard(j) PROVE CoreInv'
    BY <1>4 DEF Discard, CoreInv, TaskInv, CleanInv, LeftInv, RescueInv, Serving
  <1>5. CASE Reconciled
    BY <1>5 DEF Reconciled, CoreInv, TaskInv, CleanInv, LeftInv, RescueInv, Serving, TypeOK
  <1>6. CASE ReconcileFails BY <1>6, FaultTypes, MovesKeepCore DEF ReconcileFails
  <1>7. CASE LoopTop BY <1>7, MovesKeepCore DEF LoopTop, Serving
  <1>8. CASE AskForJob BY <1>8, MovesKeepCore DEF AskForJob, Serving
  <1>9. CASE SlotsFull BY <1>9, MovesKeepCore DEF SlotsFull, AfterFill, Serving
  <1>10. ASSUME NEW j \in Jobs, Claim(j) PROVE CoreInv'
    <2>1. /\ rows[j].state = "pending"
          /\ \A k \in Jobs : rows'[k].state = IF k = j THEN "running" ELSE rows[k].state
      BY <1>10, ClaimRowStates DEF Claim
    <2>2. \A k \in Jobs : task'[k] = IF k = j THEN "mux" ELSE task[k]
      BY <1>10 DEF Claim, TypeOK
    <2>3. /\ pc = "claiming" /\ pc' = "fill"
          /\ UNCHANGED <<staging, left, missed, faults, clean>>
      BY <1>10 DEF Claim
    <2>4. TaskInv' /\ CleanInv'
      BY <2>1, <2>2, <2>3 DEF CoreInv, TaskInv, CleanInv, Serving
    <2>5. LeftInv' /\ RescueInv'
      BY <2>1, <2>2, <2>3 DEF CoreInv, LeftInv, RescueInv, TypeOK, Serving
    <2>6. QED
      BY <2>4, <2>5 DEF CoreInv
  <1>11. ASSUME NEW j \in Jobs, ClaimReadBackFails(j) PROVE CoreInv'
    <2>1. /\ rows[j].state = "pending"
          /\ \A k \in Jobs : rows'[k].state = IF k = j THEN "running" ELSE rows[k].state
      BY <1>11, ClaimRowStates DEF ClaimReadBackFails
    <2>2. /\ UNCHANGED <<task, staging, left, missed>>
          /\ pc = "claiming" /\ pc' \in {"idle", "wait"}
          /\ faults' = faults + 1 /\ ~ clean'
      BY <1>11, FaultTypes DEF ClaimReadBackFails, AfterFill
    <2>3. TaskInv' /\ CleanInv'
      BY <2>1, <2>2 DEF CoreInv, TaskInv, CleanInv, Serving
    <2>4. LeftInv' /\ RescueInv'
      BY <2>1, <2>2 DEF CoreInv, LeftInv, RescueInv, TypeOK
    <2>5. QED
      BY <2>3, <2>4 DEF CoreInv
  <1>12. CASE NothingPending BY <1>12, MovesKeepCore DEF NothingPending, AfterFill, Serving
  <1>13. CASE ClaimFails BY <1>13, FaultTypes, MovesKeepCore DEF ClaimFails, AfterFill, Serving
  <1>14. CASE Wake BY <1>14, MovesKeepCore DEF Wake, Serving
  <1>15. CASE IdleOver BY <1>15, MovesKeepCore DEF IdleOver, Serving
  <1>16. CASE SweepJobs
    <2>1. \A k \in Jobs :
             \/ rows'[k].state = rows[k].state
             \/ rows[k].state \in Settled /\ rows'[k].state = "absent"
      BY <1>16, PruneRowsStates DEF SweepJobs
    <2>2. QED
      BY <1>16, <2>1 DEF SweepJobs, Settled, CoreInv, TaskInv, CleanInv, LeftInv, RescueInv,
                         Serving, TypeOK
  <1>17. CASE SweepHistory BY <1>17, MovesKeepCore DEF SweepHistory, Serving
  <1>18. CASE SweepFails BY <1>18, FaultTypes, MovesKeepCore DEF SweepFails, Serving
  <1>19. CASE Drained
    BY <1>19 DEF Drained, Running, CoreInv, TaskInv, CleanInv, LeftInv, RescueInv, Serving
  <1>20. QED
    BY <1>1, <1>2, <1>3, <1>4, <1>5, <1>6, <1>7, <1>8, <1>9, <1>10, <1>11, <1>12, <1>13,
       <1>14, <1>15, <1>16, <1>17, <1>18, <1>19 DEF LoopStep

(* A task goes on, or ends, and its row with it unless a statement failed.  *)
LEMMA TaskMoves ==
    ASSUME TypeOK, CoreInv, NEW j \in Jobs, task[j] # "none",
           \A k \in Jobs \ {j} :
              /\ task'[k] = task[k]
              /\ rows'[k].state = rows[k].state
              /\ staging'[k] = staging[k],
           staging'[j] => task'[j] = "mux",
           UNCHANGED <<pc, listed, left, missed>>,
           faults' \in Nat, faults' >= faults, clean' => clean,
           task'[j] # "none" => rows'[j].state = "running",
           task'[j] = "none" => rows'[j].state # "running" \/ ~ clean',
           task'[j] = "rescue" => faults' >= 1
    PROVE  CoreInv'
  <1> faults \in Nat /\ left \subseteq Jobs
    BY DEF TypeOK
  <1>1. TaskInv' BY DEF CoreInv, TaskInv
  <1>2. CleanInv' BY DEF CoreInv, CleanInv, TaskInv, Serving
  <1>3. LeftInv' BY DEF CoreInv, LeftInv
  <1>4. RescueInv' BY DEF CoreInv, RescueInv
  <1>5. QED
    BY <1>1, <1>2, <1>3, <1>4 DEF CoreInv

(* It settles its row. *)
LEMMA TaskSettles ==
    ASSUME TypeOK, CoreInv, NEW j \in Jobs, NEW s, NEW o, FinishRow(j, s, o), s # "running",
           task[j] \notin {"none", "mux"}, task' = [task EXCEPT ![j] = "none"],
           UNCHANGED <<pc, listed, staging, left, missed, clean, faults>>
    PROVE  CoreInv'
  <1>1. TableTypeOK /\ task \in [Jobs -> {"none", "mux", "record", "succeed", "fail", "rescue"}]
        /\ faults \in Nat
    BY DEF TypeOK
  <1>2. rows[j].state = "running" /\ ~ staging[j]
    BY DEF CoreInv, TaskInv
  <1>3. \A k \in Jobs : /\ task'[k] = IF k = j THEN "none" ELSE task[k]
                        /\ rows'[k].state = IF k = j THEN s ELSE rows[k].state
    BY <1>1, <1>2, FinishRowStates
  <1>4. QED
    BY <1>1, <1>2, <1>3, TaskMoves

LEMMA TaskKeepsCore == ASSUME TypeOK, CoreInv, NEW j \in Jobs, TaskStep(j) PROVE CoreInv'
  <1> /\ faults \in Nat
      /\ task \in [Jobs -> {"none", "mux", "record", "succeed", "fail", "rescue"}]
      /\ staging \in [Jobs -> BOOLEAN]
    BY DEF TypeOK
  <1> USE DEF tableVars, loopVars, diskVars, eventVars, Advance, Ends
  <1>1. /\ task[j] # "none" => rows[j].state = "running"
        /\ staging[j] => task[j] = "mux"
    BY DEF CoreInv, TaskInv
  <1>2. CASE Stage(j)
    <2>1. /\ task[j] = "mux" /\ \A k \in Jobs \ {j} : staging'[k] = staging[k]
          /\ UNCHANGED <<rows, task, pc, listed, left, missed, faults, clean>>
      BY <1>2 DEF Stage
    <2>2. QED
      BY <1>1, <2>1, TaskMoves
  <1>3. CASE MuxEnds(j)
    <2>1. /\ task[j] = "mux" /\ staging' = [staging EXCEPT ![j] = FALSE]
          /\ \E to \in {"record", "fail"} : task' = [task EXCEPT ![j] = to]
      BY <1>3 DEF MuxEnds, MuxRaises, MuxReturns
    <2>2. UNCHANGED <<rows, pc, listed, left, missed, faults, clean>>
      BY <1>3 DEF MuxEnds, MuxRaises, MuxReturns
    <2>3. /\ \A k \in Jobs \ {j} : staging'[k] = staging[k] /\ task'[k] = task[k]
          /\ ~ staging'[j] /\ task'[j] \in {"record", "fail"} /\ task[j] # "none"
      BY <2>1
    <2>4. QED
      BY <1>1, <2>2, <2>3, TaskMoves
  <1>4. CASE Record(j)
    <2>1. /\ task[j] = "record" /\ task' = [task EXCEPT ![j] = "succeed"]
          /\ UNCHANGED <<rows, pc, listed, staging>>
          /\ UNCHANGED <<left, missed, faults, clean>> \/ Fault
      BY <1>4 DEF Record
    <2>2. /\ UNCHANGED <<left, missed>> /\ faults' \in Nat /\ faults' >= faults
          /\ clean' => clean
      <3>1. CASE UNCHANGED <<left, missed, faults, clean>>
        BY <3>1
      <3>2. CASE Fault
        <4>1. UNCHANGED <<left, missed>> /\ faults' \in Nat /\ faults' >= faults
          BY <3>2, FaultTypes
        <4>2. ~ clean'
          BY <3>2, FaultTypes
        <4>3. QED
          BY <4>1, <4>2
      <3>3. QED
        BY <2>1, <3>1, <3>2
    <2>3. /\ \A k \in Jobs \ {j} : task'[k] = task[k]
          /\ task'[j] = "succeed" /\ ~ staging'[j]
      BY <1>1, <2>1
    <2>4. QED
      BY <1>1, <2>1, <2>2, <2>3, TaskMoves
  <1>5. CASE StoreSuccess(j) BY <1>5, TaskSettles DEF StoreSuccess, SucceedRow
  <1>6. CASE StoreFailure(j) BY <1>6, TaskSettles DEF StoreFailure, FailRow
  <1>7. CASE Rescue(j) BY <1>7, TaskSettles DEF Rescue, FailRow
  <1>8. ASSUME NEW to \in {"rescue", "none"}, task[j] \notin {"none", "mux"}, Fault,
               task' = [task EXCEPT ![j] = to], UNCHANGED <<rows, pc, listed, staging>>
        PROVE  CoreInv'
    <2>1. /\ UNCHANGED <<left, missed>>
          /\ faults' \in Nat /\ faults' >= faults /\ faults' >= 1
      BY <1>8, FaultTypes
    <2>2. ~ clean'
      BY <1>8, FaultTypes
    <2>3. /\ \A k \in Jobs \ {j} : task'[k] = task[k]
          /\ task'[j] = to /\ ~ staging'[j]
      BY <1>1, <1>8
    <2>4. QED
      BY <1>1, <1>8, <2>1, <2>2, <2>3, TaskMoves
  <1>9. CASE StoreFails(j) BY <1>9, <1>8 DEF StoreFails
  <1>10. CASE RescueFails(j) BY <1>10, <1>8 DEF RescueFails
  <1>11. QED
    BY <1>2, <1>3, <1>4, <1>5, <1>6, <1>7, <1>9, <1>10 DEF TaskStep

LEMMA OthersKeepCore ==
    ASSUME TypeOK, CoreInv,
           (\E j \in Jobs : Submit(j)) \/ Signal \/ Kill \/ Tick \/ UNCHANGED vars
    PROVE  CoreInv'
  <1> TableTypeOK /\ faults \in Nat
    BY DEF TypeOK
  <1> USE DEF tableVars, loopVars, taskVars, diskVars, eventVars
  <1>1. ASSUME NEW j \in Jobs, Submit(j) PROVE CoreInv'
    <2>1. /\ rows[j].state = "absent"
          /\ \A k \in Jobs : rows'[k].state = IF k = j THEN "pending" ELSE rows[k].state
      BY <1>1, InsertRowStates DEF Submit
    <2>2. QED
      BY <1>1, <2>1 DEF Submit, CoreInv, TaskInv, CleanInv, LeftInv, RescueInv, TypeOK
  <1>2. CASE Signal BY <1>2, MovesKeepCore DEF Signal
  <1>3. CASE Kill
    <2>1. \A k \in Jobs : task'[k] = "none" /\ ~ staging'[k]
      BY <1>3 DEF Kill
    <2>2. QED
      BY <1>3, <2>1 DEF Kill, At, Goto, CoreInv, TaskInv, CleanInv, LeftInv, RescueInv,
                        Serving, Gone, TypeOK
  <1>4. CASE Tick BY <1>4, MovesKeepCore DEF Tick, AdvanceClock
  <1>5. CASE UNCHANGED vars BY <1>5, MovesKeepCore DEF vars
  <1>6. QED
    BY <1>1, <1>2, <1>3, <1>4, <1>5

LEMMA CoreKept == Spec => []CoreInv
  <1>1. TypeOK /\ CoreInv /\ [Next]_vars => CoreInv'
    BY LoopKeepsCore, TaskKeepsCore, OthersKeepCore DEF Next
  <1>2. QED
    BY <1>1, InitHolds, TypeCorrect, PTL DEF Spec

-----------------------------------------------------------------------------

(* A step that records nothing: no row becomes pending, and no task has its *)
(* record still to come but that of a claimed row.                          *)
LEMMA ElsewhereKeepsRecords ==
    ASSUME RecordInv, UNCHANGED <<history, born>>,
           \A j \in Jobs :
              /\ rows'[j].state = "pending" => rows[j].state = "pending"
              /\ task'[j] \in {"mux", "record"} =>
                     task[j] \in {"mux", "record"} \/ rows[j].state = "pending"
    PROVE  RecordInv'
  BY DEF RecordInv, RecordedOnce

LEMMA SubmitKeepsRecords ==
    ASSUME TypeOK, CoreInv, RecordInv, NEW j \in Jobs, Submit(j)
    PROVE  RecordInv'
  <1>1. /\ history \in Seq(Jobs \X Nat)
        /\ \A k \in Jobs : born[k] \in Nat
    BY DEF TypeOK, TableTypeOK
  <1>2. /\ rows[j].state = "absent"
        /\ \A k \in Jobs : /\ rows'[k].state = IF k = j THEN "pending" ELSE rows[k].state
                           /\ born'[k] = IF k = j THEN born[k] + 1 ELSE born[k]
    BY InsertRowStates DEF Submit, TypeOK
  <1>3. UNCHANGED <<history, task>>
    BY DEF Submit, taskVars
  <1>4. task[j] = "none"
    BY <1>2 DEF CoreInv, TaskInv
  <1>5. \A n \in 1..Len(history) :
           /\ history[n][1] \in Jobs /\ history[n][2] \in Nat
           /\ history[n][2] <= born[history[n][1]]
    BY <1>1 DEF RecordInv
  <1>6. \A n \in 1..Len(history) : history'[n][2] <= born'[history'[n][1]]
    BY <1>1, <1>2, <1>3, <1>5
  <1>7. ASSUME NEW k \in Jobs, rows'[k].state = "pending" \/ task'[k] \in {"mux", "record"}
        PROVE  \A n \in 1..Len(history') : history'[n] # <<k, born'[k]>>
    <2>1. CASE k = j
      BY <2>1, <1>1, <1>2, <1>3, <1>5
    <2>2. CASE k # j
      BY <2>2, <1>2, <1>3, <1>7 DEF RecordInv
    <2>3. QED
      BY <2>1, <2>2
  <1>8. QED
    BY <1>3, <1>6, <1>7 DEF RecordInv, RecordedOnce

LEMMA RecordKeepsRecords ==
    ASSUME TypeOK, CoreInv, RecordInv, NEW j \in Jobs, Record(j)
    PROVE  RecordInv'
  <1> DEFINE new == <<j, born[j]>>
  <1>1. history \in Seq(Jobs \X Nat) /\ new \in Jobs \X Nat
        /\ task \in [Jobs -> {"none", "mux", "record", "succeed", "fail", "rescue"}]
    BY DEF TypeOK, TableTypeOK
  <1>2. UNCHANGED <<rows, born>> /\ task[j] = "record" /\ task' = [task EXCEPT ![j] = "succeed"]
    BY DEF Record, Advance, tableVars
  <1>3. \A k \in Jobs : task'[k] = IF k = j THEN "succeed" ELSE task[k]
    BY <1>1, <1>2
  <1>4. CASE UNCHANGED history
    BY <1>2, <1>3, <1>4, ElsewhereKeepsRecords
  <1>5. CASE history' = Append(history, new)
    <2>1. \A n \in 1..Len(history) : history[n] # new
      BY <1>2 DEF RecordInv
    <2>2. /\ Len(history') = Len(history) + 1 /\ Len(history) \in Nat
          /\ \A n \in 1..Len(history) : history'[n] = history[n]
          /\ history'[Len(history) + 1] = new
      BY <1>1, <1>5
    <2>3. rows[j].state # "pending"
      BY <1>2 DEF CoreInv, TaskInv
    <2>4. born[j] \in Nat /\ new[1] = j /\ new[2] = born[j]
      BY DEF TypeOK, TableTypeOK
    <2>5. \A k \in Jobs : k # j => <<k, born[k]>> # new
      OBVIOUS
    <2> HIDE DEF new
    <2>6. ASSUME NEW n \in 1..Len(history')
          PROVE  history'[n][2] <= born'[history'[n][1]]
      BY <2>2, <2>4, <1>2 DEF RecordInv
    <2>7. ASSUME NEW k \in Jobs, rows'[k].state = "pending" \/ task'[k] \in {"mux", "record"}
          PROVE  \A n \in 1..Len(history') : history'[n] # <<k, born'[k]>>
      <3>1. k # j /\ (rows[k].state = "pending" \/ task[k] \in {"mux", "record"})
        BY <2>3, <2>7, <1>2, <1>3
      <3>2. \A n \in 1..Len(history) : history[n] # <<k, born[k]>>
        BY <3>1 DEF RecordInv
      <3>3. new # <<k, born[k]>> /\ born' = born
        BY <3>1, <2>5, <1>2
      <3>4. \A n \in 1..Len(history') : n \in 1..Len(history) \/ n = Len(history) + 1
        BY <2>2
      <3>5. \A n \in 1..Len(history') : history'[n] # <<k, born[k]>>
        BY <3>2, <3>3, <3>4, <2>2, Zenon
      <3>6. QED
        BY <3>3, <3>5
    <2>8. RecordedOnce'
      BY <2>1, <2>2 DEF RecordInv, RecordedOnce
    <2>9. QED
      BY <2>6, <2>7, <2>8 DEF RecordInv
  <1>6. QED
    BY <1>4, <1>5 DEF Record

LEMMA SweepKeepsRecords ==
    ASSUME TypeOK, RecordInv, SweepHistory
    PROVE  RecordInv'
  <1>1. history \in Seq(Jobs \X Nat)
    BY DEF TypeOK
  <1>2. UNCHANGED <<rows, born, task>> /\ history' = Trimmed(history)
    BY DEF SweepHistory, tableVars
  <1>3. PICK k \in Nat : \A n \in 1..Len(history') :
                            n + k \in 1..Len(history) /\ history'[n] = history[n + k]
    BY <1>1, <1>2, TrimmedIsSuffix
  <1>4. RecordedOnce'
    BY <1>3 DEF RecordInv, RecordedOnce
  <1>5. QED
    BY <1>2, <1>3, <1>4 DEF RecordInv

LEMMA StepsKeepRecords == ASSUME TypeOK, CoreInv, RecordInv, [Next]_vars PROVE RecordInv'
  <1> TableTypeOK
    BY DEF TypeOK
  <1> /\ task \in [Jobs -> {"none", "mux", "record", "succeed", "fail", "rescue"}]
    BY DEF TypeOK
  <1> USE DEF tableVars, taskVars
  <1>1. CASE Boot \/ Signal \/ Tick \/ UNCHANGED vars
    BY <1>1, ElsewhereKeepsRecords DEF Boot, Signal, Tick, AdvanceClock, vars
  <1>2. CASE Kill
    BY <1>2, ElsewhereKeepsRecords DEF Kill
  <1>3. ASSUME NEW j \in Jobs, Submit(j) PROVE RecordInv'
    BY <1>3, SubmitKeepsRecords
  <1>4. CASE LoopStep
    <2>1. CASE SweepHistory
      BY <2>1, SweepKeepsRecords
    <2>2. CASE FailStale
      BY <2>2, FailRunningStates, ElsewhereKeepsRecords DEF FailStale
    <2>3. CASE SweepJobs
      BY <2>3, PruneRowsStates, ElsewhereKeepsRecords DEF SweepJobs
    <2>4. ASSUME NEW j \in Jobs, Claim(j) \/ ClaimReadBackFails(j) PROVE RecordInv'
      <3>1. /\ rows[j].state = "pending" /\ UNCHANGED <<born, history>>
            /\ \A k \in Jobs : rows'[k].state = IF k = j THEN "running" ELSE rows[k].state
        BY <2>4, ClaimRowStates DEF Claim, ClaimReadBackFails
      <3>2. \A k \in Jobs : task'[k] = task[k] \/ k = j
        BY <2>4 DEF Claim, ClaimReadBackFails
      <3>3. QED
        BY <3>1, <3>2, ElsewhereKeepsRecords
    <2>5. ASSUME NEW j \in Jobs, Discard(j) PROVE RecordInv'
      BY <2>5, ElsewhereKeepsRecords DEF Discard
    <2>6. CASE \/ ListRunning \/ Reconciled \/ ReconcileFails \/ LoopTop \/ AskForJob
               \/ SlotsFull \/ NothingPending \/ ClaimFails \/ Wake \/ IdleOver \/ SweepFails
               \/ Drained
      BY <2>6, ElsewhereKeepsRecords
         DEF ListRunning, Reconciled, ReconcileFails, LoopTop, AskForJob, SlotsFull,
             NothingPending, ClaimFails, Wake, IdleOver, SweepFails, Drained
    <2>7. QED
      BY <1>4, <2>1, <2>2, <2>3, <2>4, <2>5, <2>6 DEF LoopStep
  <1>5. ASSUME NEW j \in Jobs, TaskStep(j) PROVE RecordInv'
    <2>1. CASE Record(j)
      BY <2>1, RecordKeepsRecords
    <2>2. ASSUME NEW to \in {"record", "fail", "rescue", "none"}, task[j] # "none",
                 to = "record" => task[j] = "mux",
                 task' = [task EXCEPT ![j] = to], UNCHANGED <<rows, born, history>>
          PROVE  RecordInv'
      BY <2>2, ElsewhereKeepsRecords
    <2>3. ASSUME NEW s, NEW o, s # "pending", task[j] # "none", FinishRow(j, s, o),
                 task' = [task EXCEPT ![j] = "none"], UNCHANGED history
          PROVE  RecordInv'
      <3>1. rows[j].state = "running"
        BY <2>3 DEF CoreInv, TaskInv
      <3>2. /\ UNCHANGED <<born, history>>
            /\ \A k \in Jobs : rows'[k].state = IF k = j THEN s ELSE rows[k].state
        BY <2>3, <3>1, FinishRowStates
      <3>3. QED
        BY <2>3, <3>2, ElsewhereKeepsRecords
    <2>4. CASE Stage(j)
      BY <2>4, ElsewhereKeepsRecords DEF Stage
    <2>5. CASE MuxEnds(j)
      BY <2>5, <2>2 DEF MuxEnds, MuxRaises, MuxReturns, Advance
    <2>6. CASE StoreSuccess(j)
      BY <2>6, <2>3 DEF StoreSuccess, SucceedRow, Ends, Advance
    <2>7. CASE StoreFailure(j) \/ Rescue(j)
      BY <2>7, <2>3 DEF StoreFailure, Rescue, FailRow, Ends, Advance
    <2>8. CASE StoreFails(j) \/ RescueFails(j)
      BY <2>8, <2>2 DEF StoreFails, RescueFails, Ends, Advance
    <2>9. QED
      BY <1>5, <2>1, <2>4, <2>5, <2>6, <2>7, <2>8 DEF TaskStep
  <1>6. QED
    BY <1>1, <1>2, <1>3, <1>4, <1>5 DEF Next

(* Whatever is killed or fails, and however long the history is kept.       *)
THEOREM EachRecordedOnce == Spec => []RecordedOnce
  <1>1. RecordInv => RecordedOnce
    BY DEF RecordInv
  <1>2. QED
    BY <1>1, InitHolds, TypeCorrect, CoreKept, StepsKeepRecords, PTL DEF Spec

(* What a kill left is found and removed, and nothing else is left.         *)
THEOREM LeavesNothingBehind == Spec => []NothingLeftBehind
  <1>1. TypeOK /\ CoreInv => NothingLeftBehind
    BY DEF TypeOK, CoreInv, TaskInv, CleanInv, LeftInv, NothingLeftBehind, InState, Running,
           Serving
  <1>2. QED
    BY <1>1, TypeCorrect, CoreKept, PTL

(* A rescue that fails is the second statement that does.                   *)
THEOREM TasksSettleTheirRows == Spec => TaskEndSettles
  <1>1. ASSUME TypeOK, CoreInv, [Next]_vars, NEW j \in Jobs,
               faults' <= 1, task[j] # "none", task'[j] = "none", pc' # "off"
        PROVE  rows'[j].state \in Settled
    <2> TableTypeOK /\ faults \in Nat
      BY <1>1 DEF TypeOK
    <2> task \in [Jobs -> {"none", "mux", "record", "succeed", "fail", "rescue"}]
      BY <1>1 DEF TypeOK
    <2> rows[j].state = "running"
      BY <1>1 DEF CoreInv, TaskInv
    <2>1. PICK k \in Jobs : TaskStep(k)
      <3>1. task' # task
        BY <1>1
      <3>2. ASSUME NEW k \in Jobs, Claim(k) PROVE FALSE
        BY <1>1, <3>2 DEF Claim
      <3>3. ~ Kill
        BY <1>1 DEF Kill, Goto
      <3>4. QED
        BY <1>1, <3>1, <3>2, <3>3
           DEF Next, LoopStep, Boot, Signal, Tick, vars, taskVars, Submit, ListRunning,
               FailStale, Discard, Reconciled, ReconcileFails, LoopTop, AskForJob, SlotsFull,
               ClaimReadBackFails, NothingPending, ClaimFails, Wake, IdleOver, SweepJobs,
               SweepHistory, SweepFails, Drained
    <2>2. k = j
      BY <1>1, <2>1 DEF TaskStep, Stage, MuxEnds, MuxRaises, MuxReturns, Record, StoreSuccess,
                        StoreFailure, StoreFails, Rescue, RescueFails, Advance, Ends, taskVars
    <2>3. ASSUME NEW s \in Settled, NEW o, FinishRow(j, s, o) PROVE rows'[j].state = s
      BY <2>3, FinishRowStates
    <2>4. CASE RescueFails(j)
      BY <1>1, <2>4, FaultTypes DEF RescueFails, CoreInv, RescueInv
    <2>5. CASE StoreSuccess(j) \/ StoreFailure(j) \/ Rescue(j)
      BY <2>5, <2>3 DEF StoreSuccess, StoreFailure, Rescue, SucceedRow, FailRow, Settled
    <2>6. QED
      BY <1>1, <2>1, <2>2, <2>4, <2>5
         DEF TaskStep, Stage, MuxEnds, MuxRaises, MuxReturns, Record, StoreFails, Advance,
             taskVars
  <1>2. TypeOK /\ CoreInv /\ [Next]_vars =>
           [\A j \in Jobs :
               faults' <= 1 /\ task[j] # "none" /\ task'[j] = "none" /\ pc' # "off" =>
                   rows'[j].state \in Settled]_vars
    BY <1>1
  <1>3. QED
    BY <1>2, TypeCorrect, CoreKept, PTL DEF Spec, TaskEndSettles

-----------------------------------------------------------------------------
(* The worker implements JobLifecycle. *)

LEMMA LoopStatements ==
    ASSUME Boot \/ LoopStep
    PROVE  Statement \/ UNCHANGED rows
  <1> USE DEF Statement, tableVars
  <1>1. CASE FailStale
    BY <1>1 DEF FailStale
  <1>2. ASSUME NEW j \in Jobs, Claim(j) \/ ClaimReadBackFails(j)
        PROVE  Statement
    BY <1>2 DEF Claim, ClaimReadBackFails
  <1>3. CASE SweepJobs
    BY <1>3 DEF SweepJobs
  <1>4. CASE \/ Boot \/ ListRunning \/ (\E j \in Jobs : Discard(j)) \/ Reconciled
             \/ ReconcileFails \/ LoopTop \/ AskForJob \/ SlotsFull \/ NothingPending
             \/ ClaimFails \/ Wake \/ IdleOver \/ SweepHistory \/ SweepFails \/ Drained
    BY <1>4 DEF Boot, ListRunning, Discard, Reconciled, ReconcileFails, LoopTop, AskForJob,
                SlotsFull, NothingPending, ClaimFails, Wake, IdleOver, SweepHistory, SweepFails,
                Drained
  <1>5. QED
    BY <1>1, <1>2, <1>3, <1>4 DEF LoopStep

(* A task settles the row it runs for, which is still running: no page of  *)
(* stale rows, no sweep and no second worker comes between.                *)
LEMMA TaskStatements ==
    ASSUME TypeOK, CoreInv, NEW j \in Jobs, TaskStep(j)
    PROVE  Statement \/ UNCHANGED rows
  <1> USE DEF tableVars
  <1>1. CASE StoreSuccess(j) \/ StoreFailure(j) \/ Rescue(j)
    <2>1. rows[j].state = "running"
      BY <1>1 DEF CoreInv, TaskInv, StoreSuccess, StoreFailure, Rescue
    <2>2. \E s \in Settled, o \in Outcomes : FinishRow(j, s, o)
      BY <1>1 DEF StoreSuccess, StoreFailure, Rescue, SucceedRow, FailRow, Settled, Outcomes,
                  TypeOK
    <2>3. QED
      BY <2>1, <2>2 DEF Statement, FinishesRunning
  <1>2. CASE Stage(j) \/ MuxEnds(j) \/ Record(j) \/ StoreFails(j) \/ RescueFails(j)
    BY <1>2 DEF Stage, MuxEnds, MuxRaises, MuxReturns, Record, StoreFails, RescueFails
  <1>3. QED
    BY <1>1, <1>2 DEF TaskStep

(* Kills, restarts and failing statements included, and with the worker's  *)
(* own bookkeeping in several statements, a job is created, handed out and *)
(* settled once: what a killed worker was running is failed, never handed  *)
(* out again, and the task of a rescued job does not settle it twice.      *)
THEOREM ImplementsLifecycle == Spec => LifecycleSpec
  <1>1. Init => Lifecycle!Init
    BY InitIsLifecycleInit DEF Init
  <1>2. TypeOK /\ CoreInv /\ [Next]_vars => Statement \/ UNCHANGED rows
    <2>1. ASSUME NEW j \in Jobs, Submit(j) PROVE Statement
      BY <2>1 DEF Submit, Statement
    <2>2. CASE Signal \/ Kill \/ Tick \/ UNCHANGED vars
      BY <2>2 DEF Signal, Kill, Tick, AdvanceClock, vars, tableVars
    <2>3. QED
      BY <2>1, <2>2, LoopStatements, TaskStatements DEF Next
  <1>3. TypeOK /\ CoreInv /\ [Next]_vars => [Lifecycle!Next]_([j \in Jobs |-> rows[j].state])
    BY <1>2, StatementsRefine DEF TypeOK
  <1>4. QED
    BY <1>1, <1>3, TypeCorrect, CoreKept, PTL DEF Spec, LifecycleSpec, Lifecycle!Spec

=============================================================================
