---------------------------- MODULE JobQueueProofs ----------------------------
(***************************************************************************)
(* Theorems about JobQueue, for any number of jobs, requests and workers   *)
(* and with no bound on the clock, the crashes or the slots other than the *)
(* constants' own.                                                         *)
(***************************************************************************)
EXTENDS JobQueue, JobTableProofs, FiniteSetTheorems

LEMMA CandidatesType ==
    ASSUME TableTypeOK
    PROVE  Candidates \subseteq Nat \X Jobs
  BY DEF TableTypeOK, Candidates, PendingKeys, InState, Row, NoRow

(* The variables keep their types through every call of every process. *)
THEOREM TypeCorrect == Spec => []TypeOK
  <1>1. Init => TypeOK
    BY DEF Init, TypeOK, TableInit, TableTypeOK
  <1>2. TypeOK /\ [Next]_vars => TypeOK'
    <2> SUFFICES ASSUME TypeOK, [Next]_vars
                 PROVE  TypeOK'
      OBVIOUS
    <2> USE DEF TypeOK
    <2>1. CASE UNCHANGED vars
      BY <2>1 DEF vars, TableTypeOK
    <2>2. ASSUME NEW r \in Handlers, NEW j \in Jobs, NEW f \in Fingerprints,
                 NEW stamp \in 0..now, SubmitNew(r, j, f, stamp)
          PROVE  TypeOK'
      BY <2>2, InsertRowType DEF SubmitNew, Acknowledge, TableTypeOK
    <2>3. ASSUME NEW r \in Handlers, NEW j \in Jobs, NEW f \in Fingerprints,
                 SubmitKnown(r, j, f)
          PROVE  TypeOK'
      BY <2>3 DEF SubmitKnown, TableTypeOK
    <2>4. ASSUME NEW r \in Handlers, Reattach(r)
          PROVE  TypeOK'
      <3>1. handler[r].job \in Jobs /\ handler[r].fp \in Fingerprints
        BY <2>4 DEF Reattach
      <3>2. QED
        BY <2>4, <3>1 DEF Reattach, Acknowledge, TableTypeOK
    <2>5. ASSUME NEW r \in Handlers, Refuse(r)
          PROVE  TypeOK'
      BY <2>5 DEF Refuse, TableTypeOK
    <2>6. ASSUME NEW w \in Workers, BeginClaim(w)
          PROVE  TypeOK'
      <3>1. {<<j, born[j]>> : j \in InState("pending")} \subseteq Jobs \X Nat
        BY DEF InState, TableTypeOK
      <3>2. QED
        BY <2>6, <3>1, CandidatesType DEF BeginClaim, TableTypeOK
    <2>7. ASSUME NEW w \in Workers, NEW c \in cands[w], WinCandidate(w, c)
          PROVE  TypeOK'
      <3>1. c[2] \in Jobs
        BY <2>7
      <3>2. TableTypeOK'
        BY <2>7, <3>1, ClaimRowType DEF WinCandidate
      <3>3. <<c[2], born[c[2]]>> \in Jobs \X Nat
        BY <3>1 DEF TableTypeOK
      <3>4. QED
        BY <2>7, <3>2, <3>3 DEF WinCandidate
    <2>8. ASSUME NEW w \in Workers, NEW c \in cands[w], LoseCandidate(w, c)
          PROVE  TypeOK'
      BY <2>8 DEF LoseCandidate, TableTypeOK
    <2>9. ASSUME NEW w \in Workers, EndClaim(w)
          PROVE  TypeOK'
      BY <2>9 DEF EndClaim, TableTypeOK
    <2>10. ASSUME NEW w \in Workers, NEW h \in held[w], NEW o \in Outcomes,
                  Succeed(w, h, o)
           PROVE  TypeOK'
      <3>1. h[1] \in Jobs
        BY <2>10
      <3>2. TableTypeOK'
        BY <2>10, <3>1, FinishRowType DEF Succeed, SucceedRow, Settled
      <3>3. QED
        BY <2>10, <3>2 DEF Succeed
    <2>11. ASSUME NEW w \in Workers, NEW h \in held[w], Fail(w, h)
           PROVE  TypeOK'
      <3>1. h[1] \in Jobs
        BY <2>11
      <3>2. TableTypeOK'
        BY <2>11, <3>1, FinishRowType DEF Fail, FailRow, Settled, Outcomes
      <3>3. QED
        BY <2>11, <3>2 DEF Fail
    <2>12. ASSUME NEW w \in Workers, Sweep(w)
           PROVE  TypeOK'
      BY <2>12, PruneRowsType DEF Sweep
    <2>13. ASSUME NEW w \in Workers, Crash(w)
           PROVE  TypeOK'
      BY <2>13 DEF Crash, TableTypeOK
    <2>14. ASSUME NEW w \in Workers, Start(w)
           PROVE  TypeOK'
      BY <2>14, FailRunningType DEF Start
    <2>15. CASE Tick
      BY <2>15 DEF Tick, AdvanceClock, TableTypeOK
    <2>16. QED
      BY <2>1, <2>2, <2>3, <2>4, <2>5, <2>6, <2>7, <2>8, <2>9, <2>10, <2>11,
         <2>12, <2>13, <2>14, <2>15
         DEF Next, ApiStep, ClaimStep, SettleStep
  <1>3. QED
    BY <1>1, <1>2, PTL DEF Spec

-----------------------------------------------------------------------------
(* Every step is at most one statement on the table, and what a worker     *)
(* executes grows only by a won claim.                                     *)

TableStep ==
    \/ \E j \in Jobs, f \in Fingerprints, stamp \in 0..now : InsertRow(j, f, stamp)
    \/ \E j \in Jobs : ClaimRow(j)
    \/ \E j \in Jobs, s \in Settled, o \in Outcomes : FinishRow(j, s, o)
    \/ FailRunning
    \/ PruneRows
    \/ UNCHANGED <<rows, born>>

LEMMA StepsOnTable ==
    ASSUME TypeOK, [Next]_vars
    PROVE  TableStep
  <1> USE DEF TypeOK, TableStep
  <1>1. CASE UNCHANGED vars
    BY <1>1 DEF vars
  <1>2. ASSUME NEW r \in Handlers, ApiStep(r)
        PROVE  TableStep
    BY <1>2 DEF ApiStep, SubmitNew, SubmitKnown, Reattach, Refuse
  <1>3. ASSUME NEW w \in Workers, ClaimStep(w)
        PROVE  TableStep
    BY <1>3 DEF ClaimStep, BeginClaim, WinCandidate, LoseCandidate, EndClaim
  <1>4. ASSUME NEW w \in Workers, SettleStep(w)
        PROVE  TableStep
    <2>1. ASSUME NEW h \in held[w], NEW o \in Outcomes, Succeed(w, h, o)
          PROVE  TableStep
      <3>1. h[1] \in Jobs /\ "succeeded" \in Settled
        BY <2>1 DEF Settled
      <3>2. QED
        BY <2>1, <3>1 DEF Succeed, SucceedRow
    <2>2. ASSUME NEW h \in held[w], Fail(w, h)
          PROVE  TableStep
      <3>1. h[1] \in Jobs /\ "failed" \in Settled /\ "none" \in Outcomes
        BY <2>2 DEF Settled, Outcomes
      <3>2. QED
        BY <2>2, <3>1 DEF Fail, FailRow
    <2>3. QED
      BY <1>4, <2>1, <2>2 DEF SettleStep
  <1>5. ASSUME NEW w \in Workers, Sweep(w) \/ Crash(w) \/ Start(w)
        PROVE  TableStep
    BY <1>5 DEF Sweep, Crash, Start
  <1>6. CASE Tick
    BY <1>6 DEF Tick, AdvanceClock
  <1>7. QED
    BY <1>1, <1>2, <1>3, <1>4, <1>5, <1>6 DEF Next

LEMMA HeldGrowsByClaims ==
    ASSUME TypeOK, [Next]_vars
    PROVE  \/ \A w \in Workers : held'[w] \subseteq held[w]
           \/ \E w \in Workers : \E c \in cands[w] : WinCandidate(w, c)
  <1> USE DEF TypeOK
  <1>1. CASE UNCHANGED vars
    BY <1>1 DEF vars
  <1>2. ASSUME NEW r \in Handlers, ApiStep(r)
        PROVE  held' = held
    BY <1>2 DEF ApiStep, SubmitNew, SubmitKnown, Reattach, Refuse
  <1>3. ASSUME NEW w \in Workers, ClaimStep(w)
        PROVE  held' = held \/ \E c \in cands[w] : WinCandidate(w, c)
    BY <1>3 DEF ClaimStep, BeginClaim, LoseCandidate, EndClaim
  <1>4. ASSUME NEW w \in Workers, SettleStep(w)
        PROVE  \A v \in Workers : held'[v] \subseteq held[v]
    BY <1>4 DEF SettleStep, Succeed, Fail
  <1>5. ASSUME NEW w \in Workers, Sweep(w) \/ Crash(w) \/ Start(w)
        PROVE  \A v \in Workers : held'[v] \subseteq held[v]
    BY <1>5 DEF Sweep, Crash, Start
  <1>6. CASE Tick
    BY <1>6 DEF Tick
  <1>7. QED
    BY <1>1, <1>2, <1>3, <1>4, <1>5, <1>6 DEF Next

-----------------------------------------------------------------------------
(* One owner, with any number of workers. *)

(* A <<id, born>> key that can never be claimed again: its row is past the *)
(* pending state, or was replaced by a later one.                          *)
Spent(h) ==
    /\ h[2] <= born[h[1]]
    /\ h[2] = born[h[1]] => rows[h[1]].state # "pending"

OwnershipInv ==
    /\ \A w \in Workers : \A h \in held[w] : Spent(h)
    /\ OneOwner

LEMMA SpentStays ==
    ASSUME TableTypeOK, TableStep, NEW h \in Jobs \X Nat, Spent(h)
    PROVE  Spent(h)'
  <1> USE DEF TableTypeOK, Spent
  <1>1. ASSUME NEW j \in Jobs, NEW f \in Fingerprints, NEW stamp \in 0..now,
               InsertRow(j, f, stamp)
        PROVE  Spent(h)'
    BY <1>1 DEF InsertRow
  <1>2. ASSUME NEW j \in Jobs, ClaimRow(j)
        PROVE  Spent(h)'
    BY <1>2 DEF ClaimRow, NoRow, Row
  <1>3. ASSUME NEW j \in Jobs, NEW s \in Settled, NEW o \in Outcomes, FinishRow(j, s, o)
        PROVE  Spent(h)'
    <2>1. rows[j] # NoRow => FinishedRow(rows[j], s, o).state = s
      BY DEF FinishedRow, Row
    <2>2. s # "pending"
      BY DEF Settled
    <2>3. QED
      BY <1>3, <2>1, <2>2 DEF FinishRow
  <1>4. CASE FailRunning
    <2>1. ASSUME NEW j \in Jobs, rows[j].state = "running"
          PROVE  FinishedRow(rows[j], "failed", "none").state # "pending"
      BY <2>1 DEF FinishedRow, Row, NoRow
    <2>2. QED
      BY <1>4, <2>1 DEF FailRunning
  <1>5. CASE PruneRows
    BY <1>5 DEF PruneRows, NoRow
  <1>6. CASE UNCHANGED <<rows, born>>
    BY <1>6
  <1>7. QED
    BY <1>1, <1>2, <1>3, <1>4, <1>5, <1>6 DEF TableStep

LEMMA WinSpends ==
    ASSUME TypeOK, NEW w \in Workers, NEW c \in cands[w], WinCandidate(w, c)
    PROVE  \E h \in Jobs \X Nat :
              h = <<c[2], born[c[2]]>> /\ ~ Spent(h) /\ Spent(h)'
  <1>1. c[2] \in Jobs
    BY DEF TypeOK
  <1>2. ClaimRow(c[2]) /\ born' = born
    BY DEF WinCandidate, ClaimRow
  <1>3. rows'[c[2]].state = "running"
    BY <1>1, <1>2 DEF ClaimRow, TypeOK, TableTypeOK, Row, NoRow
  <1>4. PICK h \in Jobs \X Nat : h = <<c[2], born[c[2]]>>
    BY <1>1 DEF TypeOK, TableTypeOK
  <1>5. ~ Spent(h) /\ Spent(h)'
    BY <1>1, <1>2, <1>3, <1>4 DEF Spent, ClaimRow, TypeOK, TableTypeOK
  <1>6. QED
    BY <1>4, <1>5

(* However many workers share the table, and however their claim passes    *)
(* interleave, no two of them execute the import of the same row.          *)
THEOREM RowsHaveOneOwner == Spec => []OneOwner
  <1>1. Init => OwnershipInv
    BY DEF Init, OwnershipInv, OneOwner
  <1>2. TypeOK /\ OwnershipInv /\ [Next]_vars => OwnershipInv'
    <2> SUFFICES ASSUME TypeOK, OwnershipInv, [Next]_vars
                 PROVE  OwnershipInv'
      OBVIOUS
    <2>1. \A w \in Workers : \A h \in held[w] : Spent(h)'
      <3> SUFFICES ASSUME NEW w \in Workers, NEW h \in held[w]
                   PROVE  Spent(h)'
        OBVIOUS
      <3>1. h \in Jobs \X Nat
        BY DEF TypeOK
      <3>2. QED
        BY <3>1, StepsOnTable, SpentStays DEF OwnershipInv, TypeOK
    <2>2. CASE \A w \in Workers : held'[w] \subseteq held[w]
      BY <2>1, <2>2 DEF OwnershipInv, OneOwner
    <2>3. ASSUME NEW w \in Workers, NEW c \in cands[w], WinCandidate(w, c)
          PROVE  OwnershipInv'
      <3>1. PICK new \in Jobs \X Nat :
                new = <<c[2], born[c[2]]>> /\ ~ Spent(new) /\ Spent(new)'
        BY <2>3, WinSpends
      <3>2. \A v \in Workers : held'[v] = IF v = w THEN held[v] \cup {new} ELSE held[v]
        BY <2>3, <3>1 DEF WinCandidate, TypeOK
      <3>3. \A v \in Workers : new \notin held[v]
        BY <3>1 DEF OwnershipInv
      <3>4. ASSUME NEW u \in Workers, NEW v \in Workers, u # v,
                   NEW h \in held'[u], h \in held'[v]
            PROVE  FALSE
        <4>1. CASE h = new
          BY <4>1, <3>2, <3>3, <3>4
        <4>2. CASE h # new
          <5>1. h \in held[u] /\ h \in held[v]
            BY <4>2, <3>2, <3>4
          <5>2. held[u] \cap held[v] = {}
            BY <3>4 DEF OwnershipInv, OneOwner
          <5>3. QED
            BY <5>1, <5>2
        <4>3. QED
          BY <4>1, <4>2
      <3>5. ASSUME NEW v \in Workers, NEW h \in held'[v]
            PROVE  Spent(h)'
        <4>1. h \in held[v] \/ h = new
          BY <3>2
        <4>2. CASE h \in held[v]
          BY <4>2, <2>1
        <4>3. CASE h = new
          BY <4>3, <3>1
        <4>4. QED
          BY <4>1, <4>2, <4>3
      <3>6. QED
        BY <3>4, <3>5 DEF OwnershipInv, OneOwner
    <2>4. QED
      BY <2>2, <2>3, HeldGrowsByClaims
  <1>3. OwnershipInv => OneOwner
    BY DEF OwnershipInv
  <1>4. QED
    BY <1>1, <1>2, <1>3, TypeCorrect, PTL DEF Spec

-----------------------------------------------------------------------------
(* One worker process, as the deployment prescribes. *)

SingleWorker == \A v, w \in Workers : v = w

(* HeldIsRunning is not inductive by itself: Start fails every running row *)
(* and would take the held ones along, if a worker that is down could hold *)
(* any.                                                                    *)
SoloInv ==
    /\ HeldIsRunning
    /\ \A w \in Workers : phase[w] = "down" => held[w] = {}

LEMMA SoloInvInductive ==
    ASSUME SingleWorker, TypeOK, SoloInv, [Next]_vars
    PROVE  SoloInv'
  <1> USE DEF SoloInv, HeldIsRunning, TypeOK, TableTypeOK
  <1>1. CASE UNCHANGED vars
    BY <1>1 DEF vars
  <1>2. ASSUME NEW r \in Handlers, NEW j \in Jobs, NEW f \in Fingerprints,
               NEW stamp \in 0..now, SubmitNew(r, j, f, stamp)
        PROVE  SoloInv'
    BY <1>2 DEF SubmitNew, InsertRow
  <1>3. ASSUME NEW r \in Handlers,
               \/ \E j \in Jobs, f \in Fingerprints : SubmitKnown(r, j, f)
               \/ Reattach(r) \/ Refuse(r)
        PROVE  SoloInv'
    BY <1>3 DEF SubmitKnown, Reattach, Refuse
  <1>4. ASSUME NEW w \in Workers, BeginClaim(w) \/ EndClaim(w)
        PROVE  SoloInv'
    BY <1>4 DEF BeginClaim, EndClaim
  <1>5. ASSUME NEW w \in Workers, NEW c \in cands[w], WinCandidate(w, c)
        PROVE  SoloInv'
    <2>1. c[2] \in Jobs /\ ClaimRow(c[2]) /\ born' = born
      BY <1>5 DEF WinCandidate, ClaimRow
    <2>2. rows'[c[2]].state = "running"
      BY <2>1 DEF ClaimRow, Row, NoRow
    <2>3. \A j \in Jobs : j # c[2] => rows'[j] = rows[j]
      BY <2>1 DEF ClaimRow
    <2>4. \A v \in Workers : held'[v] \subseteq held[v] \cup {<<c[2], born[c[2]]>>}
      BY <1>5 DEF WinCandidate
    <2>5. HeldIsRunning'
      BY <2>1, <2>2, <2>3, <2>4
    <2>6. \A v \in Workers : phase'[v] = "down" => held'[v] = {}
      BY <1>5 DEF WinCandidate
    <2>7. QED
      BY <2>5, <2>6
  <1>6. ASSUME NEW w \in Workers, NEW c \in cands[w], LoseCandidate(w, c)
        PROVE  SoloInv'
    BY <1>6 DEF LoseCandidate
  <1>7. ASSUME NEW w \in Workers, NEW h \in held[w],
               Fail(w, h) \/ \E o \in Outcomes \ {"none"} : Succeed(w, h, o)
        PROVE  SoloInv'
    <2>1. born' = born /\ phase' = phase /\ held' = [held EXCEPT ![w] = @ \ {h}]
      BY <1>7 DEF Succeed, Fail, SucceedRow, FailRow, FinishRow
    <2>2. \A j \in Jobs : j # h[1] => rows'[j] = rows[j]
      BY <1>7 DEF Succeed, Fail, SucceedRow, FailRow, FinishRow
    <2>3. ASSUME NEW v \in Workers, NEW g \in held'[v]
          PROVE  g \in held[v] /\ g[1] # h[1]
      <3>1. v = w
        BY DEF SingleWorker
      <3>2. g \in held[w] /\ g # h
        BY <2>1, <3>1
      <3>3. g[2] = born[g[1]] /\ h[2] = born[h[1]] /\ g \in Jobs \X Nat /\ h \in Jobs \X Nat
        BY <3>2
      <3>4. QED
        BY <3>1, <3>2, <3>3
    <2>4. HeldIsRunning'
      BY <2>1, <2>2, <2>3
    <2>5. QED
      BY <2>1, <2>4
  <1>8. ASSUME NEW w \in Workers, Sweep(w)
        PROVE  SoloInv'
    BY <1>8 DEF Sweep, PruneRows, Expired, Settled
  <1>9. ASSUME NEW w \in Workers, Crash(w)
        PROVE  SoloInv'
    BY <1>9 DEF Crash
  <1>10. ASSUME NEW w \in Workers, Start(w)
         PROVE  SoloInv'
    <2>1. \A v \in Workers : held'[v] = {}
      BY <1>10 DEF Start, SingleWorker
    <2>2. QED
      BY <2>1
  <1>11. CASE Tick
    BY <1>11 DEF Tick, AdvanceClock
  <1>12. QED
    BY <1>1, <1>2, <1>3, <1>4, <1>5, <1>6, <1>7, <1>8, <1>9, <1>10, <1>11
       DEF Next, ApiStep, ClaimStep, SettleStep

(* With one worker process, a row whose import is being executed is        *)
(* running, and is the very row that was claimed: no other step settles,   *)
(* prunes or re-queues it.                                                 *)
THEOREM HeldRowsAreRunning ==
    ASSUME SingleWorker
    PROVE  Spec => []HeldIsRunning
  <1>1. Init => SoloInv
    BY DEF Init, SoloInv, HeldIsRunning
  <1>2. TypeOK /\ SoloInv /\ [Next]_vars => SoloInv'
    BY SoloInvInductive
  <1>3. SoloInv => HeldIsRunning
    BY DEF SoloInv
  <1>4. QED
    BY <1>1, <1>2, <1>3, TypeCorrect, PTL DEF Spec

-----------------------------------------------------------------------------
(* The queue implements JobLifecycle. *)

(* Fail and Succeed find the row they settle running.                      *)
LEMMA SettlesARunningRow ==
    ASSUME TypeOK, SoloInv, NEW w \in Workers, NEW h \in held[w],
           Fail(w, h) \/ \E o \in Outcomes \ {"none"} : Succeed(w, h, o)
    PROVE  /\ h[1] \in Jobs
           /\ rows[h[1]].state = "running" /\ rows'[h[1]].state \in Settled
           /\ \E s \in Settled, o \in Outcomes : FinishRow(h[1], s, o)
  <1>1. h[1] \in Jobs /\ rows[h[1]].state = "running"
    BY DEF SoloInv, HeldIsRunning, TypeOK
  <1>2. PICK s \in Settled, o \in Outcomes : FinishRow(h[1], s, o)
    BY DEF Fail, FailRow, Succeed, SucceedRow, Settled, Outcomes
  <1>3. rows'[h[1]].state = s
    BY <1>1, <1>2, FinishRowStates DEF TypeOK
  <1>4. QED
    BY <1>1, <1>2, <1>3

(* One step of the queue is one statement on the table, or none.          *)
LEMMA StepsAreStatements ==
    ASSUME TypeOK, SoloInv, [Next]_vars
    PROVE  Statement \/ UNCHANGED rows
  <1> USE DEF Statement
  <1>1. CASE UNCHANGED vars
    BY <1>1 DEF vars
  <1>2. ASSUME NEW r \in Handlers, ApiStep(r) PROVE Statement \/ UNCHANGED rows
    <2>1. \A stamp \in 0..now : stamp \in Nat
      BY DEF TypeOK, TableTypeOK
    <2>2. QED
      BY <1>2, <2>1 DEF ApiStep, SubmitNew, SubmitKnown, Reattach, Refuse
  <1>3. ASSUME NEW w \in Workers, ClaimStep(w) PROVE Statement \/ UNCHANGED rows
    <2>1. ASSUME NEW c \in cands[w], WinCandidate(w, c) PROVE c[2] \in Jobs /\ ClaimRow(c[2])
      BY <2>1 DEF WinCandidate, TypeOK
    <2>2. QED
      BY <1>3, <2>1 DEF ClaimStep, BeginClaim, LoseCandidate, EndClaim
  <1>4. ASSUME NEW w \in Workers, SettleStep(w) PROVE FinishesRunning
    <2>1. PICK h \in held[w] : Fail(w, h) \/ \E o \in Outcomes \ {"none"} : Succeed(w, h, o)
      BY <1>4 DEF SettleStep
    <2>2. QED
      BY <2>1, SettlesARunningRow DEF FinishesRunning
  <1>5. ASSUME NEW w \in Workers, Sweep(w) \/ Crash(w) \/ Start(w)
        PROVE  Statement \/ UNCHANGED rows
    BY <1>5 DEF Sweep, Crash, Start
  <1>6. CASE Tick
    BY <1>6 DEF Tick, AdvanceClock
  <1>7. QED
    BY <1>1, <1>2, <1>3, <1>4, <1>5, <1>6 DEF Next

(* With one worker process, the table, its statements and the calls that   *)
(* take several of them implement JobLifecycle: a job is created, handed   *)
(* out and settled once, and only a settled one disappears.                *)
THEOREM ImplementsLifecycle ==
    ASSUME SingleWorker
    PROVE  Spec => LifecycleSpec
  <1>1. Init => Lifecycle!Init
    BY InitIsLifecycleInit DEF Init
  <1>2. Init => SoloInv
    BY DEF Init, SoloInv, HeldIsRunning
  <1>3. TypeOK /\ SoloInv /\ [Next]_vars => SoloInv'
    BY SoloInvInductive
  <1>4. TypeOK /\ SoloInv /\ [Next]_vars => [Lifecycle!Next]_([j \in Jobs |-> rows[j].state])
    BY StepsAreStatements, StatementsRefine DEF TypeOK
  <1>5. QED
    BY <1>1, <1>2, <1>3, <1>4, TypeCorrect, PTL DEF Spec, LifecycleSpec, Lifecycle!Spec

-----------------------------------------------------------------------------
(* No running row without a task. *)

(* Per worker, and with the phase as hypothesis, so that it survives the   *)
(* death of the worker; with one worker it is RunningIsHeld.               *)
AttendedInv ==
    \A w \in Workers : phase[w] # "down" =>
        \A j \in Jobs : rows[j].state = "running" => <<j, born[j]>> \in held[w]

LEMMA AttendedInductive ==
    ASSUME SingleWorker, TypeOK, SoloInv, AttendedInv, [Next]_vars
    PROVE  AttendedInv'
  <1> USE DEF AttendedInv, TypeOK, TableTypeOK
  <1>1. CASE UNCHANGED vars
    BY <1>1 DEF vars
  <1>2. ASSUME NEW r \in Handlers, NEW j \in Jobs, NEW f \in Fingerprints,
               NEW stamp \in 0..now, SubmitNew(r, j, f, stamp)
        PROVE  AttendedInv'
    BY <1>2 DEF SubmitNew, InsertRow
  <1>3. ASSUME NEW r \in Handlers,
               \/ \E j \in Jobs, f \in Fingerprints : SubmitKnown(r, j, f)
               \/ Reattach(r) \/ Refuse(r)
        PROVE  AttendedInv'
    BY <1>3 DEF SubmitKnown, Reattach, Refuse
  <1>4. ASSUME NEW w \in Workers, BeginClaim(w) \/ EndClaim(w)
        PROVE  AttendedInv'
    BY <1>4 DEF BeginClaim, EndClaim
  <1>5. ASSUME NEW w \in Workers, NEW c \in cands[w], WinCandidate(w, c)
        PROVE  AttendedInv'
    <2>1. c[2] \in Jobs /\ ClaimRow(c[2]) /\ born' = born
      BY <1>5 DEF WinCandidate, ClaimRow
    <2>2. \A j \in Jobs : j # c[2] => rows'[j] = rows[j]
      BY <2>1 DEF ClaimRow
    <2>3. held'[w] = held[w] \cup {<<c[2], born[c[2]]>>} /\ phase[w] # "down"
      BY <1>5 DEF WinCandidate
    <2>4. \A j \in Jobs : rows'[j].state = "running" => <<j, born'[j]>> \in held'[w]
      BY <2>1, <2>2, <2>3
    <2>5. QED
      BY <2>4 DEF SingleWorker
  <1>6. ASSUME NEW w \in Workers, NEW c \in cands[w], LoseCandidate(w, c)
        PROVE  AttendedInv'
    BY <1>6 DEF LoseCandidate
  <1>7. ASSUME NEW w \in Workers, NEW h \in held[w],
               Fail(w, h) \/ \E o \in Outcomes \ {"none"} : Succeed(w, h, o)
        PROVE  AttendedInv'
    <2>1. born' = born /\ phase' = phase /\ held' = [held EXCEPT ![w] = @ \ {h}]
          /\ phase[w] # "down"
      BY <1>7 DEF Succeed, Fail, SucceedRow, FailRow, FinishRow
    <2>2. \A j \in Jobs : j # h[1] => rows'[j] = rows[j]
      BY <1>7 DEF Succeed, Fail, SucceedRow, FailRow, FinishRow
    <2>3. h[1] \in Jobs /\ rows'[h[1]].state \in Settled
      BY <1>7, SettlesARunningRow
    <2>4. ASSUME NEW j \in Jobs, rows'[j].state = "running"
          PROVE  <<j, born'[j]>> \in held'[w]
      <3>1. j # h[1]
        BY <2>3, <2>4 DEF Settled
      <3>2. <<j, born[j]>> \in held[w] /\ <<j, born[j]>> # h
        BY <2>1, <2>2, <2>4, <3>1
      <3>3. QED
        BY <2>1, <3>2
    <2>5. QED
      BY <2>1, <2>4 DEF SingleWorker
  <1>8. ASSUME NEW w \in Workers, Sweep(w)
        PROVE  AttendedInv'
    BY <1>8 DEF Sweep, PruneRows, NoRow
  <1>9. ASSUME NEW w \in Workers, Crash(w)
        PROVE  AttendedInv'
    BY <1>9 DEF Crash, SingleWorker
  <1>10. ASSUME NEW w \in Workers, Start(w)
         PROVE  AttendedInv'
    <2>1. ASSUME NEW j \in Jobs, rows[j].state = "running"
          PROVE  FinishedRow(rows[j], "failed", "none").state = "failed"
      BY <2>1 DEF FinishedRow, Row, NoRow
    <2>2. \A j \in Jobs : rows'[j].state # "running"
      BY <1>10, <2>1 DEF Start, FailRunning
    <2>3. QED
      BY <2>2
  <1>11. CASE Tick
    BY <1>11 DEF Tick, AdvanceClock
  <1>12. QED
    BY <1>1, <1>2, <1>3, <1>4, <1>5, <1>6, <1>7, <1>8, <1>9, <1>10, <1>11
       DEF Next, ApiStep, ClaimStep, SettleStep

(* With one worker process, no row is running without somebody executing   *)
(* its import, from the moment the worker has reconciled until it dies.    *)
(* (Without a worker there is nobody to attend to anything.)               *)
THEOREM RunningRowsAreHeld ==
    ASSUME SingleWorker, Workers # {}
    PROVE  Spec => []RunningIsHeld
  <1>1. Init => SoloInv /\ AttendedInv
    BY DEF Init, SoloInv, HeldIsRunning, AttendedInv
  <1>2. TypeOK /\ SoloInv /\ [Next]_vars => SoloInv'
    BY SoloInvInductive
  <1>3. TypeOK /\ SoloInv /\ AttendedInv /\ [Next]_vars => AttendedInv'
    BY AttendedInductive
  <1>4. AttendedInv => RunningIsHeld
    BY DEF AttendedInv, RunningIsHeld, InState
  <1>5. QED
    BY <1>1, <1>2, <1>3, <1>4, TypeCorrect, PTL DEF Spec

-----------------------------------------------------------------------------
(* The row a caller was acknowledged for is the import it submitted. *)

(* Strengthened with what an acknowledgement says of the row it met, which *)
(* holds until the row is pruned and is void once the id is born again.    *)
AcksInv ==
    /\ \A a \in acks :
          /\ a.born <= born[a.job]
          /\ a.born = born[a.job] /\ rows[a.job] # NoRow => a.fp = rows[a.job].fp
    /\ AcksAgree

LEMMA FingerprintStays ==
    ASSUME TableTypeOK, TableStep, NEW j \in Jobs
    PROVE  \/ born'[j] = born[j] /\ (rows'[j] # NoRow => rows[j] # NoRow /\ rows'[j].fp = rows[j].fp)
           \/ born'[j] = born[j] + 1
  <1> USE DEF TableTypeOK
  <1>1. ASSUME NEW k \in Jobs, NEW f \in Fingerprints, NEW stamp \in 0..now,
               InsertRow(k, f, stamp)
        PROVE  \/ born'[j] = born[j] /\ rows'[j] = rows[j]
               \/ born'[j] = born[j] + 1
    BY <1>1 DEF InsertRow
  <1>2. ASSUME NEW k \in Jobs, ClaimRow(k)
        PROVE  born' = born /\ (rows'[j] # NoRow => rows[j] # NoRow /\ rows'[j].fp = rows[j].fp)
    BY <1>2 DEF ClaimRow, Row, NoRow
  <1>3. ASSUME NEW k \in Jobs, NEW s \in Settled, NEW o \in Outcomes, FinishRow(k, s, o)
        PROVE  born' = born /\ (rows'[j] # NoRow => rows[j] # NoRow /\ rows'[j].fp = rows[j].fp)
    <2>1. rows[k] # NoRow => FinishedRow(rows[k], s, o).fp = rows[k].fp
      BY DEF FinishedRow, Row
    <2>2. QED
      BY <1>3, <2>1 DEF FinishRow
  <1>4. CASE FailRunning
    <2>1. ASSUME NEW k \in Jobs, rows[k].state = "running"
          PROVE  rows[k] # NoRow /\ FinishedRow(rows[k], "failed", "none").fp = rows[k].fp
      BY <2>1 DEF FinishedRow, Row, NoRow
    <2>2. QED
      BY <1>4, <2>1 DEF FailRunning
  <1>5. CASE PruneRows
    BY <1>5 DEF PruneRows
  <1>6. CASE UNCHANGED <<rows, born>>
    BY <1>6
  <1>7. QED
    BY <1>1, <1>2, <1>3, <1>4, <1>5, <1>6 DEF TableStep

(* An acknowledgement kept by a step keeps what it says. *)
LEMMA OldAcksHold ==
    ASSUME TypeOK, AcksInv, TableStep, NEW a \in acks
    PROVE  /\ a.born <= born'[a.job]
           /\ a.born = born'[a.job] /\ rows'[a.job] # NoRow => a.fp = rows'[a.job].fp
  <1>1. a.job \in Jobs /\ a.born \in Nat /\ born[a.job] \in Nat
    BY DEF TypeOK, TableTypeOK
  <1>2. QED
    BY <1>1, FingerprintStays DEF TypeOK, AcksInv

(* A step acknowledges at most one submission, with the fingerprint of the *)
(* row it leaves in the table.                                             *)
LEMMA AcksGrow ==
    ASSUME TypeOK, [Next]_vars
    PROVE  \/ acks' = acks
           \/ \E j \in Jobs, f \in Fingerprints :
                 /\ acks' = acks \cup {[job |-> j, fp |-> f, born |-> born'[j]]}
                 /\ rows'[j] # NoRow /\ rows'[j].fp = f
                 /\ \/ born'[j] = born[j] + 1
                    \/ born'[j] = born[j] /\ rows[j] # NoRow /\ rows[j].fp = f
  <1> USE DEF TypeOK, TableTypeOK
  <1>1. CASE UNCHANGED vars
    BY <1>1 DEF vars
  <1>2. ASSUME NEW r \in Handlers, NEW j \in Jobs, NEW f \in Fingerprints,
               NEW stamp \in 0..now, SubmitNew(r, j, f, stamp)
        PROVE  /\ acks' = acks \cup {[job |-> j, fp |-> f, born |-> born'[j]]}
               /\ rows'[j] # NoRow /\ rows'[j].fp = f
               /\ born'[j] = born[j] + 1
    BY <1>2 DEF SubmitNew, InsertRow, Acknowledge, NoRow
  <1>3. ASSUME NEW r \in Handlers, Reattach(r)
        PROVE  \E j \in Jobs, f \in Fingerprints :
                 /\ acks' = acks \cup {[job |-> j, fp |-> f, born |-> born'[j]]}
                 /\ rows'[j] # NoRow /\ rows'[j].fp = f
                 /\ born'[j] = born[j] /\ rows[j] # NoRow /\ rows[j].fp = f
    <2>1. handler[r].job \in Jobs /\ handler[r].fp \in Fingerprints
      BY <1>3 DEF Reattach
    <2>2. QED
      BY <1>3, <2>1 DEF Reattach, SamePayload, Acknowledge
  <1>4. ASSUME NEW r \in Handlers,
               Refuse(r) \/ \E j \in Jobs, f \in Fingerprints : SubmitKnown(r, j, f)
        PROVE  acks' = acks
    BY <1>4 DEF SubmitKnown, Refuse
  <1>5. ASSUME NEW w \in Workers, ClaimStep(w) \/ SettleStep(w) \/ Sweep(w) \/ Crash(w) \/ Start(w)
        PROVE  acks' = acks
    BY <1>5 DEF ClaimStep, BeginClaim, WinCandidate, LoseCandidate, EndClaim, SettleStep,
                Succeed, Fail, Sweep, Crash, Start
  <1>6. CASE Tick
    BY <1>6 DEF Tick
  <1>7. QED
    BY <1>1, <1>2, <1>3, <1>4, <1>5, <1>6 DEF Next, ApiStep

(* Two callers acknowledged for the same row submitted the same import,    *)
(* with any number of workers and requests.                                *)
THEOREM AcknowledgementsAgree == Spec => []AcksAgree
  <1>1. Init => AcksInv
    BY DEF Init, AcksInv, AcksAgree
  <1>2. TypeOK /\ AcksInv /\ [Next]_vars => AcksInv'
    <2> SUFFICES ASSUME TypeOK, AcksInv, [Next]_vars
                 PROVE  AcksInv'
      OBVIOUS
    <2>1. \A a \in acks :
             /\ a.born <= born'[a.job]
             /\ a.born = born'[a.job] /\ rows'[a.job] # NoRow => a.fp = rows'[a.job].fp
      BY StepsOnTable, OldAcksHold
    <2>2. CASE acks' = acks
      BY <2>1, <2>2 DEF AcksInv, AcksAgree
    <2>3. ASSUME NEW j \in Jobs, NEW f \in Fingerprints,
                 acks' = acks \cup {[job |-> j, fp |-> f, born |-> born'[j]]},
                 rows'[j] # NoRow, rows'[j].fp = f,
                 \/ born'[j] = born[j] + 1
                 \/ born'[j] = born[j] /\ rows[j] # NoRow /\ rows[j].fp = f
          PROVE  AcksInv'
      <3> DEFINE new == [job |-> j, fp |-> f, born |-> born'[j]]
      <3>1. born[j] \in Nat /\ born'[j] \in Nat
        BY <2>3 DEF TypeOK, TableTypeOK
      <3>2. ASSUME NEW a \in acks, a.job = j, a.born = born'[j]
            PROVE  a.fp = f
        BY <2>1, <2>3, <3>2
      <3>3. \A a \in acks' :
             /\ a.born <= born'[a.job]
             /\ a.born = born'[a.job] /\ rows'[a.job] # NoRow => a.fp = rows'[a.job].fp
        BY <2>1, <2>3, <3>1
      <3>4. AcksAgree'
        BY <2>3, <3>2 DEF AcksInv, AcksAgree
      <3>5. QED
        BY <3>3, <3>4 DEF AcksInv
    <2>4. QED
      BY <2>2, <2>3, AcksGrow
  <1>3. AcksInv => AcksAgree
    BY DEF AcksInv
  <1>4. QED
    BY <1>1, <1>2, <1>3, TypeCorrect, PTL DEF Spec

(* With one worker process, the rows that are running and the imports that *)
(* are being executed are the same, from the moment it has reconciled.     *)
THEOREM TableAndWorkerAgree ==
    ASSUME SingleWorker, Workers # {}
    PROVE  Spec => []TableMatchesWorker
  BY HeldRowsAreRunning, RunningRowsAreHeld, PTL DEF TableMatchesWorker

-----------------------------------------------------------------------------
(* The oldest first. *)

(* The candidates of a pass are closed under Before, whatever their limit. *)
LEMMA CandidatesAreOldest ==
    ASSUME TableTypeOK, NEW c \in Candidates, NEW k \in InState("pending"),
           Before(<<rows[k].created, k>>, c)
    PROVE  <<rows[k].created, k>> \in Candidates
  <1> DEFINE d == <<rows[k].created, k>>
             Older(x) == {y \in PendingKeys : Before(y, x)}
  <1>1. c \in PendingKeys /\ Cardinality(Older(c)) < ClaimAttempts
    BY DEF Candidates
  <1>2. d \in PendingKeys
    BY DEF PendingKeys
  <1>3. PendingKeys \subseteq Nat \X Nat
    BY TableAssumption DEF PendingKeys, InState, TableTypeOK, Row, NoRow
  <1>4. IsFiniteSet(PendingKeys)
    <2>1. IsFiniteSet(InState("pending"))
      BY TableAssumption, FS_Subset DEF InState
    <2> DEFINE key == [j \in InState("pending") |-> <<rows[j].created, j>>]
    <2>2. key \in Surjection(InState("pending"), PendingKeys)
      BY DEF Surjection, PendingKeys
    <2>3. QED
      BY <2>1, <2>2, FS_Surjection
  <1>5. IsFiniteSet(Older(c)) /\ IsFiniteSet(Older(d))
    BY <1>4, FS_Subset
  <1>6. Older(d) \subseteq Older(c)
    BY <1>1, <1>2, <1>3 DEF Before
  <1>7. Cardinality(Older(d)) <= Cardinality(Older(c))
    BY <1>5, <1>6, FS_Subset
  <1>8. Cardinality(Older(d)) \in Nat /\ Cardinality(Older(c)) \in Nat /\ ClaimAttempts \in Nat
    BY <1>5, FS_CardinalityType, TableAssumption
  <1>9. Cardinality(Older(d)) < ClaimAttempts
    BY <1>1, <1>7, <1>8
  <1>10. QED
    BY <1>2, <1>9 DEF Candidates

(* What becomes of one row in a step. *)
LEMMA StepsOnRow ==
    ASSUME TableTypeOK, TableStep, NEW j \in Jobs
    PROVE  \/ rows'[j] = rows[j] /\ born'[j] = born[j]
           \/ /\ rows[j] = NoRow /\ rows'[j] \in Row
              /\ born'[j] = born[j] + 1
           \/ /\ rows[j] # NoRow /\ rows'[j] \in Row
              /\ rows'[j].state # "pending" /\ rows'[j].created = rows[j].created
              /\ rows'[j].state \in Settled => rows'[j].updated = now
           \/ Expired(j) /\ rows'[j] = NoRow
  <1> USE DEF TableTypeOK
  <1>1. ASSUME NEW k \in Jobs, NEW f \in Fingerprints, NEW stamp \in 0..now,
               InsertRow(k, f, stamp)
        PROVE  \/ rows'[j] = rows[j] /\ born'[j] = born[j]
               \/ rows[j] = NoRow /\ rows'[j] \in Row /\ born'[j] = born[j] + 1
    BY <1>1 DEF InsertRow, Row, NoRow, Outcomes, Settled
  <1>2. ASSUME NEW k \in Jobs, ClaimRow(k)
        PROVE  \/ rows'[j] = rows[j] /\ born' = born
               \/ /\ rows[j] # NoRow /\ rows'[j] \in Row
                  /\ rows'[j].state # "pending" /\ rows'[j].created = rows[j].created
                  /\ rows'[j].state \in Settled => rows'[j].updated = now
    <2>1. rows[k] \in Row /\ rows[k] # NoRow
      BY <1>2 DEF ClaimRow, NoRow, Row
    <2> DEFINE new == [rows[k] EXCEPT !.state = "running", !.updated = now]
    <2>2. new \in Row /\ new.state = "running" /\ new.created = rows[k].created
      BY <2>1 DEF Row
    <2>3. QED
      BY <1>2, <2>1, <2>2 DEF ClaimRow, Settled
  <1>3. ASSUME NEW k \in Jobs, NEW s \in Settled, NEW o \in Outcomes, rows[k] # NoRow
        PROVE  /\ FinishedRow(rows[k], s, o) \in Row
               /\ FinishedRow(rows[k], s, o).state # "pending"
               /\ FinishedRow(rows[k], s, o).created = rows[k].created
               /\ FinishedRow(rows[k], s, o).updated = now
    <2>1. rows[k] \in Row
      BY <1>3
    <2>2. now \in Nat
      OBVIOUS
    <2>3. FinishedRow(rows[k], s, o) \in Row
      BY <2>1, <2>2, FinishedRowType
    <2>4. /\ FinishedRow(rows[k], s, o).state = s
          /\ FinishedRow(rows[k], s, o).created = rows[k].created
          /\ FinishedRow(rows[k], s, o).updated = now
      BY <2>1 DEF FinishedRow, Row
    <2>5. QED
      BY <2>3, <2>4 DEF Settled
  <1>4. ASSUME NEW k \in Jobs, NEW s \in Settled, NEW o \in Outcomes, FinishRow(k, s, o)
        PROVE  \/ rows'[j] = rows[j] /\ born' = born
               \/ /\ rows[j] # NoRow /\ rows'[j] \in Row
                  /\ rows'[j].state # "pending" /\ rows'[j].created = rows[j].created
                  /\ rows'[j].updated = now
    BY <1>3, <1>4 DEF FinishRow
  <1>5. ASSUME FailRunning
        PROVE  \/ rows'[j] = rows[j] /\ born' = born
               \/ /\ rows[j] # NoRow /\ rows'[j] \in Row
                  /\ rows'[j].state # "pending" /\ rows'[j].created = rows[j].created
                  /\ rows'[j].updated = now
    BY <1>3, <1>5 DEF FailRunning, NoRow, Settled, Outcomes
  <1>6. ASSUME PruneRows
        PROVE  /\ rows'[j] = rows[j] \/ (Expired(j) /\ rows'[j] = NoRow)
               /\ born' = born
    BY <1>6 DEF PruneRows
  <1>7. QED
    BY <1>1, <1>2, <1>4, <1>5, <1>6 DEF TableStep

(* ... of the clock, which every pass outlives by a few ticks at most ... *)
LEMMA StepsOfClock ==
    ASSUME TypeOK, [Next]_vars
    PROVE  now' = now \/ (Tick /\ now' = now + 1)
  <1>1. ASSUME NEW r \in Handlers, ApiStep(r)
        PROVE  now' = now
    BY <1>1 DEF ApiStep, SubmitNew, SubmitKnown, Reattach, Refuse, InsertRow
  <1>2. ASSUME NEW w \in Workers, ClaimStep(w)
        PROVE  now' = now
    BY <1>2 DEF ClaimStep, BeginClaim, WinCandidate, LoseCandidate, EndClaim, ClaimRow
  <1>3. ASSUME NEW w \in Workers, SettleStep(w) \/ Sweep(w) \/ Crash(w) \/ Start(w)
        PROVE  now' = now
    BY <1>3 DEF SettleStep, Succeed, Fail, SucceedRow, FailRow, FinishRow, Sweep, PruneRows,
                Crash, Start, FailRunning
  <1>4. QED
    BY <1>1, <1>2, <1>3 DEF Next, Tick, AdvanceClock, vars

(* ... and of one worker's pass: it ends, it begins, or it is left with    *)
(* fewer candidates, none of which it could have won.                      *)
LEMMA StepsOfPass ==
    ASSUME TypeOK, [Next]_vars, NEW w \in Workers
    PROVE  \/ /\ phase'[w] # "claiming"
              /\ cands'[w] = {} \/ (cands'[w] = cands[w] /\ phase[w] # "claiming")
              /\ waiting'[w] \subseteq waiting[w]
           \/ BeginClaim(w)
           \/ /\ phase'[w] = phase[w] /\ scanned'[w] = scanned[w] /\ waiting'[w] = waiting[w]
              /\ cands'[w] \subseteq cands[w]
              /\ \A c \in cands[w] \ cands'[w] : rows[c[2]].state # "pending"
  <1> USE DEF TypeOK
  <1> DEFINE Kept == phase' = phase /\ scanned' = scanned /\ cands' = cands /\ waiting' = waiting
             Untouched == /\ phase'[w] = phase[w] /\ scanned'[w] = scanned[w]
                          /\ cands'[w] = cands[w] /\ waiting'[w] = waiting[w]
  <1>1. CASE UNCHANGED vars
    BY <1>1 DEF vars
  <1>2. ASSUME NEW r \in Handlers, ApiStep(r)
        PROVE  Kept
    BY <1>2 DEF ApiStep, SubmitNew, SubmitKnown, Reattach, Refuse
  <1>3. ASSUME NEW v \in Workers, ClaimStep(v), v # w
        PROVE  Untouched
    BY <1>3 DEF ClaimStep, BeginClaim, WinCandidate, LoseCandidate, EndClaim
  <1>4. ASSUME NEW c \in cands[w], WinCandidate(w, c)
        PROVE  phase'[w] = "up" /\ cands'[w] = {} /\ waiting'[w] = {}
    BY <1>4 DEF WinCandidate
  <1>5. ASSUME NEW c \in cands[w], LoseCandidate(w, c)
        PROVE  /\ phase' = phase /\ scanned' = scanned /\ waiting' = waiting
               /\ cands'[w] = cands[w] \ {c} /\ rows[c[2]].state # "pending"
    BY <1>5 DEF LoseCandidate
  <1>6. ASSUME EndClaim(w)
        PROVE  phase'[w] = "up" /\ cands'[w] = {} /\ waiting'[w] = {}
    BY <1>6 DEF EndClaim
  <1>7. ASSUME NEW v \in Workers, SettleStep(v) \/ Sweep(v)
        PROVE  Kept
    BY <1>7 DEF SettleStep, Succeed, Fail, Sweep
  <1>8. ASSUME NEW v \in Workers, Crash(v)
        PROVE  \/ phase'[w] = "down" /\ cands'[w] = {} /\ waiting'[w] = {}
               \/ Untouched
    BY <1>8 DEF Crash
  <1>9. ASSUME NEW v \in Workers, Start(v)
        PROVE  \/ phase'[w] = "up" /\ cands' = cands /\ waiting' = waiting /\ phase[w] # "claiming"
               \/ Untouched
    BY <1>9 DEF Start
  <1>10. CASE Tick
    BY <1>10 DEF Tick
  <1>11. ASSUME ClaimStep(w)
         PROVE  \/ BeginClaim(w) \/ EndClaim(w)
                \/ \E c \in cands[w] : WinCandidate(w, c) \/ LoseCandidate(w, c)
    BY <1>11 DEF ClaimStep
  <1>12. CASE \E v \in Workers : ClaimStep(v)
    BY <1>3, <1>4, <1>5, <1>6, <1>11, <1>12
  <1>13. QED
    BY <1>1, <1>2, <1>7, <1>8, <1>9, <1>10, <1>12 DEF Next

(* What the snapshot of a claim pass still says of the table: however much *)
(* happened since it was read, a candidate's row is the one that was read, *)
(* and whatever was pending then, still is, and comes before a candidate   *)
(* is a candidate too.  The candidate's row stays the one that was read    *)
(* because a pass is no longer than the retention: a row that settles      *)
(* meanwhile is too young to be pruned and its id cannot be taken again.   *)
PassInv(w) == phase[w] = "claiming" => scanned[w] <= now /\ now <= scanned[w] + MaxPass

CandidateInv(w, c) ==
    /\ phase[w] = "claiming"
    /\ rows[c[2]] # NoRow /\ rows[c[2]].created = c[1]
    /\ rows[c[2]].state \in Settled => rows[c[2]].updated >= scanned[w]
    /\ \A k \in InState("pending") :
          <<k, born[k]>> \in waiting[w] /\ Before(<<rows[k].created, k>>, c) =>
              <<rows[k].created, k>> \in cands[w]

SnapshotInv ==
    /\ \A w \in Workers : PassInv(w)
    /\ \A w \in Workers : \A h \in waiting[w] : h[2] <= born[h[1]]
    /\ \A w \in Workers : \A c \in cands[w] : CandidateInv(w, c)

LEMMA FreshSnapshot ==
    ASSUME TypeOK, NEW w \in Workers, BeginClaim(w), NEW c \in cands'[w]
    PROVE  CandidateInv(w, c)'
  <1> USE DEF TypeOK
  <1>1. /\ phase'[w] = "claiming" /\ cands'[w] = Candidates
        /\ rows' = rows
    BY DEF BeginClaim
  <1>2. c \in Candidates /\ TableTypeOK
    BY <1>1
  <1>3. PICK j \in Jobs : rows[j].state = "pending" /\ c = <<rows[j].created, j>>
    BY <1>2 DEF Candidates, PendingKeys, InState
  <1>4. rows[j] # NoRow
    BY <1>3 DEF NoRow
  <1>5. c[1] = rows[j].created /\ c[2] = j
    BY <1>3
  <1>6. \A k \in InState("pending") :
           Before(<<rows[k].created, k>>, c) => <<rows[k].created, k>> \in Candidates
    BY <1>2, CandidatesAreOldest
  <1>7. \A k \in InState("pending")' :
           Before(<<rows'[k].created, k>>, c) => <<rows'[k].created, k>> \in cands'[w]
    BY <1>1, <1>6 DEF InState
  <1>8. rows'[c[2]].state \notin Settled
    BY <1>1, <1>3, <1>5 DEF Settled
  <1>9. QED
    BY <1>1, <1>4, <1>5, <1>7, <1>8 DEF CandidateInv

LEMMA StaleSnapshot ==
    ASSUME MaxPass <= TTL, TypeOK, SnapshotInv, TableStep, now' = now \/ UNCHANGED rows,
           NEW w \in Workers, phase'[w] = phase[w], scanned'[w] = scanned[w],
           waiting'[w] = waiting[w], cands'[w] \subseteq cands[w],
           \A d \in cands[w] \ cands'[w] : rows[d[2]].state # "pending",
           NEW c \in cands'[w]
    PROVE  CandidateInv(w, c)'
  <1>1. c \in cands[w] /\ CandidateInv(w, c) /\ PassInv(w)
    BY DEF SnapshotInv
  <1>2. /\ c[1] \in Nat /\ c[2] \in Jobs /\ scanned[w] \in Nat /\ now \in Nat
        /\ TTL \in Nat /\ MaxPass \in Nat /\ TableTypeOK
    BY <1>1, TableAssumption, QueueAssumption DEF TypeOK, TableTypeOK
  <1>3. rows[c[2]] \in Row
    BY <1>1, <1>2 DEF CandidateInv, TableTypeOK
  <1>4. scanned[w] <= now /\ now <= scanned[w] + MaxPass
    BY <1>1 DEF PassInv, CandidateInv
  <1>5. ~ Expired(c[2])
    BY <1>1, <1>2, <1>3, <1>4 DEF Expired, CandidateInv, Row
  <1>6. \/ rows'[c[2]] = rows[c[2]]
        \/ /\ rows'[c[2]] \in Row /\ rows'[c[2]].created = rows[c[2]].created
           /\ rows'[c[2]].state \in Settled => rows'[c[2]].updated = now
    BY <1>1, <1>2, <1>5, StepsOnRow DEF CandidateInv
  <1>7. /\ rows'[c[2]] # NoRow /\ rows'[c[2]].created = c[1]
        /\ rows'[c[2]].state \in Settled => rows'[c[2]].updated >= scanned[w]
    BY <1>1, <1>2, <1>4, <1>6 DEF CandidateInv, Row, NoRow
  <1>8. ASSUME NEW k \in Jobs, rows'[k].state = "pending", <<k, born'[k]>> \in waiting[w],
               Before(<<rows'[k].created, k>>, c)
        PROVE  <<rows'[k].created, k>> \in cands'[w]
    <2>1. rows'[k] = rows[k] /\ born'[k] = born[k]
      <3>1. born'[k] # born[k] + 1
        <4>1. born'[k] <= born[k]
          BY <1>8 DEF SnapshotInv
        <4>2. QED
          BY <1>2, <4>1 DEF TableTypeOK
      <3>2. rows'[k] # NoRow
        BY <1>8 DEF NoRow
      <3>3. QED
        BY <1>2, <1>8, <3>1, <3>2, StepsOnRow
    <2>2. <<rows[k].created, k>> \in cands[w]
      BY <1>1, <1>8, <2>1 DEF CandidateInv, InState
    <2>3. <<rows[k].created, k>>[2] = k
      OBVIOUS
    <2>4. QED
      BY <1>8, <2>1, <2>2, <2>3
  <1>9. QED
    BY <1>1, <1>7, <1>8 DEF CandidateInv, InState

LEMMA SnapshotInvInductive ==
    ASSUME MaxPass <= TTL, TypeOK, SnapshotInv, [Next]_vars
    PROVE  SnapshotInv'
  <1>1. TableStep /\ TableTypeOK /\ now \in Nat /\ MaxPass \in Nat
    BY StepsOnTable, QueueAssumption DEF TypeOK, TableTypeOK
  <1>2. now' = now \/ (Tick /\ now' = now + 1 /\ UNCHANGED rows)
    BY StepsOfClock DEF Tick, AdvanceClock
  <1>3. ASSUME NEW j \in Jobs PROVE born[j] <= born'[j]
    BY <1>1, FingerprintStays DEF TableTypeOK
  <1>4. ASSUME NEW w \in Workers
        PROVE  \A h \in waiting'[w] : h[2] <= born'[h[1]]
    <2>1. CASE waiting'[w] \subseteq waiting[w]
      <3>1. ASSUME NEW h \in waiting'[w]
            PROVE  h[2] <= born'[h[1]]
        <4>1. h[1] \in Jobs /\ h[2] \in Nat /\ born[h[1]] \in Nat /\ h[2] <= born[h[1]]
          BY <1>1, <2>1, <3>1 DEF SnapshotInv, TypeOK, TableTypeOK
        <4>2. born'[h[1]] \in Nat /\ born[h[1]] <= born'[h[1]]
          BY <1>1, <1>3, <4>1, FingerprintStays
        <4>3. QED
          BY <4>1, <4>2
      <3>2. QED
        BY <3>1
    <2>2. CASE BeginClaim(w)
      BY <1>1, <2>2 DEF BeginClaim, TypeOK, TableTypeOK, InState
    <2>3. QED
      BY <2>1, <2>2, StepsOfPass
  <1>5. ASSUME NEW w \in Workers
        PROVE  PassInv(w)' /\ \A c \in cands'[w] : CandidateInv(w, c)'
    <2>1. CASE /\ phase'[w] # "claiming"
               /\ cands'[w] = {} \/ (cands'[w] = cands[w] /\ phase[w] # "claiming")
      <3>1. PassInv(w)'
        BY <2>1 DEF PassInv
      <3>2. cands'[w] = {}
        BY <2>1 DEF SnapshotInv, CandidateInv
      <3>3. QED
        BY <3>1, <3>2
    <2>2. CASE BeginClaim(w)
      <3>1. PassInv(w)'
        BY <1>1, <2>2 DEF BeginClaim, PassInv, TypeOK
      <3>2. QED
        BY <2>2, <3>1, FreshSnapshot
    <2>3. CASE /\ phase'[w] = phase[w] /\ scanned'[w] = scanned[w] /\ waiting'[w] = waiting[w]
               /\ cands'[w] \subseteq cands[w]
               /\ \A c \in cands[w] \ cands'[w] : rows[c[2]].state # "pending"
      <3>1. PassInv(w)'
        <4>1. PassInv(w) /\ scanned[w] \in Nat
          BY DEF SnapshotInv, TypeOK
        <4>2. Tick => (phase[w] = "claiming" => now < scanned[w] + MaxPass)
          BY DEF Tick, PassesAreShort
        <4>3. QED
          BY <1>1, <1>2, <2>3, <4>1, <4>2 DEF PassInv
      <3>2. ASSUME NEW c \in cands'[w]
            PROVE  CandidateInv(w, c)'
        BY <1>1, <1>2, <2>3, StaleSnapshot
      <3>3. QED
        BY <3>1, <3>2
    <2>4. QED
      BY <2>1, <2>2, <2>3, StepsOfPass
  <1>6. QED
    BY <1>4, <1>5 DEF SnapshotInv

(* A claim takes a row that comes, in created_at and id, before every      *)
(* other one that was pending when the pass began and still is, with any   *)
(* number of workers, however stale the snapshot it works from, and        *)
(* whatever is inserted meanwhile under whatever stamp.  A pass is assumed *)
(* to be no longer than job_ttl_seconds, which is a minute at least.       *)
THEOREM ClaimsAreOldest ==
    ASSUME MaxPass <= TTL
    PROVE  Spec => ClaimsOldest
  <1> DEFINE Claims(w, j) == <<j, born[j]>> \in held'[w] \ held[w]
             Waits(w, k) == <<k, born[k]>> \in waiting[w] /\ rows[k].state = "pending"
             Older(j, k) == \/ rows[j].created < rows[k].created
                            \/ rows[j].created = rows[k].created /\ j <= k
  <1>1. Init => SnapshotInv
    BY DEF Init, SnapshotInv, PassInv
  <1>2. TypeOK /\ SnapshotInv /\ [Next]_vars => SnapshotInv'
    BY SnapshotInvInductive
  <1>3. TypeOK /\ SnapshotInv /\ [Next]_vars =>
            [\A w \in Workers, j, k \in Jobs :
                /\ Claims(w, j)
                /\ Waits(w, k)
                => Older(j, k)]_vars
    <2> SUFFICES ASSUME TypeOK, SnapshotInv, [Next]_vars,
                        NEW w \in Workers, NEW j \in Jobs, NEW k \in Jobs,
                        Claims(w, j), Waits(w, k)
                 PROVE  Older(j, k)
      OBVIOUS
    <2>1. PICK v \in Workers : \E c \in cands[v] : WinCandidate(v, c)
      BY HeldGrowsByClaims
    <2>2. PICK c \in cands[v] : WinCandidate(v, c)
      BY <2>1
    <2>3. v = w /\ c[2] = j
      BY <2>2 DEF WinCandidate, TypeOK
    <2>4. CandidateInv(w, c) /\ c[1] = rows[j].created
      BY <2>2, <2>3 DEF SnapshotInv, CandidateInv
    <2>5. /\ c[1] \in Nat /\ rows[k].created \in Nat /\ j \in Nat /\ k \in Nat
          /\ c = <<c[1], c[2]>>
      BY <2>2, TableAssumption DEF TypeOK, TableTypeOK, Row, NoRow
    <2>6. CASE Before(<<rows[k].created, k>>, c)
      <3> DEFINE d == <<rows[k].created, k>>
      <3>1. d \in cands[w]
        BY <2>4, <2>6 DEF CandidateInv, InState
      <3>2. d = c \/ Before(c, d)
        BY <2>2, <2>3, <3>1 DEF WinCandidate, IsOldest
      <3>3. QED
        BY <2>3, <2>4, <2>5, <2>6, <3>2 DEF Before
    <2>7. CASE ~ Before(<<rows[k].created, k>>, c)
      BY <2>3, <2>4, <2>5, <2>7 DEF Before
    <2>8. QED
      BY <2>6, <2>7
  <1>4. QED
    BY <1>1, <1>2, <1>3, TypeCorrect, PTL DEF Spec, ClaimsOldest

=============================================================================
