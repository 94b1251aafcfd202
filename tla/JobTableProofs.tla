---------------------------- MODULE JobTableProofs ----------------------------
(* Lemmas about the statements of the jobs table, for whoever issues them. *)
EXTENDS JobTable, TLAPS

(* What a statement does to the table keeps it a table. *)
LEMMA FinishedRowType ==
    ASSUME NEW row \in Row, NEW s \in Settled, NEW o \in Outcomes, now \in Nat
    PROVE  FinishedRow(row, s, o) \in Row
  BY DEF FinishedRow, Row, Settled, Outcomes

LEMMA InsertRowType ==
    ASSUME TableTypeOK, NEW j \in Jobs, NEW f \in Fingerprints, NEW stamp \in Nat,
           InsertRow(j, f, stamp)
    PROVE  TableTypeOK'
  BY DEF TableTypeOK, InsertRow, Row, NoRow, Outcomes

LEMMA ClaimRowType ==
    ASSUME TableTypeOK, NEW j \in Jobs, ClaimRow(j)
    PROVE  TableTypeOK'
  <1>1. rows[j] \in Row
    BY DEF TableTypeOK, ClaimRow, NoRow
  <1>2. [rows[j] EXCEPT !.state = "running", !.updated = now] \in Row
    BY <1>1 DEF Row, TableTypeOK
  <1>3. QED
    BY <1>2 DEF TableTypeOK, ClaimRow

LEMMA FinishRowType ==
    ASSUME TableTypeOK, NEW j \in Jobs, NEW s \in Settled, NEW o \in Outcomes,
           FinishRow(j, s, o)
    PROVE  TableTypeOK'
  <1>1. rows[j] # NoRow => FinishedRow(rows[j], s, o) \in Row
    BY FinishedRowType DEF TableTypeOK
  <1>2. QED
    BY <1>1 DEF TableTypeOK, FinishRow

LEMMA FailRunningType ==
    ASSUME TableTypeOK, FailRunning
    PROVE  TableTypeOK'
  <1>1. ASSUME NEW j \in Jobs, rows[j].state = "running"
        PROVE  FinishedRow(rows[j], "failed", "none") \in Row
    <2>1. rows[j] \in Row
      BY <1>1 DEF TableTypeOK, NoRow
    <2>2. QED
      BY <2>1, FinishedRowType DEF TableTypeOK, Settled, Outcomes
  <1>2. QED
    BY <1>1 DEF TableTypeOK, FailRunning

LEMMA PruneRowsType ==
    ASSUME TableTypeOK, PruneRows
    PROVE  TableTypeOK'
  BY DEF TableTypeOK, PruneRows

-----------------------------------------------------------------------------
(* What each statement does to the states of the rows. *)

LEMMA InsertRowStates ==
    ASSUME TableTypeOK, NEW j \in Jobs, NEW f, NEW stamp, InsertRow(j, f, stamp)
    PROVE  /\ rows[j].state = "absent"
           /\ \A k \in Jobs :
                 /\ rows'[k].state = IF k = j THEN "pending" ELSE rows[k].state
                 /\ born'[k] = IF k = j THEN born[k] + 1 ELSE born[k]
  BY DEF TableTypeOK, InsertRow

LEMMA ClaimRowStates ==
    ASSUME TableTypeOK, NEW j \in Jobs, ClaimRow(j)
    PROVE  /\ rows[j].state = "pending"
           /\ UNCHANGED born
           /\ \A k \in Jobs :
                 rows'[k].state = IF k = j THEN "running" ELSE rows[k].state
  <1>1. rows[j] \in Row
    BY DEF TableTypeOK, ClaimRow, NoRow
  <1>2. [rows[j] EXCEPT !.state = "running", !.updated = now].state = "running"
    BY <1>1 DEF Row
  <1>3. QED
    BY <1>2 DEF TableTypeOK, ClaimRow

LEMMA FinishedRowState ==
    ASSUME NEW row \in Row, NEW s, NEW o
    PROVE  FinishedRow(row, s, o).state = s
  BY DEF FinishedRow, Row

LEMMA FinishRowStates ==
    ASSUME TableTypeOK, NEW j \in Jobs, NEW s, NEW o, FinishRow(j, s, o),
           rows[j].state # "absent"
    PROVE  /\ UNCHANGED born
           /\ \A k \in Jobs : rows'[k].state = IF k = j THEN s ELSE rows[k].state
  <1>1. rows[j] # NoRow /\ rows[j] \in Row
    BY DEF TableTypeOK, NoRow
  <1>2. FinishedRow(rows[j], s, o).state = s
    BY <1>1, FinishedRowState
  <1>3. QED
    BY <1>1, <1>2 DEF TableTypeOK, FinishRow

LEMMA FailRunningStates ==
    ASSUME TableTypeOK, FailRunning
    PROVE  /\ UNCHANGED born
           /\ \A k \in Jobs :
                 rows'[k].state = IF rows[k].state = "running" THEN "failed" ELSE rows[k].state
  <1>1. ASSUME NEW k \in Jobs, rows[k].state = "running"
        PROVE  FinishedRow(rows[k], "failed", "none").state = "failed"
    <2>1. rows[k] \in Row
      BY <1>1 DEF TableTypeOK, NoRow
    <2>2. QED
      BY <2>1, FinishedRowState
  <1>2. QED
    BY <1>1 DEF TableTypeOK, FailRunning

LEMMA PruneRowsStates ==
    ASSUME TableTypeOK, PruneRows
    PROVE  /\ UNCHANGED born
           /\ \A k \in Jobs :
                 \/ rows'[k].state = rows[k].state
                 \/ rows[k].state \in Settled /\ rows'[k].state = "absent"
  BY DEF TableTypeOK, PruneRows, Expired, NoRow

-----------------------------------------------------------------------------
(* The statements are the steps of JobLifecycle.  Finishing a row asks     *)
(* nothing of its state, so that it has to be known to be running.         *)

FinishesRunning ==
    \E j \in Jobs, s \in Settled, o \in Outcomes : rows[j].state = "running" /\ FinishRow(j, s, o)

Statement ==
    \/ \E j \in Jobs, f \in Fingerprints, stamp \in Nat : InsertRow(j, f, stamp)
    \/ \E j \in Jobs : ClaimRow(j)
    \/ FinishesRunning
    \/ FailRunning
    \/ PruneRows

LEMMA StatementsRefine ==
    ASSUME TableTypeOK, Statement \/ UNCHANGED rows
    PROVE  [Lifecycle!Next]_([j \in Jobs |-> rows[j].state])
  <1> DEFINE bar == [j \in Jobs |-> rows[j].state]
  <1>1. CASE UNCHANGED rows
    BY <1>1
  <1>2. ASSUME NEW j \in Jobs, NEW f \in Fingerprints, NEW stamp \in Nat,
               InsertRow(j, f, stamp)
        PROVE  Lifecycle!Create(j)
    BY <1>2, InsertRowStates DEF Lifecycle!Create
  <1>3. ASSUME NEW j \in Jobs, ClaimRow(j)
        PROVE  Lifecycle!HandOut(j)
    BY <1>3, ClaimRowStates DEF Lifecycle!HandOut
  <1>4. ASSUME NEW j \in Jobs, NEW s \in Settled, NEW o \in Outcomes,
               rows[j].state = "running", FinishRow(j, s, o)
        PROVE  Lifecycle!Settle(j)
    <2>1. \A k \in Jobs : rows'[k].state = IF k = j THEN s ELSE rows[k].state
      BY <1>4, FinishRowStates
    <2>2. bar' = [bar EXCEPT ![j] = s]
      BY <2>1
    <2>3. QED
      BY <1>4, <2>2 DEF Lifecycle!Settle, Lifecycle!TerminalStates, Settled
  <1>5. CASE FailRunning
    <2>1. bar' = [j \in Jobs |-> IF bar[j] = "running" THEN "failed" ELSE bar[j]]
      BY <1>5, FailRunningStates
    <2>2. QED
      BY <2>1 DEF Lifecycle!Next, Lifecycle!Disown
  <1>6. CASE PruneRows
    <2> DEFINE E == {j \in Jobs : Expired(j)}
    <2>1. E \in SUBSET {j \in Jobs : bar[j] \in Lifecycle!TerminalStates}
      BY DEF Expired, Settled, Lifecycle!TerminalStates
    <2>2. bar' = [j \in Jobs |-> IF j \in E THEN "absent" ELSE bar[j]]
      BY <1>6 DEF PruneRows, NoRow
    <2>3. QED
      BY <2>1, <2>2 DEF Lifecycle!Next, Lifecycle!Evict
  <1>7. QED
    BY <1>1, <1>2, <1>3, <1>4, <1>5, <1>6 DEF Statement, FinishesRunning, Lifecycle!Next

LEMMA InitIsLifecycleInit == TableInit => Lifecycle!Init
  BY DEF TableInit, NoRow, Lifecycle!Init

=============================================================================
