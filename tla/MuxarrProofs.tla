----------------------------- MODULE MuxarrProofs -----------------------------
(***************************************************************************)
(* What the shim, the API and the worker owe each other, for any number of *)
(* imports, retries and crashes, and for requests that live as long as     *)
(* PostLife says.                                                          *)
(*                                                                         *)
(* The steps of the system are first summed up by what they may do to one  *)
(* row, one script and the POSTs under way; every invariant is then shown  *)
(* for these few cases.                                                    *)
(***************************************************************************)
EXTENDS Muxarr, JobTableProofs

LEMMA Bounds ==
    /\ TTL \in Nat /\ Deadline \in Nat /\ PostLife \in Nat
    /\ MaxRetries \in Nat /\ MaxRetries >= 1
  BY TableAssumption, ShimAssumption

-----------------------------------------------------------------------------
(* The types. *)

LEMMA InitTypes == Init => TypeOK
  <1> SUFFICES ASSUME Init PROVE TypeOK
    OBVIOUS
  <1> USE DEF Init
  <1>1. TableTypeOK
    BY DEF TableInit, TableTypeOK
  <1>2. alive \in BOOLEAN
    BY Zenon
  <1>3. QED
    BY <1>1, <1>2, Bounds DEF TypeOK, ShimStates

(* Every step leaves the table a table. *)
LEMMA StepsKeepTable == ASSUME TypeOK, [Next]_vars PROVE TableTypeOK'
  <1> USE DEF TypeOK
  <1>1. ASSUME UNCHANGED tableVars PROVE TableTypeOK'
    BY <1>1 DEF tableVars, TableTypeOK
  <1>2. ASSUME NEW m \in posts, Enqueue(m) PROVE TableTypeOK'
    <2>1. m.job \in Jobs /\ m.at \in Nat /\ now \in Nat
      BY DEF TableTypeOK
    <2>2. \A stamp \in m.at .. now : stamp \in Nat
      BY <2>1
    <2>3. QED
      BY <1>1, <1>2, <2>1, <2>2, InsertRowType DEF Enqueue
  <1>3. ASSUME NEW j \in Jobs, ShimStep(j) PROVE TableTypeOK'
    BY <1>1, <1>3 DEF ShimStep, Begin, SendPost, PostFailed, Defer, GiveUp, SendPoll, Settle,
       StillRunning, PollFailed, tableVars
  <1>4. ASSUME NEW j \in Jobs, Claim(j) PROVE TableTypeOK'
    BY <1>4, ClaimRowType DEF Claim
  <1>5. ASSUME NEW j \in Jobs, TaskStep(j) PROVE TableTypeOK'
    <2>1. CASE Place(j)
      BY <1>1, <2>1 DEF Place, tableVars
    <2>2. CASE ReportDefer(j)
      BY <2>2, FinishRowType DEF ReportDefer, SucceedRow, Settled, Outcomes
    <2>3. CASE ReportRename(j)
      BY <2>3, FinishRowType DEF ReportRename, SucceedRow, Settled, Outcomes
    <2>4. CASE ReportError(j)
      BY <2>4, FinishRowType DEF ReportError, FailRow, Settled, Outcomes
    <2>5. QED
      BY <1>5, <2>1, <2>2, <2>3, <2>4 DEF TaskStep
  <1>6. ASSUME NEW m \in posts, PostStep(m) PROVE TableTypeOK'
    <2>1. m.job \in Jobs
      OBVIOUS
    <2>2. QED
      BY <1>1, <1>2, <1>6, <2>1 DEF PostStep, DropPost, ServePost, ServePostEchoed, tableVars
  <1>7. CASE Sweep
    BY <1>7, PruneRowsType DEF Sweep
  <1>8. CASE Crash
    BY <1>1, <1>8 DEF Crash, tableVars
  <1>9. CASE Restart
    BY <1>9, FailRunningType DEF Restart
  <1>10. CASE Tick
    BY <1>10 DEF Tick, AdvanceClock, TableTypeOK
  <1>11. CASE UNCHANGED vars
    BY <1>1, <1>11 DEF vars, tableVars
  <1>12. QED
    BY <1>3, <1>4, <1>5, <1>6, <1>7, <1>8, <1>9, <1>10, <1>11 DEF Next

-----------------------------------------------------------------------------
(* What a step may do to the row of import j. *)

RowKept(j) == UNCHANGED <<rows[j], born[j]>>

(* A POST of the import is served for the first time ... *)
RowInserted(j) ==
    /\ rows[j] = NoRow
    /\ \E m \in posts : m.job = j /\ rows'[j].updated \in m.at .. now
    /\ rows'[j] # NoRow
    /\ rows'[j].state = "pending"
    /\ born'[j] = born[j] + 1
    /\ now' = now

(* ... the worker moves the row on ... *)
RowMoved(j) ==
    /\ rows[j] # NoRow /\ rows'[j] # NoRow
    /\ rows'[j].updated = now
    /\ rows'[j].state = "succeeded" => rows'[j].outcome \in Printed
    /\ UNCHANGED <<born[j], now>>

(* ... or prunes it. *)
RowPruned(j) ==
    /\ rows[j] # NoRow /\ rows'[j] = NoRow
    /\ rows[j].state \in Settled
    /\ rows[j].updated < now - TTL
    /\ UNCHANGED <<born[j], now>>

RowStep(j) == RowKept(j) \/ RowInserted(j) \/ RowMoved(j) \/ RowPruned(j)

LEMMA FinishedRowFields ==
    ASSUME TypeOK, NEW row \in Row, NEW s \in Settled, NEW o \in Outcomes
    PROVE  /\ FinishedRow(row, s, o) \in Row
           /\ FinishedRow(row, s, o).updated = now
           /\ FinishedRow(row, s, o).state = s
           /\ o # "none" => FinishedRow(row, s, o).outcome = o
  <1>1. FinishedRow(row, s, o) \in Row
    BY FinishedRowType DEF TypeOK, TableTypeOK
  <1>2. QED
    BY <1>1 DEF FinishedRow, Row, Settled

LEMMA RowSteps == ASSUME TypeOK, [Next]_vars PROVE \A k \in Jobs : RowStep(k)
  <1> SUFFICES ASSUME NEW k \in Jobs PROVE RowStep(k)
    OBVIOUS
  <1> USE DEF TypeOK, RowStep
  <1>0. /\ rows[k] = NoRow \/ rows[k] \in Row
        /\ \A row \in Row : row # NoRow
    BY DEF TableTypeOK, Row, NoRow
  <1>1. ASSUME UNCHANGED <<rows, born>> PROVE RowKept(k)
    BY <1>1 DEF RowKept
  <1>2. ASSUME NEW m \in posts, Enqueue(m) PROVE RowStep(k)
    <2>1. m.job \in Jobs
      OBVIOUS
    <2>2. CASE rows[m.job] # NoRow
      BY <1>1, <1>2, <2>2 DEF Enqueue, tableVars
    <2>3. CASE rows[m.job] = NoRow
      <3>1. PICK f \in Fingerprints, stamp \in m.at .. now : InsertRow(m.job, f, stamp)
        BY <1>2, <2>3 DEF Enqueue
      <3>2. CASE k = m.job
        BY <2>1, <2>3, <3>1, <3>2 DEF InsertRow, RowInserted, TableTypeOK, NoRow
      <3>3. CASE k # m.job
        BY <2>1, <3>1, <3>3 DEF InsertRow, RowKept, TableTypeOK
      <3>4. QED
        BY <3>2, <3>3
    <2>4. QED
      BY <2>2, <2>3
  <1>3. ASSUME NEW j \in Jobs, ClaimRow(j) PROVE RowStep(k)
    <2>1. CASE k = j
      <3>1. rows[k] \in Row
        BY <1>0, <1>3, <2>1 DEF ClaimRow, NoRow
      <3>2. rows'[k] = [rows[k] EXCEPT !.state = "running", !.updated = now]
        BY <1>3, <2>1 DEF ClaimRow, TableTypeOK
      <3>3. rows'[k] \in Row /\ rows'[k].updated = now /\ rows'[k].state = "running"
        BY <3>1, <3>2 DEF Row, TableTypeOK
      <3>4. QED
        BY <1>0, <1>3, <3>1, <3>3 DEF RowMoved, ClaimRow
    <2>2. CASE k # j
      BY <1>3, <2>2 DEF ClaimRow, RowKept, TableTypeOK
    <2>3. QED
      BY <2>1, <2>2
  <1>5. ASSUME NEW j \in Jobs, NEW s \in Settled, NEW o \in Outcomes, FinishRow(j, s, o),
               s = "succeeded" => o \in Printed
        PROVE  RowStep(k)
    <2>1. CASE k = j /\ rows[j] # NoRow
      <3>1. rows[k] \in Row /\ rows'[k] = FinishedRow(rows[k], s, o)
        BY <1>0, <1>5, <2>1 DEF FinishRow, TableTypeOK
      <3>2. QED
        BY <1>0, FinishedRowFields, <1>5, <3>1 DEF RowMoved, FinishRow, Printed, Settled
    <2>2. CASE k # j \/ rows[j] = NoRow
      BY <1>5, <2>2 DEF FinishRow, RowKept, TableTypeOK
    <2>3. QED
      BY <2>1, <2>2
  <1>6. CASE \E j \in Jobs : ShimStep(j)
    BY <1>1, <1>6 DEF ShimStep, Begin, SendPost, PostFailed, Defer, GiveUp, SendPoll, Settle,
       StillRunning, PollFailed
  <1>7. CASE \E j \in Jobs : Claim(j)
    BY <1>3, <1>7 DEF Claim
  <1>8. CASE \E j \in Jobs : TaskStep(j)
    <2>1. PICK j \in Jobs : TaskStep(j)
      BY <1>8
    <2>2. CASE Place(j)
      BY <1>1, <2>2 DEF Place
    <2>3. CASE ReportDefer(j)
      BY <1>5, <2>3 DEF ReportDefer, SucceedRow, Settled, Outcomes, Printed
    <2>4. CASE ReportRename(j)
      BY <1>5, <2>4 DEF ReportRename, SucceedRow, Settled, Outcomes, Printed
    <2>5. CASE ReportError(j)
      BY <1>5, <2>5 DEF ReportError, FailRow, Settled, Outcomes
    <2>6. QED
      BY <2>1, <2>2, <2>3, <2>4, <2>5 DEF TaskStep
  <1>9. CASE \E m \in posts : PostStep(m)
    BY <1>1, <1>2, <1>9 DEF PostStep, DropPost, ServePost, ServePostEchoed
  <1>10. CASE Sweep
    BY <1>10, <1>0 DEF Sweep, PruneRows, Expired, RowKept, RowPruned, TableTypeOK, NoRow, Settled
  <1>11. CASE Crash
    BY <1>1, <1>11 DEF Crash
  <1>12. CASE Restart
    <2>1. CASE rows[k].state = "running"
      <3>1. rows[k] \in Row
        BY <1>0, <2>1 DEF NoRow
      <3>2. rows'[k] = FinishedRow(rows[k], "failed", "none")
        BY <1>12, <2>1 DEF Restart, FailRunning
      <3>3. QED
        BY <1>0, FinishedRowFields, <1>12, <3>1, <3>2 DEF Restart, FailRunning, RowMoved, Settled, Outcomes
    <2>2. CASE rows[k].state # "running"
      BY <1>12, <2>2 DEF Restart, FailRunning, RowKept
    <2>3. QED
      BY <2>1, <2>2
  <1>13. CASE Tick \/ UNCHANGED vars
    BY <1>1, <1>13 DEF Tick, AdvanceClock, vars
  <1>14. QED
    BY <1>6, <1>7, <1>8, <1>9, <1>10, <1>11, <1>12, <1>13 DEF Next

-----------------------------------------------------------------------------
(* What a step may do to the script of import j.  Time stands still.       *)

ScriptKept(j) == UNCHANGED <<shim[j], started[j], sent[j], failures[j]>>

Starts(j) ==
    /\ shim[j] = "idle" /\ shim'[j] = "submit"
    /\ started'[j] = now
    /\ UNCHANGED <<now, sent[j], failures[j], rows[j]>>

Submits(j) ==
    /\ shim[j] = "submit" /\ shim'[j] = "posted"
    /\ failures[j] < MaxRetries
    /\ failures'[j] = failures[j] + 1
    /\ sent'[j] = now
    /\ UNCHANGED <<now, started[j], rows[j]>>

IsUnanswered(j) ==
    /\ shim[j] = "posted" /\ shim'[j] = "submit"
    /\ UNCHANGED <<now, started[j], sent[j], failures[j], rows[j]>>

IsAccepted(j) ==
    /\ shim[j] = "posted" /\ shim'[j] = "poll"
    /\ failures'[j] = 0
    /\ rows'[j] # NoRow
    /\ UNCHANGED <<now, started[j], sent[j]>>

Asks(j) ==
    /\ shim[j] = "poll" /\ shim'[j] = "asked"
    /\ sent'[j] = now
    /\ UNCHANGED <<now, started[j], failures[j], rows[j]>>

IsToldToWait(j) ==
    /\ shim[j] = "asked" /\ shim'[j] = "poll"
    /\ PollState(j) = "running"
    /\ failures'[j] = 0
    /\ UNCHANGED <<now, started[j], sent[j], rows[j]>>

HearsNothing(j) ==
    /\ shim[j] = "asked" /\ shim'[j] = "poll"
    /\ failures'[j] = failures[j] + 1
    /\ failures'[j] < MaxRetries
    /\ UNCHANGED <<now, started[j], sent[j], rows[j]>>

IsOver(j) ==
    /\ shim[j] \in {"submit", "poll", "asked"} /\ shim'[j] \in Exits
    /\ shim'[j] = "unknown" => shim[j] = "asked" /\ rows[j] = NoRow
    /\ shim'[j] \in Printed =>
          rows[j] # NoRow /\ rows[j].state = "succeeded" /\ rows[j].outcome = shim'[j]
    /\ UNCHANGED <<now, started[j], sent[j], rows[j]>>

ScriptStep(j) ==
    \/ ScriptKept(j) \/ Starts(j) \/ Submits(j) \/ IsUnanswered(j) \/ IsAccepted(j)
    \/ Asks(j) \/ IsToldToWait(j) \/ HearsNothing(j) \/ IsOver(j)

(* Only scripts and answers to POSTs move a script. *)
LEMMA ScriptSteps == ASSUME TypeOK, [Next]_vars PROVE \A k \in Jobs : ScriptStep(k)
  <1> SUFFICES ASSUME NEW k \in Jobs PROVE ScriptStep(k)
    OBVIOUS
  <1> USE DEF TypeOK, ScriptStep
  <1>1. ASSUME UNCHANGED shimVars PROVE ScriptKept(k)
    BY <1>1 DEF shimVars, ScriptKept
  <1>2. ASSUME NEW j \in Jobs, NEW s, Goto(j, s)
        PROVE  shim'[k] = IF k = j THEN s ELSE shim[k]
    BY <1>2 DEF Goto
  <1>3. ASSUME NEW j \in Jobs, ShimStep(j) PROVE ScriptStep(k)
    <2>1. CASE Begin(j)
      BY <1>2, <2>1 DEF Begin, Starts, ScriptKept
    <2>2. CASE SendPost(j)
      BY <1>2, <2>2 DEF SendPost, Submits, ScriptKept
    <2>3. CASE PostFailed(j)
      BY <1>2, <2>3 DEF PostFailed, IsUnanswered, ScriptKept
    <2>4. CASE Defer(j)
      BY <1>2, <2>4 DEF Defer, IsOver, Exits, Printed, ScriptKept
    <2>5. CASE GiveUp(j)
      BY <1>2, <2>5 DEF GiveUp, IsOver, Exits, Printed, Gaveup, ScriptKept
    <2>6. CASE SendPoll(j)
      BY <1>2, <2>6 DEF SendPoll, Asks, ScriptKept
    <2>7. CASE StillRunning(j)
      BY <1>2, <2>7 DEF StillRunning, IsToldToWait, ScriptKept
    <2>8. CASE PollFailed(j)
      <3>1. CASE k # j
        BY <1>2, <2>8, <3>1 DEF PollFailed, ScriptKept
      <3>2. CASE k = j /\ failures[j] + 1 < MaxRetries
        BY <1>2, <2>8, <3>2, Bounds DEF PollFailed, HearsNothing
      <3>3. CASE k = j /\ ~ (failures[j] + 1 < MaxRetries)
        BY <1>2, <2>8, <3>3, Bounds DEF PollFailed, IsOver, Exits, Printed, Gaveup
      <3>4. QED
        BY <3>1, <3>2, <3>3
    <2>9. CASE Settle(j)
      <3>1. rows[j] = NoRow \/ rows[j] \in Row
        BY DEF TableTypeOK
      <3>2. \/ PollState(j) = "unknown" /\ rows[j] = NoRow
            \/ /\ PollState(j) = "done" /\ rows[j] # NoRow
               /\ rows[j].state = "succeeded" /\ rows[j].outcome \in Printed
            \/ PollState(j) = "error"
        BY <2>9, <3>1 DEF Settle, PollState, Row, Outcomes, Printed
      <3>3. CASE k # j
        BY <1>2, <2>9, <3>3 DEF Settle, ScriptKept
      <3>4. CASE k = j
        BY <1>2, <2>9, <3>2, <3>4 DEF Settle, IsOver, Exits, Printed, Gaveup
      <3>5. QED
        BY <3>3, <3>4
    <2>10. QED
      BY <1>3, <2>1, <2>2, <2>3, <2>4, <2>5, <2>6, <2>7, <2>8, <2>9 DEF ShimStep
  <1>4. ASSUME NEW m \in posts, PostStep(m) PROVE ScriptStep(k)
    <2>1. m.job \in Jobs
      OBVIOUS
    <2>2. CASE DropPost(m) \/ ServePost(m)
      BY <1>1, <2>2 DEF DropPost, ServePost
    <2>3. CASE ServePostEchoed(m)
      <3>0. shim'[k] = IF k = m.job THEN "poll" ELSE shim[k]
        BY <1>2, <2>1, <2>3 DEF ServePostEchoed
      <3>1. k # m.job => ScriptKept(k)
        BY <2>3, <3>0 DEF ServePostEchoed, ScriptKept
      <3>2. rows'[m.job] # NoRow /\ now' = now
        <4>1. CASE rows[m.job] # NoRow
          BY <2>3, <4>1 DEF ServePostEchoed, Enqueue, tableVars
        <4>2. CASE rows[m.job] = NoRow
          <5>1. PICK f \in Fingerprints, stamp \in m.at .. now : InsertRow(m.job, f, stamp)
            BY <2>3, <4>2 DEF ServePostEchoed, Enqueue
          <5>2. rows'[m.job].state = "pending" /\ now' = now
            BY <2>1, <5>1 DEF InsertRow, TableTypeOK
          <5>3. QED
            BY <5>2 DEF NoRow
        <4>3. QED
          BY <4>1, <4>2
      <3>3. k = m.job => IsAccepted(k)
        BY <2>1, <2>3, <3>0, <3>2 DEF ServePostEchoed, IsAccepted
      <3>4. QED
        BY <3>1, <3>3
    <2>4. QED
      BY <1>4, <2>2, <2>3 DEF PostStep
  <1>5. ASSUME NEW j \in Jobs, Claim(j) \/ TaskStep(j) PROVE ScriptKept(k)
    BY <1>1, <1>5 DEF Claim, TaskStep, Place, ReportDefer, ReportRename, ReportError
  <1>6. CASE Sweep \/ Crash \/ Restart \/ Tick \/ UNCHANGED vars
    BY <1>1, <1>6 DEF Sweep, Crash, Restart, Tick, vars, shimVars
  <1>7. QED
    BY <1>3, <1>4, <1>5, <1>6 DEF Next

-----------------------------------------------------------------------------
(* What a step may do to the clock and to the POSTs under way. *)

LEMMA ClockSteps ==
    ASSUME TypeOK, [Next]_vars
    PROVE  \/ now' = now
           \/ /\ now' = now + 1
              /\ ShimsOnTime /\ PostsOnTime
              /\ UNCHANGED <<rows, born, shimVars, posts>>
  <1>1. ASSUME NEW j \in Jobs, ShimStep(j) \/ Claim(j) \/ TaskStep(j) PROVE now' = now
    BY <1>1 DEF ShimStep, Begin, SendPost, PostFailed, Defer, GiveUp, SendPoll, Settle,
       StillRunning, PollFailed, Claim, ClaimRow, TaskStep, Place, ReportDefer, ReportRename,
       ReportError, SucceedRow, FailRow, FinishRow
  <1>2. ASSUME NEW m \in posts, PostStep(m) PROVE now' = now
    BY <1>2 DEF PostStep, DropPost, ServePost, ServePostEchoed, Enqueue, InsertRow, tableVars
  <1>3. CASE Sweep \/ Crash \/ Restart \/ UNCHANGED vars
    BY <1>3 DEF Sweep, PruneRows, Crash, Restart, FailRunning, vars
  <1>4. CASE Tick
    BY <1>4 DEF Tick, AdvanceClock
  <1>5. QED
    BY <1>1, <1>2, <1>3, <1>4 DEF Next

(* A new POST is the next attempt of a script that submits. *)
LEMMA PostSteps ==
    ASSUME TypeOK, [Next]_vars
    PROVE  \A m \in posts' :
              \/ m \in posts
              \/ /\ m.job \in Jobs /\ m.attempt \in 1..MaxRetries /\ m.at = now
                 /\ Submits(m.job) /\ m.attempt = failures'[m.job]
  <1> USE DEF TypeOK
  <1>1. ASSUME NEW j \in Jobs, SendPost(j), NEW m \in posts', m \notin posts
        PROVE  /\ m.job \in Jobs /\ m.attempt \in 1..MaxRetries /\ m.at = now
               /\ Submits(m.job) /\ m.attempt = failures'[m.job]
    <2>1. m = [job |-> j, attempt |-> failures[j] + 1, at |-> now]
      BY <1>1 DEF SendPost
    <2>2. Submits(j) /\ failures'[j] = failures[j] + 1
      BY <1>1 DEF SendPost, Submits, Goto
    <2>3. failures[j] + 1 \in 1..MaxRetries
      BY <1>1, Bounds DEF SendPost
    <2>4. QED
      BY <2>1, <2>2, <2>3
  <1>2. ASSUME NEW j \in Jobs, ShimStep(j), ~ SendPost(j) PROVE posts' = posts
    BY <1>2 DEF ShimStep, Begin, PostFailed, Defer, GiveUp, SendPoll, Settle, StillRunning, PollFailed
  <1>3. ASSUME NEW j \in Jobs, Claim(j) \/ TaskStep(j) PROVE posts' = posts
    BY <1>3 DEF Claim, TaskStep, Place, ReportDefer, ReportRename, ReportError
  <1>4. ASSUME NEW m \in posts, PostStep(m) PROVE posts' = posts \ {m}
    BY <1>4 DEF PostStep, DropPost, ServePost, ServePostEchoed
  <1>5. CASE Sweep \/ Crash \/ Restart \/ Tick \/ UNCHANGED vars
    BY <1>5 DEF Sweep, Crash, Restart, Tick, vars
  <1>6. QED
    BY <1>1, <1>2, <1>3, <1>4, <1>5 DEF Next

-----------------------------------------------------------------------------
(* A script makes its way in time: an attempt and a poll take a tick each. *)
PaceInv ==
    \A j \in Jobs :
        /\ started[j] <= now /\ sent[j] <= now
        /\ shim[j] = "submit" => now <= started[j] + failures[j]
        /\ shim[j] = "posted" => sent[j] < started[j] + failures[j]
        /\ shim[j] \in {"posted", "asked"} => now <= sent[j] + 1
        /\ shim[j] \in {"poll", "asked"} => failures[j] < MaxRetries

(* A POST under way was sent by a script that started, in an attempt that  *)
(* dates it.                                                               *)
PostsInv ==
    \A m \in posts :
        /\ shim[m.job] # "idle"
        /\ started[m.job] <= m.at /\ m.at < started[m.job] + m.attempt
        /\ now <= m.at + PostLife

(* A row is there since its script started, and as long as the TTL says.   *)
RowInv ==
    \A j \in Jobs :
        /\ rows[j] = NoRow => born[j] = 0 \/ now > started[j] + TTL
        /\ rows[j] # NoRow => born[j] # 0 /\ rows[j].updated \in started[j] .. now
        /\ rows[j] # NoRow /\ rows[j].state = "succeeded" => rows[j].outcome \in Printed
        /\ shim[j] = "idle" => born[j] = 0

TimeInv == TypeOK /\ PaceInv /\ PostsInv /\ RowInv

LEMMA InitTimes == Init => TimeInv
  <1> SUFFICES ASSUME Init PROVE PaceInv /\ PostsInv /\ RowInv
    BY InitTypes DEF TimeInv
  <1> QED
    BY Bounds DEF Init, TableInit, PaceInv, PostsInv, RowInv, NoRow

(* That a script does not count past its limit follows from its pace. *)
LEMMA StepsKeepTypes == ASSUME TypeOK, PaceInv, [Next]_vars PROVE TypeOK'
  <1> USE StepsKeepTable, Bounds DEF TypeOK, ShimStates, Exits, Printed, Gaveup
  <1>1. ASSUME UNCHANGED <<workVars, posts>>,
               shim' \in [Jobs -> ShimStates], started' \in [Jobs -> Nat],
               sent' \in [Jobs -> Nat], failures' \in [Jobs -> 0..MaxRetries]
        PROVE  TypeOK'
    BY <1>1 DEF workVars
  <1>2. ASSUME NEW j \in Jobs, ShimStep(j) PROVE TypeOK'
    <2>1. TableTypeOK /\ now \in Nat
      BY DEF TableTypeOK
    <2>2. CASE Begin(j)
      BY <1>1, <2>1, <2>2 DEF Begin, Goto
    <2>3. CASE SendPost(j)
      BY <2>1, <2>3 DEF SendPost, Goto, workVars
    <2>4. CASE PostFailed(j)
      BY <1>1, <2>4 DEF PostFailed, Goto
    <2>5. CASE Defer(j)
      BY <1>1, <2>5 DEF Defer, Goto
    <2>6. CASE GiveUp(j)
      BY <1>1, <2>6 DEF GiveUp, Goto
    <2>7. CASE SendPoll(j)
      BY <1>1, <2>1, <2>7 DEF SendPoll, Goto
    <2>8. CASE StillRunning(j)
      BY <1>1, <2>8 DEF StillRunning, Goto
    <2>9. CASE PollFailed(j)
      BY <1>1, <2>9 DEF PollFailed, Goto, PaceInv
    <2>10. CASE Settle(j)
      BY <1>1, <2>1, <2>10 DEF Settle, Goto, PollState, TableTypeOK, Row, Outcomes
    <2>11. QED
      BY <1>2, <2>2, <2>3, <2>4, <2>5, <2>6, <2>7, <2>8, <2>9, <2>10 DEF ShimStep
  <1>3. ASSUME NEW j \in Jobs, Claim(j) \/ TaskStep(j) PROVE TypeOK'
    BY <1>3 DEF Claim, TaskStep, Place, ReportDefer, ReportRename, ReportError, shimVars
  <1>4. ASSUME NEW m \in posts, PostStep(m) PROVE TypeOK'
    <2>1. CASE DropPost(m) \/ ServePost(m)
      BY <1>4, <2>1 DEF DropPost, ServePost, shimVars, workVars
    <2>2. CASE ServePostEchoed(m)
      BY <1>4, <2>2 DEF ServePostEchoed, Goto, workVars
    <2>3. QED
      BY <1>4, <2>1, <2>2 DEF PostStep
  <1>5. CASE Sweep \/ Crash \/ Restart \/ Tick \/ UNCHANGED vars
    <2>1. alive' \in BOOLEAN
      <3>1. CASE Crash \/ Restart
        BY <3>1, Zenon DEF Crash, Restart
      <3>2. CASE Sweep \/ Tick \/ UNCHANGED vars
        BY <3>2 DEF Sweep, Tick, vars, workVars
      <3>3. QED
        BY <1>5, <3>1, <3>2
    <2>2. QED
      BY <1>5, <2>1 DEF Sweep, Crash, Restart, Tick, vars, shimVars, workVars
  <1>6. QED
    BY <1>2, <1>3, <1>4, <1>5 DEF Next

LEMMA StepsKeepPace == ASSUME TimeInv, TypeOK', [Next]_vars PROVE PaceInv'
  <1> USE DEF TypeOK, TableTypeOK
  <1>1. ASSUME NEW k \in Jobs
        PROVE  /\ started'[k] <= now' /\ sent'[k] <= now'
               /\ shim'[k] = "submit" => now' <= started'[k] + failures'[k]
               /\ shim'[k] = "posted" => sent'[k] < started'[k] + failures'[k]
               /\ shim'[k] \in {"posted", "asked"} => now' <= sent'[k] + 1
               /\ shim'[k] \in {"poll", "asked"} => failures'[k] < MaxRetries
    <2>1. ScriptStep(k)
      BY ScriptSteps DEF TimeInv
    <2>2. CASE now' = now
      BY <2>1, <2>2, Bounds DEF TimeInv, PaceInv, ScriptStep, ScriptKept, Starts, Submits,
         IsUnanswered, IsAccepted, Asks, IsToldToWait, HearsNothing, IsOver, Exits, Printed, Gaveup
    <2>3. CASE now' = now + 1 /\ ShimsOnTime /\ UNCHANGED shimVars
      BY <2>3 DEF TimeInv, PaceInv, ShimsOnTime, shimVars
    <2>4. QED
      BY <2>2, <2>3, ClockSteps DEF TimeInv
  <1>2. QED
    BY <1>1 DEF PaceInv

LEMMA StepsKeepPosts == ASSUME TimeInv, TypeOK', [Next]_vars PROVE PostsInv'
  <1> USE DEF TypeOK, TableTypeOK
  <1>1. ASSUME NEW m \in posts'
        PROVE  /\ shim'[m.job] # "idle"
               /\ started'[m.job] <= m.at /\ m.at < started'[m.job] + m.attempt
               /\ now' <= m.at + PostLife
    <2>1. m.job \in Jobs /\ m.at \in Nat /\ m.attempt \in Nat
      BY <1>1, Bounds
    <2>2. ScriptStep(m.job)
      BY <2>1, ScriptSteps DEF TimeInv
    <2>3. CASE m \in posts
      <3>1. /\ shim[m.job] # "idle" /\ now <= m.at + PostLife
            /\ started[m.job] <= m.at /\ m.at < started[m.job] + m.attempt
        BY <2>3 DEF TimeInv, PostsInv
      <3>2. shim'[m.job] # "idle" /\ started'[m.job] = started[m.job]
        BY <2>2, <3>1 DEF ScriptStep, ScriptKept, Starts, Submits, IsUnanswered, IsAccepted, Asks,
           IsToldToWait, HearsNothing, IsOver, Exits, Printed, Gaveup
      <3>3. now' <= m.at + PostLife
        BY <2>1, <2>3, <3>1, ClockSteps, Bounds DEF TimeInv, PostsOnTime
      <3>4. QED
        BY <3>1, <3>2, <3>3
    <2>4. CASE m \notin posts
      <3>1. m.at = now /\ Submits(m.job) /\ m.attempt = failures'[m.job]
        BY <2>4, PostSteps DEF TimeInv
      <3>2. started[m.job] <= now /\ now <= started[m.job] + failures[m.job]
        BY <2>1, <3>1 DEF TimeInv, PaceInv, Submits
      <3>3. started[m.job] \in Nat /\ failures[m.job] \in Nat /\ now \in Nat
        BY <2>1, Bounds DEF TimeInv
      <3>4. QED
        BY <2>1, <3>1, <3>2, <3>3, Bounds DEF Submits
    <2>5. QED
      BY <2>3, <2>4
  <1>2. QED
    BY <1>1 DEF PostsInv

LEMMA StepsKeepRows == ASSUME TimeInv, TypeOK', [Next]_vars PROVE RowInv'
  <1> USE DEF TypeOK, TableTypeOK
  <1>1. ASSUME NEW k \in Jobs
        PROVE  /\ rows'[k] = NoRow => born'[k] = 0 \/ now' > started'[k] + TTL
               /\ rows'[k] # NoRow => born'[k] # 0 /\ rows'[k].updated \in started'[k] .. now'
               /\ rows'[k] # NoRow /\ rows'[k].state = "succeeded" => rows'[k].outcome \in Printed
               /\ shim'[k] = "idle" => born'[k] = 0
    <2>1. RowStep(k) /\ ScriptStep(k)
      BY RowSteps, ScriptSteps DEF TimeInv
    <2>2. now' \in {now, now + 1}
      BY ClockSteps DEF TimeInv
    <2>3. /\ shim'[k] = "idle" => shim[k] = "idle"
          /\ started'[k] = started[k] \/ Starts(k)
      BY <2>1 DEF ScriptStep, ScriptKept, Starts, Submits, IsUnanswered, IsAccepted, Asks,
         IsToldToWait, HearsNothing, IsOver, Exits, Printed, Gaveup
    <2>4. rows[k] # NoRow => rows[k].updated \in Nat
      <3>1. rows[k] # NoRow => rows[k] \in Row
        BY DEF TimeInv
      <3>2. QED
        BY <3>1 DEF Row
    <2>5. CASE RowKept(k)
      BY <2>2, <2>3, <2>4, <2>5, Bounds DEF TimeInv, RowInv, PaceInv, RowKept, Starts
    <2>6. CASE RowInserted(k)
      <3>1. PICK m \in posts : m.job = k /\ rows'[k].updated \in m.at .. now
        BY <2>6 DEF RowInserted
      <3>2. shim[k] # "idle" /\ started[k] <= m.at /\ m.at \in Nat
        BY <3>1 DEF TimeInv, PostsInv
      <3>3. started'[k] = started[k] /\ started[k] \in Nat
        BY <2>3, <3>2 DEF Starts
      <3>4. QED
        BY <2>3, <2>6, <3>1, <3>2, <3>3 DEF RowInserted, TimeInv
    <2>7. CASE RowMoved(k)
      BY <2>3, <2>7 DEF TimeInv, RowInv, PaceInv, RowMoved, Starts
    <2>8. CASE RowPruned(k)
      BY <2>3, <2>4, <2>8, Bounds DEF TimeInv, RowInv, PaceInv, RowPruned, Starts
    <2>9. QED
      BY <2>1, <2>5, <2>6, <2>7, <2>8 DEF RowStep
  <1>2. QED
    BY <1>1 DEF RowInv

LEMMA StepsKeepTimes == ASSUME TimeInv, [Next]_vars PROVE TimeInv'
  <1>1. TypeOK'
    BY StepsKeepTypes DEF TimeInv
  <1>2. QED
    BY <1>1, StepsKeepPace, StepsKeepPosts, StepsKeepRows DEF TimeInv

-----------------------------------------------------------------------------
(* The retention outlasts a submission: a row whose script has only just   *)
(* started is there when the last of its POSTs is served ...               *)
OutlastsPosts == TTL + 1 >= MaxRetries + PostLife

(* ... and it outlasts the attempts that may pass before the first poll,   *)
(* and the polls that may fail in a row.                                   *)
OutlastsPolls == TTL >= 2 * MaxRetries

(* A row is inserted once: a later insertion would follow the pruning of   *)
(* the first, when no POST is under way any more.                          *)
LEMMA StepsKeepSingle ==
    ASSUME OutlastsPosts, TimeInv, QueuedOnce, [Next]_vars
    PROVE  QueuedOnce'
  <1> SUFFICES ASSUME NEW k \in Jobs PROVE born'[k] <= 1
    BY DEF QueuedOnce
  <1> USE Bounds DEF TimeInv, TypeOK, TableTypeOK
  <1>1. RowStep(k)
    BY RowSteps
  <1>2. CASE RowInserted(k)
    <2>1. PICK m \in posts : m.job = k
      BY <1>2 DEF RowInserted
    <2>2. m.at \in Nat /\ m.attempt \in 1..MaxRetries /\ started[k] \in Nat
      OBVIOUS
    <2>3. now < started[k] + m.attempt + PostLife
      BY <2>1, <2>2 DEF PostsInv
    <2>4. ~ (now > started[k] + TTL)
      BY <2>2, <2>3 DEF OutlastsPosts
    <2>5. QED
      BY <1>2, <2>4 DEF RowInv, RowInserted
  <1>3. CASE ~ RowInserted(k)
    BY <1>1, <1>3 DEF RowStep, RowKept, RowMoved, RowPruned, QueuedOnce
  <1>4. QED
    BY <1>2, <1>3

(* What a script that polls may be told: its row was there at the last     *)
(* good answer, and if it is settled it has not been for long.             *)
SilenceInv ==
    \A j \in Jobs :
        /\ shim[j] # "unknown"
        /\ shim[j] \in {"poll", "asked"} => rows[j] # NoRow
        /\ shim[j] = "poll" /\ rows[j].state \in Settled =>
              now <= rows[j].updated + MaxRetries + failures[j]
        /\ shim[j] = "asked" /\ rows[j].state \in Settled =>
              sent[j] <= rows[j].updated + MaxRetries + failures[j]

LEMMA StepsKeepSilence ==
    ASSUME OutlastsPolls, TimeInv, SilenceInv, [Next]_vars
    PROVE  SilenceInv'
  <1>1. TimeInv'
    BY StepsKeepTimes
  <1> USE Bounds DEF TimeInv, TypeOK, TableTypeOK
  <1>2. ASSUME NEW k \in Jobs
        PROVE  /\ shim'[k] # "unknown"
               /\ shim'[k] \in {"poll", "asked"} => rows'[k] # NoRow
               /\ shim'[k] = "poll" /\ rows'[k].state \in Settled =>
                     now' <= rows'[k].updated + MaxRetries + failures'[k]
               /\ shim'[k] = "asked" /\ rows'[k].state \in Settled =>
                     sent'[k] <= rows'[k].updated + MaxRetries + failures'[k]
    <2>1. RowStep(k) /\ ScriptStep(k)
      BY RowSteps, ScriptSteps
    <2>2. /\ rows[k] # NoRow => rows[k] \in Row /\ rows[k].updated \in Nat
          /\ rows'[k] # NoRow => rows'[k] \in Row /\ rows'[k].updated \in Nat
          /\ NoRow.state \notin Settled
      BY <1>1 DEF Row, NoRow, Settled
    <2>3. rows'[k] # NoRow => rows'[k].updated <= now' /\ started'[k] <= rows'[k].updated
      BY <1>1 DEF RowInv
    <2>4. CASE now' = now + 1 /\ ShimsOnTime /\ UNCHANGED <<rows, shimVars>>
      BY <2>4 DEF SilenceInv, ShimsOnTime, shimVars
    <2>5. CASE now' = now /\ ScriptKept(k)
      <3>1. CASE RowKept(k)
        BY <2>5, <3>1 DEF SilenceInv, ScriptKept, RowKept
      <3>2. CASE RowInserted(k) \/ RowMoved(k)
        BY <1>1, <2>2, <2>5, <3>2 DEF SilenceInv, ScriptKept, RowInserted, RowMoved, PaceInv
      <3>3. CASE RowPruned(k)
        <4>1. shim[k] \notin {"poll", "asked"}
          BY <2>2, <3>3 DEF SilenceInv, PaceInv, RowPruned, OutlastsPolls
        <4>2. QED
          BY <2>5, <4>1 DEF SilenceInv, ScriptKept
      <3>4. QED
        BY <2>1, <3>1, <3>2, <3>3 DEF RowStep
    <2>6. CASE now' = now /\ ~ ScriptKept(k)
      <3>1. CASE Starts(k) \/ Submits(k) \/ IsUnanswered(k)
        BY <3>1 DEF Starts, Submits, IsUnanswered
      <3>2. CASE IsAccepted(k)
        BY <2>2, <2>3, <3>2 DEF IsAccepted, PaceInv
      <3>3. CASE Asks(k)
        BY <2>2, <3>3 DEF Asks, SilenceInv
      <3>4. CASE IsToldToWait(k)
        <4>1. rows'[k].state \notin Settled
          BY <2>2, <3>4 DEF IsToldToWait, PollState, RowInv, Settled, Printed, SilenceInv, Row
        <4>2. QED
          BY <3>4, <4>1 DEF IsToldToWait, SilenceInv
      <3>5. CASE HearsNothing(k)
        BY <2>2, <3>5 DEF HearsNothing, SilenceInv, PaceInv
      <3>6. CASE IsOver(k)
        BY <3>6 DEF IsOver, SilenceInv, Exits, Printed, Gaveup
      <3>7. QED
        BY <2>1, <2>6, <3>1, <3>2, <3>3, <3>4, <3>5, <3>6 DEF ScriptStep
    <2>7. QED
      BY <2>4, <2>5, <2>6, ClockSteps
  <1>3. QED
    BY <1>2 DEF SilenceInv

-----------------------------------------------------------------------------
(* What a step may do to the task of import j and to the row it works on.  *)

TaskKept(j) == UNCHANGED <<stage[j], placed[j]>>

TaskClaims(j) ==
    /\ alive
    /\ rows[j] # NoRow /\ rows[j].state = "pending"
    /\ rows'[j] # NoRow /\ rows'[j].state = "running"
    /\ stage'[j] = "importing"
    /\ UNCHANGED <<placed[j], born[j], alive>>

TaskPlaces(j) ==
    /\ stage[j] = "importing" /\ stage'[j] = "placed"
    /\ placed'[j] = placed[j] + 1
    /\ UNCHANGED <<rows[j], born[j], alive>>

(* The result is stored, if the row is there. *)
TaskReports(j) ==
    /\ stage[j] # "none" /\ stage'[j] = "none"
    /\ UNCHANGED <<placed[j], born[j], alive>>
    /\ rows[j] # NoRow =>
          /\ rows'[j] # NoRow
          /\ \/ rows'[j].state = "failed"
             \/ /\ rows'[j].state = "succeeded" /\ rows'[j].outcome = "DeferMove"
                /\ stage[j] = "importing"
             \/ /\ rows'[j].state = "succeeded" /\ rows'[j].outcome = "RenameRequested"
                /\ stage[j] = "placed"

TaskDies(j) ==
    /\ stage'[j] = "none"
    /\ UNCHANGED <<placed[j], rows[j], born[j]>>

(* A worker that starts fails what its predecessor left running. *)
TaskIsFailed(j) ==
    /\ ~ alive /\ alive'
    /\ rows[j] # NoRow /\ rows[j].state = "running"
    /\ rows'[j] # NoRow /\ rows'[j].state = "failed"
    /\ UNCHANGED <<stage[j], placed[j], born[j]>>

(* The worker stays up, unless it dies with all its tasks. *)
Up(j) == stage'[j] = "none" \/ alive' \/ (stage[j] # "none" /\ UNCHANGED alive)

WorkStep(j) ==
    /\ Up(j)
    /\ \/ TaskKept(j) /\ (RowKept(j) \/ RowInserted(j) \/ RowPruned(j))
       \/ TaskClaims(j) \/ TaskPlaces(j) \/ TaskReports(j) \/ TaskDies(j) \/ TaskIsFailed(j)

LEMMA WorkSteps == ASSUME TypeOK, [Next]_vars PROVE \A k \in Jobs : WorkStep(k)
  <1> SUFFICES ASSUME NEW k \in Jobs PROVE WorkStep(k)
    OBVIOUS
  <1>0. RowStep(k)
    BY RowSteps
  <1> USE DEF TypeOK, WorkStep, Up
  <1>1. /\ rows[k] = NoRow \/ rows[k] \in Row
        /\ \A row \in Row : row # NoRow
    BY DEF TableTypeOK, Row, NoRow
  <1>2. ASSUME UNCHANGED <<rows, born, workVars>> PROVE WorkStep(k)
    BY <1>2 DEF workVars, TaskKept, RowKept
  <1>3. CASE \E j \in Jobs : ShimStep(j)
    BY <1>2, <1>3 DEF ShimStep, Begin, SendPost, PostFailed, Defer, GiveUp, SendPoll, Settle,
       StillRunning, PollFailed
  <1>4. ASSUME NEW j \in Jobs, Claim(j) PROVE WorkStep(k)
    <2>1. CASE k = j
      <3>1. rows[k] \in Row
        BY <1>1, <1>4, <2>1 DEF Claim, ClaimRow, NoRow
      <3>2. rows'[k] = [rows[k] EXCEPT !.state = "running", !.updated = now]
        BY <1>4, <2>1 DEF Claim, ClaimRow, TableTypeOK
      <3>3. rows'[k] \in Row /\ rows'[k].state = "running"
        BY <3>1, <3>2 DEF Row, TableTypeOK
      <3>4. QED
        BY <1>1, <1>4, <2>1, <3>1, <3>3 DEF Claim, ClaimRow, TaskClaims
    <2>2. CASE k # j
      BY <1>4, <2>2 DEF Claim, ClaimRow, TaskKept, RowKept, TableTypeOK
    <2>3. QED
      BY <2>1, <2>2
  <1>5. ASSUME NEW j \in Jobs, Place(j) PROVE WorkStep(k)
    BY <1>5 DEF Place, TaskPlaces, TaskKept, RowKept
  <1>6. ASSUME NEW j \in Jobs, NEW s \in Settled, NEW o \in Outcomes, FinishRow(j, s, o),
               stage[j] # "none", stage' = [stage EXCEPT ![j] = "none"], UNCHANGED <<alive, placed>>,
               \/ s = "failed"
               \/ s = "succeeded" /\ o = "DeferMove" /\ stage[j] = "importing"
               \/ s = "succeeded" /\ o = "RenameRequested" /\ stage[j] = "placed"
        PROVE  WorkStep(k)
    <2>1. CASE k # j
      BY <1>6, <2>1 DEF FinishRow, TaskKept, RowKept, TableTypeOK
    <2>2. CASE k = j /\ rows[k] = NoRow
      BY <1>6, <2>2 DEF FinishRow, TaskReports
    <2>3. CASE k = j /\ rows[k] # NoRow
      <3>1. rows[k] \in Row /\ rows'[k] = FinishedRow(rows[k], s, o)
        BY <1>1, <1>6, <2>3 DEF FinishRow, TableTypeOK
      <3>2. /\ rows'[k] # NoRow /\ rows'[k].state = s
            /\ o # "none" => rows'[k].outcome = o
        BY <1>1, <3>1, FinishedRowFields
      <3>3. QED
        BY <1>6, <2>3, <3>2 DEF FinishRow, TaskReports
    <2>4. QED
      BY <2>1, <2>2, <2>3
  <1>7. ASSUME NEW j \in Jobs, TaskStep(j) PROVE WorkStep(k)
    <2>1. CASE ReportDefer(j)
      BY <1>6, <2>1 DEF ReportDefer, SucceedRow, Settled, Outcomes
    <2>2. CASE ReportRename(j)
      BY <1>6, <2>2 DEF ReportRename, SucceedRow, Settled, Outcomes
    <2>3. CASE ReportError(j)
      BY <1>6, <2>3 DEF ReportError, FailRow, Settled, Outcomes
    <2>4. QED
      BY <1>5, <1>7, <2>1, <2>2, <2>3 DEF TaskStep
  <1>8. CASE \E m \in posts : PostStep(m)
    <2>1. UNCHANGED workVars
      BY <1>8 DEF PostStep, DropPost, ServePost, ServePostEchoed
    <2>2. rows[k] = NoRow \/ rows'[k] = rows[k]
      <3>1. PICK m \in posts : PostStep(m)
        BY <1>8
      <3>2. UNCHANGED rows \/ (/\ rows[m.job] = NoRow
                               /\ \E f \in Fingerprints, stamp \in m.at .. now :
                                     InsertRow(m.job, f, stamp))
        BY <3>1 DEF PostStep, DropPost, ServePost, ServePostEchoed, Enqueue, tableVars
      <3>3. QED
        BY <3>2 DEF InsertRow, TableTypeOK
    <2>3. QED
      BY <1>0, <2>1, <2>2 DEF workVars, TaskKept, RowStep, RowMoved, RowKept
  <1>9. CASE Sweep
    <2>1. UNCHANGED workVars /\ UNCHANGED born /\ rows'[k] \in {rows[k], NoRow}
      BY <1>9 DEF Sweep, PruneRows
    <2>2. QED
      BY <1>0, <2>1 DEF workVars, TaskKept, RowStep, RowMoved, RowKept
  <1>10. CASE Crash
    BY <1>10 DEF Crash, TaskDies
  <1>11. CASE Restart
    <2>1. CASE rows[k].state = "running"
      <3>1. rows[k] \in Row
        BY <1>1, <2>1 DEF NoRow
      <3>2. rows'[k] = FinishedRow(rows[k], "failed", "none")
        BY <1>11, <2>1 DEF Restart, FailRunning
      <3>3. rows'[k] # NoRow /\ rows'[k].state = "failed"
        BY <1>1, <3>1, <3>2, FinishedRowFields DEF Settled, Outcomes
      <3>4. QED
        BY <1>1, <1>11, <2>1, <3>1, <3>3 DEF Restart, FailRunning, TaskIsFailed
    <2>2. CASE rows[k].state # "running"
      BY <1>11, <2>2 DEF Restart, FailRunning, TaskKept, RowKept
    <2>3. QED
      BY <2>1, <2>2
  <1>12. CASE Tick \/ UNCHANGED vars
    BY <1>2, <1>12 DEF Tick, AdvanceClock, vars, workVars
  <1>13. QED
    BY <1>3, <1>4, <1>7, <1>8, <1>9, <1>10, <1>11, <1>12 DEF Next

(* A task runs for a row that is running, and has replaced the destination *)
(* once it says so; what a row reports is what its task did.               *)
TaskInv ==
    \A j \in Jobs :
        /\ stage[j] # "none" => alive /\ rows[j] # NoRow /\ rows[j].state = "running"
        /\ (rows[j] # NoRow /\ rows[j].state = "pending") \/ born[j] = 0 => placed[j] = 0
        /\ stage[j] = "importing" => placed[j] = 0
        /\ stage[j] = "placed" => placed[j] = 1
        /\ rows[j] # NoRow /\ rows[j].state = "succeeded" =>
              placed[j] = IF rows[j].outcome = "DeferMove" THEN 0 ELSE 1

(* An answer stays true: nothing is queued or muxed for the import again.  *)
AnswerInv ==
    \A j \in Jobs : shim[j] \in Printed =>
        /\ born[j] # 0
        /\ rows[j] # NoRow => rows[j].state \in Settled
        /\ placed[j] = IF shim[j] = "DeferMove" THEN 0 ELSE 1

LEMMA StepsKeepTasks ==
    ASSUME TimeInv, TaskInv, QueuedOnce, QueuedOnce', [Next]_vars
    PROVE  TaskInv'
  <1> USE DEF TimeInv, TypeOK, TableTypeOK
  <1>1. TimeInv'
    BY StepsKeepTimes
  <1>2. ASSUME NEW k \in Jobs
        PROVE  /\ stage'[k] # "none" => alive' /\ rows'[k] # NoRow /\ rows'[k].state = "running"
               /\ (rows'[k] # NoRow /\ rows'[k].state = "pending") \/ born'[k] = 0 => placed'[k] = 0
               /\ stage'[k] = "importing" => placed'[k] = 0
               /\ stage'[k] = "placed" => placed'[k] = 1
               /\ rows'[k] # NoRow /\ rows'[k].state = "succeeded" =>
                     placed'[k] = IF rows'[k].outcome = "DeferMove" THEN 0 ELSE 1
    <2>1. WorkStep(k)
      BY WorkSteps
    <2>2. rows'[k] # NoRow => born'[k] # 0
      BY <1>1 DEF RowInv
    <2>4. stage'[k] # "none" => alive'
      BY <2>1 DEF WorkStep, Up, TaskInv
    <2>5. CASE TaskKept(k) /\ RowKept(k)
      BY <2>4, <2>5 DEF TaskInv, TaskKept, RowKept
    <2>6. CASE TaskKept(k) /\ RowInserted(k)
      <3>1. born[k] = 0
        BY <2>6 DEF RowInserted, QueuedOnce
      <3>2. QED
        BY <2>6, <3>1 DEF TaskInv, TaskKept, RowInserted
    <2>7. CASE TaskKept(k) /\ RowPruned(k)
      BY <2>4, <2>7 DEF TaskInv, TaskKept, RowPruned, RowInv, Settled
    <2>8. CASE TaskClaims(k)
      BY <2>4, <2>8, <2>2 DEF TaskInv, TaskClaims
    <2>9. CASE TaskPlaces(k)
      BY <2>4, <2>9, <2>2 DEF TaskInv, TaskPlaces
    <2>10. CASE TaskReports(k)
      BY <2>2, <2>10 DEF TaskInv, TaskReports
    <2>11. CASE TaskDies(k)
      BY <2>11 DEF TaskInv, TaskDies
    <2>12. CASE TaskIsFailed(k)
      BY <2>2, <2>4, <2>12 DEF TaskInv, TaskIsFailed
    <2>13. QED
      BY <2>1, <2>5, <2>6, <2>7, <2>8, <2>9, <2>10, <2>11, <2>12 DEF WorkStep
  <1>3. QED
    BY <1>2 DEF TaskInv

LEMMA StepsKeepAnswers ==
    ASSUME TimeInv, TaskInv, AnswerInv, QueuedOnce', [Next]_vars
    PROVE  AnswerInv'
  <1> USE DEF TimeInv, TypeOK, TableTypeOK
  <1>1. ASSUME NEW k \in Jobs, shim'[k] \in Printed
        PROVE  /\ born'[k] # 0
               /\ rows'[k] # NoRow => rows'[k].state \in Settled
               /\ placed'[k] = IF shim'[k] = "DeferMove" THEN 0 ELSE 1
    <2>1. WorkStep(k) /\ ScriptStep(k)
      BY WorkSteps, ScriptSteps
    (* The script knew the answer, or is given it by a row that succeeded. *)
    <2>2. /\ born[k] # 0
          /\ rows[k] # NoRow => rows[k].state \in Settled
          /\ placed[k] = IF shim'[k] = "DeferMove" THEN 0 ELSE 1
      <3>1. CASE shim'[k] = shim[k]
        BY <1>1, <3>1 DEF AnswerInv
      <3>2. CASE shim'[k] # shim[k]
        <4>1. IsOver(k)
          BY <1>1, <2>1, <3>2 DEF ScriptStep, ScriptKept, Starts, Submits, IsUnanswered, IsAccepted,
             Asks, IsToldToWait, HearsNothing, Printed
        <4>2. rows[k] # NoRow /\ rows[k].state = "succeeded" /\ rows[k].outcome = shim'[k]
          BY <1>1, <4>1 DEF IsOver
        <4>3. QED
          BY <4>2 DEF TaskInv, RowInv, Settled
      <3>3. QED
        BY <3>1, <3>2
    (* Nothing is running for it, and nothing comes. *)
    <2>3. stage[k] = "none"
      BY <2>2 DEF TaskInv, Settled
    <2>4. ~ RowInserted(k)
      BY <2>2 DEF RowInserted, QueuedOnce
    <2>5. ~ TaskClaims(k) /\ ~ TaskPlaces(k) /\ ~ TaskReports(k) /\ ~ TaskIsFailed(k)
      BY <2>2, <2>3 DEF TaskClaims, TaskPlaces, TaskReports, TaskIsFailed, Settled
    <2>6. QED
      BY <2>1, <2>2, <2>4, <2>5 DEF WorkStep, TaskKept, RowKept, RowPruned, TaskDies
  <1>2. QED
    BY <1>1 DEF AnswerInv

-----------------------------------------------------------------------------

LEMMA InitAnswers == Init => QueuedOnce /\ SilenceInv /\ TaskInv /\ AnswerInv
  BY DEF Init, TableInit, QueuedOnce, SilenceInv, TaskInv, AnswerInv, Printed

(* Rows, scripts, POSTs and tasks keep their types. *)
THEOREM TypeCorrect == Spec => []TypeOK
  <1>1. TimeInv /\ [Next]_vars => TimeInv'
    BY StepsKeepTimes
  <1>2. TimeInv => TypeOK
    BY DEF TimeInv
  <1>3. QED
    BY InitTimes, <1>1, <1>2, PTL DEF Spec

(* When the retention outlasts the window in which POSTs may be served and *)
(* the one in which polls may go unanswered, no submission is queued twice *)
(* and no script that was told its job is queued is told it is unknown.    *)
THEOREM RowsOutliveRetries ==
    ASSUME OutlastsPosts, OutlastsPolls PROVE Spec => []RowOutlivesRetries
  <1> DEFINE Inv == TimeInv /\ QueuedOnce /\ SilenceInv
  <1>1. Init => Inv
    BY InitTimes, InitAnswers
  <1>2. Inv /\ [Next]_vars => Inv'
    BY OutlastsPosts, OutlastsPolls, StepsKeepTimes, StepsKeepSingle, StepsKeepSilence
  <1>3. Inv => RowOutlivesRetries
    BY DEF SilenceInv, RowOutlivesRetries, NeverForgotten
  <1> HIDE DEF Inv
  <1>4. QED
    BY <1>1, <1>2, <1>3, PTL DEF Spec

(* When the retention outlasts the window in which POSTs may be served, an *)
(* answer that a script has printed is true and stays true: after a        *)
(* DeferMove the destination is never written, after a RenameRequested it  *)
(* was written once, and nothing is queued or muxed for the import again.  *)
THEOREM AnswersAreTrue ==
    ASSUME OutlastsPosts PROVE Spec => []AnswerIsTrue
  <1> DEFINE Inv == TimeInv /\ QueuedOnce /\ TaskInv /\ AnswerInv
  <1>1. Init => Inv
    BY InitTimes, InitAnswers
  <1>2. Inv /\ [Next]_vars => Inv'
    BY OutlastsPosts, StepsKeepTimes, StepsKeepSingle, StepsKeepTasks, StepsKeepAnswers
  <1>3. Inv => AnswerIsTrue
    BY DEF TaskInv, AnswerInv, AnswerIsTrue, DeferMoveIsExclusive, RenameIsPlaced, Live, Printed,
       Settled
  <1> HIDE DEF Inv
  <1>4. QED
    BY <1>1, <1>2, <1>3, PTL DEF Spec

-----------------------------------------------------------------------------
(* The whole system implements JobLifecycle. *)

(* While a worker has a task, its row is running; no retention is assumed. *)
AttendedInv == \A j \in Jobs : stage[j] # "none" => alive /\ rows[j].state = "running"

LEMMA StepsKeepAttended == ASSUME TypeOK, AttendedInv, [Next]_vars PROVE AttendedInv'
  <1>1. ASSUME NEW k \in Jobs, stage'[k] # "none"
        PROVE  alive' /\ rows'[k].state = "running"
    <2>1. WorkStep(k)
      BY WorkSteps
    <2>2. QED
      BY <1>1, <2>1 DEF AttendedInv, WorkStep, Up, TaskKept, RowKept, RowInserted, RowPruned,
         NoRow, Settled, TaskClaims, TaskPlaces, TaskReports, TaskDies, TaskIsFailed
  <1>2. QED
    BY <1>1 DEF AttendedInv

LEMMA StepsAreStatements ==
    ASSUME TypeOK, AttendedInv, [Next]_vars
    PROVE  Statement \/ UNCHANGED rows
  <1> USE DEF Statement
  <1>1. ASSUME NEW j \in Jobs, ShimStep(j) PROVE UNCHANGED rows
    BY <1>1 DEF ShimStep, Begin, SendPost, PostFailed, Defer, GiveUp, SendPoll, Settle,
       StillRunning, PollFailed
  <1>2. ASSUME NEW j \in Jobs, Claim(j) PROVE Statement
    BY <1>2 DEF Claim
  <1>3. ASSUME NEW j \in Jobs, TaskStep(j) PROVE Statement \/ UNCHANGED rows
    <2>1. CASE Place(j)
      BY <2>1 DEF Place
    <2>2. CASE ReportDefer(j) \/ ReportRename(j) \/ ReportError(j)
      <3>1. rows[j].state = "running"
        BY <2>2 DEF AttendedInv, ReportDefer, ReportRename, ReportError
      <3>2. \E s \in Settled, o \in Outcomes : FinishRow(j, s, o)
        BY <2>2 DEF ReportDefer, ReportRename, ReportError, SucceedRow, FailRow, Settled, Outcomes
      <3>3. QED
        BY <3>1, <3>2 DEF FinishesRunning
    <2>3. QED
      BY <1>3, <2>1, <2>2 DEF TaskStep
  <1>4. ASSUME NEW m \in posts, PostStep(m) PROVE Statement \/ UNCHANGED rows
    <2>1. m.job \in Jobs /\ m.at \in Nat /\ now \in Nat
      BY DEF TypeOK, TableTypeOK
    <2>2. \A stamp \in m.at .. now : stamp \in Nat
      BY <2>1
    <2>3. QED
      BY <1>4, <2>1, <2>2 DEF PostStep, DropPost, ServePost, ServePostEchoed, Enqueue, tableVars
  <1>5. CASE Sweep \/ Restart
    BY <1>5 DEF Sweep, Restart
  <1>6. CASE Crash \/ Tick \/ UNCHANGED vars
    BY <1>6 DEF Crash, Tick, AdvanceClock, vars
  <1>7. QED
    BY <1>1, <1>2, <1>3, <1>4, <1>5, <1>6 DEF Next

(* However POSTs are lost, repeated or served late, and whenever the       *)
(* worker dies, the row of an import is queued, handed out and settled     *)
(* once before it can be dropped.  Nothing is assumed of the retention:    *)
(* an import submitted again after its row was dropped lives a new life.   *)
THEOREM ImplementsLifecycle == Spec => LifecycleSpec
  <1>1. Init => AttendedInv /\ Lifecycle!Init
    BY InitIsLifecycleInit DEF Init, AttendedInv
  <1>2. TypeOK /\ AttendedInv /\ [Next]_vars => AttendedInv'
    BY StepsKeepAttended
  <1>3. TypeOK /\ AttendedInv /\ [Next]_vars =>
           [Lifecycle!Next]_([j \in Jobs |-> rows[j].state])
    BY StepsAreStatements, StatementsRefine DEF TypeOK
  <1>4. QED
    BY <1>1, <1>2, <1>3, TypeCorrect, PTL DEF Spec, LifecycleSpec, Lifecycle!Spec

=============================================================================
