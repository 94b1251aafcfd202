------------------------------- MODULE JobQueue -------------------------------
(***************************************************************************)
(* The queue as several processes use it at once: API request handlers     *)
(* running create_or_get, and worker processes running claim passes,       *)
(* executing what they claimed, sweeping and reconciling.  A call that     *)
(* takes several transactions takes several actions, and everything the    *)
(* caller carries from one to the next is a variable here.                 *)
(***************************************************************************)
EXTENDS JobTable

CONSTANTS
    Handlers,       \* API requests being served at once
    Workers,        \* worker processes sharing the table
    MaxMuxes,       \* max_concurrent_muxes
    MaxPass,        \* bound: how many ticks a claim pass may take
    MaxCrashes      \* bound: how often a worker dies

ASSUME QueueAssumption ==
    /\ MaxMuxes \in Nat \ {0}
    /\ MaxPass \in Nat
    /\ MaxCrashes \in Nat

VARIABLES
    handler,    \* handler[r]: Free, or the submission whose INSERT conflicted
    acks,       \* auxiliary: submissions answered 202, with the row they met
    phase,      \* phase[w]: "down", "up" or "claiming"
    cands,      \* cands[w]: the <<created_at, id>> snapshot left to try
    scanned,    \* scanned[w]: when the snapshot was read (0: none)
    waiting,    \* auxiliary: <<id, born>> of the rows pending at that moment
    held,       \* held[w]: <<id, born>> of the rows whose import w executes
    crashes     \* how often a worker died so far

apiVars == <<handler, acks>>
workerVars == <<phase, cands, scanned, waiting, held, crashes>>
vars == <<rows, now, born, handler, acks, phase, cands, scanned, waiting, held, crashes>>

Free == [pc |-> "free"]

Submission == [job : Jobs, fp : Fingerprints]

TypeOK ==
    /\ TableTypeOK
    /\ handler \in [Handlers -> {Free} \cup [pc : {"reread"}, job : Jobs, fp : Fingerprints]]
    /\ acks \subseteq [job : Jobs, fp : Fingerprints, born : Nat]
    /\ phase \in [Workers -> {"down", "up", "claiming"}]
    /\ cands \in [Workers -> SUBSET (Nat \X Jobs)]
    /\ scanned \in [Workers -> Nat]
    /\ waiting \in [Workers -> SUBSET (Jobs \X Nat)]
    /\ held \in [Workers -> SUBSET (Jobs \X Nat)]
    /\ crashes \in Nat

Init ==
    /\ TableInit
    /\ handler = [r \in Handlers |-> Free]
    /\ acks = {}
    /\ phase = [w \in Workers |-> "down"]
    /\ cands = [w \in Workers |-> {}]
    /\ scanned = [w \in Workers |-> 0]
    /\ waiting = [w \in Workers |-> {}]
    /\ held = [w \in Workers |-> {}]
    /\ crashes = 0

-----------------------------------------------------------------------------
(* API process: create_or_get. *)

Acknowledge(j, f, b) == acks' = acks \cup {[job |-> j, fp |-> f, born |-> b]}

(* The INSERT of a row that was built, and stamped, at some earlier time    *)
(* or just now commits: the submission is answered with the new row.       *)
SubmitNew(r, j, f, stamp) ==
    /\ handler[r] = Free
    /\ InsertRow(j, f, stamp)
    /\ Acknowledge(j, f, born[j] + 1)
    /\ UNCHANGED <<handler, phase, cands, scanned, waiting, held, crashes>>

(* The INSERT hits the primary key: roll back, then read the row. *)
SubmitKnown(r, j, f) ==
    /\ handler[r] = Free
    /\ rows[j].state # "absent"
    /\ handler' = [handler EXCEPT ![r] = [pc |-> "reread", job |-> j, fp |-> f]]
    /\ UNCHANGED <<rows, now, born, acks, phase, cands, scanned, waiting, held, crashes>>

(* Mutant: the payload of a known id is not compared. *)
AnyPayload(r) == TRUE

SamePayload(r) == rows[handler[r].job].fp = handler[r].fp

(* The row read back belongs to the same import: the caller re-attaches. *)
Reattach(r) ==
    /\ handler[r] # Free
    /\ rows[handler[r].job] # NoRow
    /\ SamePayload(r)
    /\ Acknowledge(handler[r].job, handler[r].fp, born[handler[r].job])
    /\ handler' = [handler EXCEPT ![r] = Free]
    /\ UNCHANGED <<rows, now, born, phase, cands, scanned, waiting, held, crashes>>

(* JobConflictError: the row is another import's, or was pruned meanwhile. *)
Refuse(r) ==
    /\ handler[r] # Free
    /\ rows[handler[r].job] # NoRow => ~ SamePayload(r)
    /\ handler' = [handler EXCEPT ![r] = Free]
    /\ UNCHANGED <<rows, now, born, acks, phase, cands, scanned, waiting, held, crashes>>

-----------------------------------------------------------------------------
(* Worker process. *)

(* _fill asks for another job while it has a free slot; claim_next reads   *)
(* its candidates.                                                         *)
BeginClaim(w) ==
    /\ phase[w] = "up"
    /\ Cardinality(held[w]) < MaxMuxes
    /\ phase' = [phase EXCEPT ![w] = "claiming"]
    /\ cands' = [cands EXCEPT ![w] = Candidates]
    /\ scanned' = [scanned EXCEPT ![w] = now]
    /\ waiting' = [waiting EXCEPT ![w] = {<<j, born[j]>> : j \in InState("pending")}]
    /\ UNCHANGED <<rows, now, born, handler, acks, held, crashes>>

IsOldest(c, C) == c \in C /\ \A d \in C : d = c \/ Before(c, d)

(* The conditional UPDATE matched: the job is this worker's. *)
WinCandidate(w, c) ==
    /\ phase[w] = "claiming"
    /\ IsOldest(c, cands[w])
    /\ ClaimRow(c[2])
    /\ held' = [held EXCEPT ![w] = @ \cup {<<c[2], born[c[2]]>>}]
    /\ cands' = [cands EXCEPT ![w] = {}]
    /\ phase' = [phase EXCEPT ![w] = "up"]
    /\ scanned' = [scanned EXCEPT ![w] = 0]
    /\ waiting' = [waiting EXCEPT ![w] = {}]
    /\ UNCHANGED <<handler, acks, crashes>>

(* The conditional UPDATE matched nothing: try the next candidate. *)
LoseCandidate(w, c) ==
    /\ phase[w] = "claiming"
    /\ IsOldest(c, cands[w])
    /\ rows[c[2]].state # "pending"
    /\ cands' = [cands EXCEPT ![w] = @ \ {c}]
    /\ UNCHANGED <<rows, now, born, handler, acks, phase, scanned, waiting, held, crashes>>

(* Mutant: what ends the pause after an empty pass is a task alone, not    *)
(* the poll interval.                                                      *)
EndClaimUntilTask(w) ==
    /\ phase[w] = "claiming"
    /\ cands[w] = {}
    /\ held[w] # {}
    /\ phase' = [phase EXCEPT ![w] = "up"]
    /\ scanned' = [scanned EXCEPT ![w] = 0]
    /\ waiting' = [waiting EXCEPT ![w] = {}]
    /\ UNCHANGED <<rows, now, born, handler, acks, cands, held, crashes>>

(* Every candidate went to somebody else, or there was none. *)
EndClaim(w) ==
    /\ phase[w] = "claiming"
    /\ cands[w] = {}
    /\ phase' = [phase EXCEPT ![w] = "up"]
    /\ scanned' = [scanned EXCEPT ![w] = 0]
    /\ waiting' = [waiting EXCEPT ![w] = {}]
    /\ UNCHANGED <<rows, now, born, handler, acks, cands, held, crashes>>

(* run_job stores the outcome of an import that returned ... *)
Succeed(w, h, o) ==
    /\ phase[w] # "down"
    /\ h \in held[w]
    /\ SucceedRow(h[1], o)
    /\ held' = [held EXCEPT ![w] = @ \ {h}]
    /\ UNCHANGED <<handler, acks, phase, cands, scanned, waiting, crashes>>

(* ... or the error of one that raised. *)
Fail(w, h) ==
    /\ phase[w] # "down"
    /\ h \in held[w]
    /\ FailRow(h[1])
    /\ held' = [held EXCEPT ![w] = @ \ {h}]
    /\ UNCHANGED <<handler, acks, phase, cands, scanned, waiting, crashes>>

(* _sweep: only between muxes. *)
Sweep(w) ==
    /\ phase[w] = "up"
    /\ held[w] = {}
    /\ PruneRows
    /\ UNCHANGED <<handler, acks, phase, cands, scanned, waiting, held, crashes>>

(* The process is gone, with all it remembered; its rows stay running. *)
Crash(w) ==
    /\ crashes < MaxCrashes
    /\ phase[w] # "down"
    /\ crashes' = crashes + 1
    /\ phase' = [phase EXCEPT ![w] = "down"]
    /\ cands' = [cands EXCEPT ![w] = {}]
    /\ scanned' = [scanned EXCEPT ![w] = 0]
    /\ waiting' = [waiting EXCEPT ![w] = {}]
    /\ held' = [held EXCEPT ![w] = {}]
    /\ UNCHANGED <<rows, now, born, handler, acks>>

(* Mutant: a restart that does not reconcile. *)
StartUnreconciled(w) ==
    /\ phase[w] = "down"
    /\ phase' = [phase EXCEPT ![w] = "up"]
    /\ UNCHANGED <<rows, now, born, handler, acks, cands, scanned, waiting, held, crashes>>

(* A worker reconciles before it claims anything. *)
Start(w) ==
    /\ phase[w] = "down"
    /\ FailRunning
    /\ phase' = [phase EXCEPT ![w] = "up"]
    /\ UNCHANGED <<handler, acks, cands, scanned, waiting, held, crashes>>

-----------------------------------------------------------------------------

(* A claim pass is a handful of statements. *)
PassesAreShort ==
    \A w \in Workers : phase[w] = "claiming" => now < scanned[w] + MaxPass

Tick ==
    /\ PassesAreShort
    /\ AdvanceClock
    /\ UNCHANGED <<handler, acks, phase, cands, scanned, waiting, held, crashes>>

ApiStep(r) ==
    \/ \E j \in Jobs, f \in Fingerprints :
        SubmitKnown(r, j, f) \/ \E stamp \in 0..now : SubmitNew(r, j, f, stamp)
    \/ Reattach(r)
    \/ Refuse(r)

ClaimStep(w) ==
    \/ BeginClaim(w)
    \/ \E c \in cands[w] : WinCandidate(w, c) \/ LoseCandidate(w, c)
    \/ EndClaim(w)

SettleStep(w) ==
    \E h \in held[w] :
        Fail(w, h) \/ \E o \in Outcomes \ {"none"} : Succeed(w, h, o)

Next ==
    \/ \E r \in Handlers : ApiStep(r)
    \/ \E w \in Workers :
        ClaimStep(w) \/ SettleStep(w) \/ Sweep(w) \/ Crash(w) \/ Start(w)
    \/ Tick

Spec == Init /\ [][Next]_vars

(* The worker's loop keeps claiming, an import it runs ends, and a dead    *)
(* worker is restarted by its supervisor.                                  *)
Fairness ==
    \A w \in Workers :
        /\ WF_vars(ClaimStep(w))
        /\ \A j \in Jobs, b \in 1..(MaxTime + 1) :
              WF_vars(\/ Fail(w, <<j, b>>)
                      \/ \E o \in Outcomes \ {"none"} : Succeed(w, <<j, b>>, o))
        /\ WF_vars(Start(w))

FairSpec == Spec /\ Fairness

-----------------------------------------------------------------------------
(* Safety. *)

(* A row is handed to one worker: no two of them execute the import of the *)
(* same row, however their claim passes interleave (claim_next's           *)
(* conditional UPDATE).                                                    *)
OneOwner ==
    \A v, w \in Workers : v # w => held[v] \cap held[w] = {}

(* What a worker executes is what the table says is running: with a single *)
(* worker process, no other step settles, prunes or re-queues a row under  *)
(* its import, so its result always lands on the row it claimed.           *)
HeldIsRunning ==
    \A w \in Workers : \A h \in held[w] :
        rows[h[1]].state = "running" /\ born[h[1]] = h[2]

(* The converse: once its worker is up, a running row has somebody running *)
(* it.  A row without would keep its shim polling until the deadline.      *)
RunningIsHeld ==
    (\A w \in Workers : phase[w] # "down") =>
        \A j \in InState("running") :
            \E w \in Workers : <<j, born[j]>> \in held[w]

(* Table and worker never come apart. *)
TableMatchesWorker == HeldIsRunning /\ RunningIsHeld

(* Everyone acknowledged for the same row submitted the same import: a     *)
(* reused id never attaches a caller to somebody else's mux.               *)
AcksAgree ==
    \A a, b \in acks : a.job = b.job /\ a.born = b.born => a.fp = b.fp

-----------------------------------------------------------------------------
(* What a step may never do. *)

(* claim_next moves the oldest pending row: of those that were pending     *)
(* when the pass began and are still, none was created before the row that *)
(* is claimed, or at the same time with a smaller id, however stale the    *)
(* snapshot is.  A row whose INSERT commits during the pass may carry an   *)
(* earlier stamp than all of them.                                         *)
ClaimsOldest ==
    [][\A w \in Workers, j, k \in Jobs :
          /\ <<j, born[j]>> \in held'[w] \ held[w]
          /\ <<k, born[k]>> \in waiting[w] /\ rows[k].state = "pending"
          => \/ rows[j].created < rows[k].created
             \/ rows[j].created = rows[k].created /\ j <= k]_vars

-----------------------------------------------------------------------------
(* Liveness. *)

(* A queued import is handed out: no pending row starves. *)
PendingIsClaimed ==
    \A j \in Jobs :
        rows[j].state = "pending" ~> rows[j].state # "pending"

=============================================================================
