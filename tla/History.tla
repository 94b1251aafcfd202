------------------------------- MODULE History -------------------------------
(***************************************************************************)
(* The operations table (infrastructure/history/repository.py) and the     *)
(* page of the web interface that walks through it.  The table is the set  *)
(* of its rows, and a row is an operation with its id, the import it       *)
(* belongs to and its copy of that import's log; the other columns are     *)
(* never read back.                                                        *)
(*                                                                         *)
(* list() is two statements, a COUNT and a SELECT, with nothing to hold    *)
(* the table still between them.  The web interface asks for page after    *)
(* page of PageSize rows and takes the number of pages from the count.     *)
(***************************************************************************)
EXTENDS Integers, FiniteSetsExt

CONSTANTS
    Earlier,        \* operations of earlier imports, as the table is found
    HistoryMax,     \* history_max_records; 0 keeps everything
    PageSize,       \* rows of a page
    MaxWalks        \* bound: how often the user pages through it

ASSUME HistoryAssumption ==
    /\ IsFiniteSet(Earlier)
    /\ \A op \in Earlier : op.id \in Nat \ {0}
    /\ \A op, other \in Earlier : op.id = other.id => op = other
    /\ HistoryMax \in Nat
    /\ PageSize \in Nat \ {0}
    /\ MaxWalks \in Nat

VARIABLES
    operations,     \* the table
    reading,        \* the walk: "closed", "count" or "fetch"
    offset, total,  \* of the page that is being read
    seen,           \* auxiliary: operations the walk has shown
    steady,         \* auxiliary: operations that were there from its start on
    late,           \* auxiliary: a row came between the page's two statements
    clears, walks

walkVars == <<reading, offset, total, seen, late, walks>>
historyVars == <<operations, steady, clears, walkVars>>

HistoryInit ==
    /\ operations = Earlier
    /\ reading = "closed"
    /\ offset = 0
    /\ total = 0
    /\ seen = {}
    /\ steady = {}
    /\ late = FALSE
    /\ clears = 0
    /\ walks = 0

-----------------------------------------------------------------------------
(* Statements of the worker. *)

Newer(op) == {other \in operations : other.id > op.id}

(* SQLite hands out the highest id plus one. *)
NextId == IF operations = {} THEN 1 ELSE Max({op.id : op \in operations}) + 1

(* record: INSERT, returning the id. *)
InsertOperation(import, log) ==
    /\ operations' = operations \cup {[id |-> NextId, import |-> import, log |-> log]}
    /\ late' = (late \/ reading = "fetch")
    /\ UNCHANGED <<reading, offset, total, seen, steady, clears, walks>>

(* Mutant: the cutoff row goes as well. *)
KeptFromNext(cutoff, op) == op.id > cutoff

KeptFrom(cutoff, op) == op.id >= cutoff

(* prune: the id of the HistoryMax-th newest row, if there is one, is the  *)
(* cutoff.                                                                 *)
Pruned ==
    LET oldestKept == {op \in operations : Cardinality(Newer(op)) = HistoryMax - 1}
    IN  {op \in operations :
            HistoryMax > 0 => \A last \in oldestKept : KeptFrom(last.id, op)}

Prune ==
    /\ operations' = Pruned
    /\ steady' = steady \cap Pruned
    /\ UNCHANGED <<clears, walkVars>>

-----------------------------------------------------------------------------
(* Requests of the web interface. *)

ClearHistory ==
    /\ clears' = clears + 1
    /\ operations' = {}
    /\ steady' = {}
    /\ UNCHANGED walkVars

OpenHistory ==
    /\ reading = "closed"
    /\ walks < MaxWalks
    /\ walks' = walks + 1
    /\ reading' = "count"
    /\ offset' = 0
    /\ total' = 0
    /\ seen' = {}
    /\ late' = FALSE
    /\ steady' = operations
    /\ UNCHANGED <<operations, clears>>

CountRows ==
    /\ reading = "count"
    /\ reading' = "fetch"
    /\ total' = Cardinality(operations)
    /\ late' = FALSE
    /\ UNCHANGED <<operations, offset, seen, steady, clears, walks>>

(* Mutant: oldest first. *)
RowsBeforeIfAscending(op) == {other \in operations : other.id < op.id}

(* ORDER BY id DESC *)
RowsBefore(op) == Newer(op)

(* LIMIT PageSize OFFSET offset *)
Page == {op \in operations :
            Cardinality(RowsBefore(op)) \in offset .. offset + PageSize - 1}

FetchRows ==
    /\ reading = "fetch"
    /\ seen' = seen \cup Page
    /\ offset' = offset + PageSize
    /\ reading' = IF offset + PageSize >= total THEN "closed" ELSE "count"
    /\ UNCHANGED <<operations, total, steady, late, clears, walks>>

Walk == OpenHistory \/ CountRows \/ FetchRows

-----------------------------------------------------------------------------

HistoryTypeOK ==
    /\ reading \in {"closed", "count", "fetch"}
    /\ offset \in Nat /\ total \in Nat /\ clears \in Nat /\ walks \in Nat
    /\ late \in BOOLEAN
    /\ IsFiniteSet(operations)
    /\ \A op \in operations : op.id \in Nat \ {0}
    /\ \A op, other \in operations : op.id = other.id => op = other

(* A walk from the first page to the last shows every operation that was   *)
(* there all along, though imports are recorded and the retention trims    *)
(* the table meanwhile; only a row that arrives between the two statements *)
(* of the last page pushes one past its end.                               *)
WalkIsComplete ==
    walks > 0 /\ reading = "closed" /\ ~ late => steady \subseteq seen

(* An operation goes only because the user cleared the history or because  *)
(* HistoryMax newer ones are kept: the retention never eats into the       *)
(* newest, at 0 (keep everything) and at the boundary included.            *)
NewestAreKept ==
    [][clears' = clears =>
          \A op \in operations \ operations' :
              HistoryMax > 0 /\ Cardinality(Newer(op)) >= HistoryMax]_historyVars

=============================================================================
