--------------------------- MODULE ExecutionStore ---------------------------
(***************************************************************************)
(* The in-memory execution store (store/execution.go): a ring of the       *)
(* newest executions, an index of their rows by id, and their event logs,  *)
(* all under one mutex.                                                    *)
(***************************************************************************)
EXTENDS Integers, Sequences, Functions

CONSTANTS
    Capacity,       \* of the ring
    NoRow           \* an empty place of the ring

ASSUME CapacityAssumption == Capacity \in Nat \ {0}

VARIABLES
    buffer,         \* place -> id
    head, count,
    rows,           \* byID: id -> [status, steps]
    logs            \* events: id -> sequence of events

storeVars == <<buffer, head, count, rows, logs>>

StoreInit ==
    /\ buffer = [i \in 0..(Capacity - 1) |-> NoRow]
    /\ head = 0
    /\ count = 0
    /\ rows = <<>>
    /\ logs = <<>>

Drop(f, e) == Restrict(f, DOMAIN f \ {e})

Put(f, e, x) == [i \in DOMAIN f \cup {e} |-> IF i = e THEN x ELSE f[i]]

\* Whom Add makes room for; an empty place stands for nobody.
Evicted == IF count >= Capacity THEN buffer[head] ELSE NoRow

NextHead == (head + 1) % Capacity

Add(e, status) ==
    /\ buffer' = [buffer EXCEPT ![head] = e]
    /\ rows' = Put(Drop(rows, Evicted), e, [status |-> status, steps |-> <<>>])
    /\ logs' = Drop(logs, Evicted)
    /\ head' = NextHead
    /\ count' = IF count < Capacity THEN count + 1 ELSE count

\* List: newest first.
List ==
    [i \in 1..count |-> buffer[(head - i + Capacity) % Capacity]]

\* UpdateExecution; an id that is not there is passed over.
UpdateExecution(e, status) ==
    /\ rows' = IF e \in DOMAIN rows THEN [rows EXCEPT ![e].status = status] ELSE rows
    /\ UNCHANGED <<buffer, head, count, logs>>

\* The status of a row whose execution is active follows its steps.
Derived(status, steps) ==
    IF status \notin {"running", "waiting"} THEN status
    ELSE IF "running" \in Range(steps) THEN "running"
    ELSE IF "waiting" \in Range(steps) THEN "waiting"
    ELSE status

UpdateStep(e, s, st) ==
    IF e \notin DOMAIN rows THEN UNCHANGED rows
    ELSE LET steps == Put(rows[e].steps, s, st)
         IN  rows' = [rows EXCEPT ![e] =
                         [status |-> Derived(@.status, steps), steps |-> steps]]

\* AppendEvent creates the log of an id that has none, evicted or not.
LogOf(e) == IF e \in DOMAIN logs THEN logs[e] ELSE <<>>

AppendEvent(e, ev) == logs' = Put(logs, e, Append(LogOf(e), ev))
=============================================================================
