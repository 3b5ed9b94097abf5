------------------------------- MODULE Listings -------------------------------
(***************************************************************************)
(* What the agent answers about the executions in its store                *)
(* (server/handlers_executions.go, handlers_steps.go): lists with a        *)
(* filter, an order and pages, pages of an event log, the history of a     *)
(* step and the counts of its metrics.                                     *)
(*                                                                         *)
(* Times are left out, and with them the order by duration.                *)
(***************************************************************************)
EXTENDS ExecutionStore, SequencesExt, FiniteSetsExt

\* The loops that keep some entries of a list, in their order.
Only(execs, S) ==
    LET only[n \in 0..Len(execs)] ==
            IF n = 0 THEN <<>>
            ELSE IF execs[n] \in S THEN Append(only[n - 1], execs[n])
            ELSE only[n - 1]
    IN  only[Len(execs)]

\* No status means all of them.
filterByStatus(execs, statuses) ==
    IF statuses = {} THEN execs
    ELSE Only(execs, {e \in DOMAIN rows : rows[e].status \in statuses})

\* The store lists the newest first.
sortExecutions(execs, order) == IF order = "asc" THEN Reverse(execs) ELSE execs

\* What is no number, or negative, counts as not given.
parseIntParam(param, default) == IF param \in Nat THEN param ELSE default

\* Without the start, the end of a page is that of the first page.
paginateToLimit(execs, offset, limit) ==
    SubSeq(execs, offset + 1, Min({limit, Len(execs)}))

paginateExecutions(execs, offset, limit) ==
    LET start == Min({parseIntParam(offset, 0), Len(execs)})
        end   == Min({start + parseIntParam(limit, 20), Len(execs)})
    IN  SubSeq(execs, start + 1, end)

handleListExecutions(statuses, order, offset, limit) ==
    LET execs == filterByStatus(List, statuses)
    IN  [items |-> paginateExecutions(sortExecutions(execs, order), offset, limit),
         total |-> Len(execs)]

\* Pages of a log are counted from its end, and read newest first.
handleListEvents(e, offset, limit) ==
    LET size  == IF limit \in 1..200 THEN limit ELSE 50
        from  == Max({offset, 0})
        total == Len(LogOf(e))
        start == Max({total - from - size, 0})
        end   == Max({total - from, 0})
    IN  [events  |-> Reverse(SubSeq(LogOf(e), start + 1, end)),
         total   |-> total,
         hasMore |-> from + size < total]

\* The executions of the store that know the step, and its status there.
buildStepHistory(s) ==
    LET knowing == Only(List, {e \in DOMAIN rows : s \in DOMAIN rows[e].steps})
    IN  [i \in DOMAIN knowing |-> <<knowing[i], rows[knowing[i]].steps[s]>>]

\* The counts of RefreshStepMetrics.
computeStepMetrics(s) ==
    LET known == {e \in ToSet(List) : s \in DOMAIN rows[e].steps}
    IN  [total   |-> Cardinality(known),
         success |-> Cardinality({e \in known : rows[e].steps[s] = "success"}),
         failed  |-> Cardinality({e \in known : rows[e].steps[s] = "failed"})]
=============================================================================
