----------------------------- MODULE MCStepRun -----------------------------
(***************************************************************************)
(* Scenarios for model-checking StepRun.                                   *)
(***************************************************************************)
EXTENDS StepRun, TLC

NoLoop == [items |-> 0, stages |-> 0, width |-> 0, keep |-> FALSE]

Does(op) == [id |-> "", op |-> op, key |-> "k", name |-> "t", kind |-> "sure",
             loop |-> NoLoop, ttl |-> FALSE]

Call(kind) == [Does("call") EXCEPT !.kind = kind]

\* An execution that may not be cancelled, without on_error steps.
Execution(e) ==
    [exec |-> e, deps |-> {}, op |-> Does("none"), attempts |-> 1,
     timeout |-> FALSE, when |-> FALSE, valid |-> TRUE, policy |-> "continue",
     onError |-> <<>>, mock |-> "none", expect |-> "none",
     recovery |-> FALSE, redis |-> FALSE, cancellable |-> FALSE]

\* A step without retry, timeout or handlers.
StepOf(e, deps, op) ==
    [Execution(e) EXCEPT !.deps = deps, !.op = op, !.policy = "stop"]

Handler(id, op) == [Does(op) EXCEPT !.id = id]

\* Three executions that lock, read, compute, write and unlock one key, as
\* examples/lock-unlock.yaml does; the second unlocks when computing fails.
Reserve(e, lock, get, js, set, unlock, handlers) ==
    (e      :> Execution(e)) @@
    (lock   :> StepOf(e, {}, Does("lock"))) @@
    (get    :> StepOf(e, {lock}, Does("kv.get"))) @@
    (js     :> [StepOf(e, {get}, Call("flaky")) EXCEPT !.onError = handlers]) @@
    (set    :> StepOf(e, {js}, Does("kv.set"))) @@
    (unlock :> StepOf(e, {set}, Does("unlock")))

Locking ==
    Reserve("A", "a1", "a2", "a3", "a4", "a5", <<>>) @@
    Reserve("B", "b1", "b2", "b3", "b4", "b5", <<Handler("h", "unlock")>>) @@
    ("C"  :> Execution("C")) @@
    ("c1" :> StepOf("C", {}, Does("lock"))) @@
    ("c2" :> StepOf("C", {"c1"}, Does("unlock")))

\* An entry with a ttl, a delete, both stores.
KeyValue(onRedis) ==
    [A  |-> [Execution("A") EXCEPT !.redis = onRedis],
     a1 |-> StepOf("A", {}, [Does("kv.set") EXCEPT !.ttl = TRUE]),
     a2 |-> StepOf("A", {"a1"}, Does("kv.get")),
     a3 |-> [StepOf("A", {"a1"}, Does("kv.delete")) EXCEPT !.attempts = 2],
     a4 |-> StepOf("A", {"a2", "a3"}, Does("kv.set"))]

\* A transaction with two statements side by side and a rollback if one
\* fails, a second sql.begin of the same name, and a statement of another
\* execution on a connection of its own.
Begin1 == [Does("begin") EXCEPT !.kind = "flaky"]
Exec1  == [Does("exec") EXCEPT !.kind = "flaky"]

Transaction(late, stops) ==
    [A  |-> [Execution("A") EXCEPT !.cancellable = stops],
     a1 |-> [StepOf("A", {}, Begin1) EXCEPT !.timeout = late],
     a2 |-> [StepOf("A", {"a1"}, Exec1) EXCEPT
                !.onError = <<Handler("h", "rollback")>>],
     a3 |-> StepOf("A", {"a1"}, Exec1),
     a4 |-> StepOf("A", {"a2", "a3"}, [Does("commit") EXCEPT !.kind = "flaky"]),
     B  |-> Execution("B"),
     b1 |-> [StepOf("B", {}, [Exec1 EXCEPT !.name = ""]) EXCEPT !.attempts = 2]]

TwoBegins ==
    [A  |-> [Execution("A") EXCEPT !.onError = <<Handler("r", "rollback")>>],
     a1 |-> StepOf("A", {}, Does("begin")),
     a2 |-> StepOf("A", {"a1"}, Does("exec")),
     a3 |-> [StepOf("A", {}, Does("begin")) EXCEPT !.policy = "continue"],
     a4 |-> StepOf("A", {"a2", "a3"}, Does("commit"))]

\* Attempts, timeouts, delays, policies and on_error steps.
Retrying ==
    {[A  |-> [Execution("A") EXCEPT !.cancellable = TRUE, !.recovery = rec],
      a1 |-> [StepOf("A", {}, Call(kind)) EXCEPT
                 !.attempts = 2, !.timeout = TRUE, !.when = TRUE, !.policy = pol,
                 !.onError = <<Handler("h1", "invalid"), Handler("h2", "unlock")>>],
      a2 |-> [StepOf("A", {}, Call("flaky")) EXCEPT !.policy = pol],
      a3 |-> [StepOf("A", {"a1"}, Call("sure")) EXCEPT !.valid = v]] :
        kind \in {"flaky", "hang"}, pol \in {"stop", "continue", "ignore"},
        rec \in BOOLEAN, v \in BOOLEAN}

\* tailflow test: mocks and expectations.
Testing ==
    {[A  |-> [Execution("A") EXCEPT !.onError = <<Handler("h", "unlock")>>],
      a1 |-> [StepOf("A", {}, Call("sure")) EXCEPT
                 !.mock = m, !.expect = x, !.policy = pol],
      a2 |-> StepOf("A", {"a1"}, Call("sure"))] :
        m \in {"none", "output", "error"}, x \in {"none", "success", "failed"},
        pol \in {"stop", "continue"}}

\* Loops: four items, one or two at a time, through two stages.
Loop(keep, kind, width) ==
    [Does("loop") EXCEPT !.kind = kind,
        !.loop = [items |-> 4, stages |-> 2, width |-> width, keep |-> keep]]

Looping ==
    {[A  |-> [Execution("A") EXCEPT !.cancellable = TRUE],
      a1 |-> [StepOf("A", {}, Loop(keep, "flaky", w)) EXCEPT
                 !.attempts = n, !.timeout = TRUE],
      a2 |-> StepOf("A", {"a1"}, Call("sure"))] :
        keep \in BOOLEAN, w \in {1, 2}, n \in {1, 2}}

\* A retry block without max_attempts.
NoAttempts ==
    [A  |-> Execution("A"),
     a1 |-> [StepOf("A", {}, Call("flaky")) EXCEPT !.attempts = 0]]

\* A transaction whose statement may fail and has no on_error steps.
LeftOpen ==
    [A  |-> Execution("A"),
     a1 |-> StepOf("A", {}, Does("begin")),
     a2 |-> StepOf("A", {"a1"}, Exec1),
     a3 |-> StepOf("A", {"a2"}, Does("commit"))]

AllScenarios ==
    {Locking, NoAttempts, LeftOpen, KeyValue(TRUE), KeyValue(FALSE), TwoBegins} \cup
    {Transaction(l, s) : l \in BOOLEAN, s \in BOOLEAN} \cup
    Retrying \cup Testing \cup Looping

ASSUME OnErrorIdsOwn /\ CommitsOnce /\ UpdatesLocked

MCKeys == {"k"}
MCNames == {"t"}
=============================================================================
