# TailFlow agent: TLA+ specifications

TLA+ models of the TailFlow agent (`src/`), the TLC runs that check them and
the TLAPS proofs about them. Six subsystems are modelled:

- the scheduler that runs the steps of one execution (`internal/engine`);
- the road of an execution from the engine to the store and back after a crash
  (`internal/engine`, `internal/server`, `internal/store/mariadb`);
- the way of its events to the log and to a viewer (`internal/event`,
  `internal/server`);
- what the engine does with one step, and the services the steps of all
  executions share: locks, key-value stores, SQL transactions, loops
  (`internal/engine`, `internal/runtime`, `internal/action`);
- the agent around the engine: triggers, waits, RabbitMQ, the memory store,
  cancellation and shutdown (`internal/server`, `internal/store`);
- the commands of `tailflow`, with the validation and the views of a workflow
  (`cmd/tailflow`, `internal/parser`, `internal/server`).

- [Parts of the system](#parts-of-the-system)
- [Modules](#modules)
- [Runs](#runs)
- [Fairness](#fairness)
- [Proofs](#proofs)
- [Findings](#findings)
- [Not modelled](#not-modelled)
- [Plan](#plan)

## Parts of the system

One agent process serves one workflow: a graph of steps read from a YAML file.
A trigger starts an execution; the engine runs its steps in parallel where the
graph allows; every transition is published on an event bus; the server's
capture goroutine turns the events into rows of a store, and its stream sends
them to browsers.

    trigger, webhook, cron, RabbitMQ --> runWorkflowAsync --> Executor.Execute
                                              |                    |  publishes
                                              |                    v
                                   captureEvents  <---------- event bus ------> SSE stream
                                              |  writes
                                              v
                                     execution store (memory | MariaDB)
                                              |
                           restart: recoverExecutions --> Execute(Resumed)

| Part | State | Operations | What is hard | What makes it correct |
|---|---|---|---|---|
| Dependency graph (`engine/dag.go`, `goto.go`) | `DAG`: nodes, parents, children, order | `BuildDAG`, `topoSort`, `validateGotos`, `FindLoopBody` | gotos turn a DAG into loops: which step belongs to a loop body | the order respects the dependencies; a body is all between target and goto |
| Scheduler (`engine_dag.go`, `goto.go`) | `dagState`: `ready`, `sem`, `inDegree`, `completed`, `firstErr`, `done`, `gotoIterations` | `executeDAG`, `dagLoop`, `runDAGNode`, `skipNode`, `enqueueChildren`, `handleGoto` | goroutines interleave between critical sections; `dagLoop` sends on the channel it receives from; a goto takes counters back | dependency order, exact counters, nothing runs behind a failure, it returns, once, with everything finished |
| One step (`engine_node.go`, `engine_retry.go`, `engine_outcome.go`) | its `StepResult` | recovery decision, `when`, retries, timeout, `error_policy`, `on_error` | early returns without result or event; a timer against a cancellation | one result and one final event per visit; as many attempts as configured |
| Entry and status (`engine.go`, `engine_result.go`) | `ExecutionContext` | `Execute`, `determineStatus` | a cancellation that arrives late | the status says what happened |
| Event bus (`event/bus.go`) | subscribers, sequence number | `Publish`, `Subscribe`, `SubscribeBlocking`, `Unsubscribe`, `Close` | blocking subscriber under the read lock; close against publish | a blocking subscriber misses nothing; events in order of their numbers |
| Capture and finalization (`server/handlers_capture.go`) | channel, `loopTracker` | `processEvent`, `applyStepEvent`, `finalizeExecution` | the store lags behind the engine; writes fail during shutdown | the store ends up with what the engine says, and then stays |
| Lifecycle (`server.go`, `server_lifecycle.go`) | `cancels`, timers | start, cancel, shutdown, resume, schedule | user cancellation and shutdown look alike | every execution ends; a resumed one does not repeat what it must not |
| Triggers, idempotency (`handlers_triggers.go`, claimers) | claimed keys | claim, run, replay the answer | two requests of one key | one execution per key |
| SSE stream (`sse.go`) | a cursor per viewer | replay stored events, then live ones | the join between the two | each viewer sees every event once, in order |
| Waits (`wait.go`, `rabbitmq_wait.go`) | map of waiters | `Register`, deliver, cleanup, timeout | late cleanup or delivery | a delivery that is acknowledged reaches the waiter |
| RabbitMQ trigger, shovel (`rabbitmq.go`, `rabbitmq_shovel.go`) | connection, deliveries | consume, ack, reconnect | crash between ack and run | at least (at most) one run per message |
| Memory store (`store/execution.go`) | ring buffer, index, event logs | `Add`, `Update*`, `List`, eviction | reuse of a slot, double add | index and ring agree |
| MariaDB store (`store/mariadb`) | one row per execution | transactions with a row lock | derived status | status derived from the steps while active, final afterwards |
| Locks, transactions, kv (`runtime/*`, `action/*`) | maps under a mutex | lock, unlock, begin, commit, rollback | owners, contexts, leaks | mutual exclusion, nothing left open |
| Loop action (`action/loop.go`) | per-iteration results | items, pipelines, error policy | nested steps and their order | each item once, in order |
| Validation (`parser/parser.go`) | none | `Validate` | rules in many functions, each with its own early return | refused for a reason, and told every reason there is |
| Views (`cli_render_tree.go`, `handlers_tree.go`, `handlers_graph.go`) | rows with depth and parents | `buildTree`, `resolveConvergent`, `buildLoops`, `buildGraph` | moving a block of rows by index while other rows are still to be moved | each step once, below what it waits for, its lines joined to its parents |
| Command line (`cmd_run.go`, `cli_render_events.go`, ...) | the renderer's statuses, active steps, loop | run, validate, test, serve | a renderer that reads a lossy channel behind the engine; an interrupt | the summary and the exit code say what happened |

The remaining parts (expressions, masking, telemetry, frontend, fakes)
transform data or display it; `PROJECT.json` lists them all with their status.

**Interactions.** The engine and the capture goroutine share nothing but the
channel of a blocking subscription, of 10 000 events. The capture goroutine and
`finalizeExecution` write the same row, in turn: `stopCapture` waits for the
channel to be drained. The engine, the HTTP handlers (cancel, wait delivery)
and the signal handler meet in contexts. After a restart the row is all there
is: `RecoverExecutions` selects what is running or waiting, and the engine
gets the stored step statuses as if it had produced them.

## Modules

| Module | What it is |
|---|---|
| `Dag` | Graphs of steps, what `BuildDAG` accepts, loop bodies, and `LoopsClosed`, the condition on gotos that the code does not check. |
| `WorkflowOrder` | The abstract specification of a scheduler: dispatch, finish, rewind, return, with no queue, counter or goroutine. |
| `DagScheduler` | The scheduler of the code. |
| `Dag_proofs` | Lemmas about graphs and loop bodies. |
| `Channel_proofs` | Lemmas about the sequences that stand for channels. |
| `DagScheduler_proofs` | Theorems about `DagScheduler`. |
| `MCDagScheduler` | Graphs to check it on. |
| `Recovery` | One execution with `recovery: true`: engine, event channel, capture, store, agent. |
| `Recovery_proofs` | Theorems about it. |
| `MCRecovery` | Workflows to check it on. |
| `EventStream` | The events of one execution: bus, capture, log, one viewer. |
| `EventStream_proofs` | Theorems about it. |
| `MCEventStream` | Steps and orders to check it on. |
| `StepServices` | The services executions share: locker, key-value stores, connection pool, transactions. |
| `LoopAction` | The iterations of a loop step. |
| `StepRun` | What `executeNode` does with steps that use these services. |
| `StepRun_proofs` | Theorems about it and its services. |
| `MCStepRun` | Executions to check it on. |
| `Broker` | A RabbitMQ broker (external). |
| `Waits` | Webhook waits and RabbitMQ waits. |
| `ExecutionStore` | The memory store: ring, index, event logs. |
| `Listings` | What the agent answers about stored executions: lists, pages, step history, counts. |
| `Agent` | The agent, composed of the four before. |
| `ExecutionStore_proofs` | Lemmas about the ring: what it holds and lists. |
| `Agent_proofs` | Theorems about `Agent`, its waits and its store. |
| `MCAgent` | What the agent is given. |
| `WorkflowChecks` | `Validate`, parameters, allowed actions. |
| `TreeView` | `BuildDAG` on sequences, the tree and the dashboard's graph. |
| `CommandLine` | The commands, with `DagScheduler` as the engine of a run. |
| `MCCommandLine` | Workflows and commands to check it on. |

`DagScheduler` implements `WorkflowOrder`; `Recovery` and `StepRun` take the
order of steps from there, and `CommandLine` runs `DagScheduler` itself
(`Engine == INSTANCE DagScheduler`) with a renderer beside it.

### DagScheduler

One variable per field of `dagState`, and `pc`, `node`, `todo`, `out` for where
each goroutine is. The goroutines that run steps are named by the slots of
`ds.sem` they hold, so `Slots` is `runtime.NumCPU()`. An action is one critical
section under `ds.mu`, or one channel operation:

| Code | Action |
|---|---|
| `newDAGState` | `Init` (roots in any order: they come from the order of Kahn's queue) |
| `dagLoop`: receive, read `firstErr` | `Receive` |
| `dagLoop`: `ds.sem <- struct{}{}`, `go` | `Acquire` |
| `skipNode` | `SkipNode`, then `Decrement`/`Send` in `dagLoop` itself |
| `executeNode` | `ExecuteOk`, `ExecuteErr`: any outcome, with or without a recorded result |
| `runDAGNode`, section under `ds.mu` | `FinishOk`, `FinishErr`, or `FinishGoto` when `handleGoto` rewinds |
| `enqueueChildren` | `Decrement`, once per child and in any order, and `Send` |
| deferred `<-ds.sem`, `wg.Done` | `Leave` |
| `<-ds.done`, `wg.Wait()` | `Return` |

`executeNode` is a free choice here, for the scheduler must work whatever a
step does; `Recovery` opens it. The `when` of a goto is a free choice too.
`wg.Add(1)` follows the receipt of a step in the same goroutine and belongs to
`Receive`.

`ended` and `erred` are auxiliary: which steps are counted in `completed`
(the code keeps only their number), and which returned an error.

### Recovery

What the scheduler does is taken from `WorkflowOrder`: a step may be dispatched
when its parents have finished. What is opened up is `executeNode` and what
happens around it:

| Code | Variable or action |
|---|---|
| `execCtx.Steps` | `mem` |
| where `executeNode` is | `phase`: pending, dispatched, started, acting, waiting, settled, finished |
| channel of `captureEvents` | `queue`, events as `[to, steps]` |
| the row in MariaDB | `stored`, `status` |
| `handleRecovery` | `Decide`, then `PassOver`, `FailRecovery` or what follows |
| `evaluateWhenCondition` | `WhenFalse`, `WhenError` |
| `step.started` | `Begin` |
| config, registry, `Validate` errors | `Reject`: an error, no result, no event |
| `act.Execute` | `Act`, `Wait` for wait actions, then `Succeed` or `Fail` |
| `runDAGNode`, `handleGoto` | `Finish`, `Rewind` |
| `determineStatus`, `Execute` | `Return` |
| `processEvent`, `UpdateStep` | `Capture`, one transaction each, with `Derived` for `deriveExecutionStatus` |
| `stopCapture`, `finalizeExecution`, `mergeStepResults` | `Finalize`, guarded by `Drained` |
| `POST .../cancel` | `Cancel` |
| signal, `shutdownServices` | `Shutdown`, `Exit` |
| process dies | `Crash` |
| `recoverExecutions`, `runWorkflowAsync` | `Restart` |

A result and the event that follows it are one action: nobody reads the result
in between but this execution's own later steps. `runs` (calls of each action)
and `bypassed` (steps skipped for a failure) are auxiliary.

### EventStream

`Publish` in slow motion. `Recovery` takes the channel of `captureEvents` for a
queue in which results and events are one order; `EventStream` opens that:

| Code | Variable or action |
|---|---|
| goroutines of the steps, of `Execute`, of another execution | `pc`; the order of the steps is `after` |
| `Publish` under `b.mu.RLock()` | `RLock`, one `Deliver` per subscriber (wait for room or drop), `Return` |
| `b.mu.Lock()` | `pending` keeps new readers out, `Locked` when the last one has left |
| `subscription.ch` | `chan`, `closed` |
| `captureEvents` | `Capture`, `StopCapture`, `UnsubscribeCapture`, `Drain` |
| `ensureWorkflowCompleted` | `Ensure` |
| `handleSSE` | `Connect`, `Subscribe`, `Replay`, `Receive`, `ClientGone`, `UnsubscribeViewer` |

A step publishes `step.started` and `step.completed`, or `step.skipped` alone.
`published` (the events in the order in which their `Publish` begins) and
`early` are auxiliary. The release of the read lock is one action with the last
send, which nobody can tell from two.

### StepRun, StepServices, LoopAction

Several executions at once, each with its steps; a *caller* is a step or, for
the `on_error` steps of the workflow, its execution. Which step may start is
taken from `WorkflowOrder`. `run[c]` is where `executeNode` is with a caller:
its phase, attempt, `on_error` step, whether its context has expired, its error
and the events it published.

| Code | Action |
|---|---|
| `enqueueChildren`, `dagLoop` | `Ready`, `Dispatch`, `Skip`, `Given` |
| `evaluateWhenCondition` | `WhenFalse`, `WhenError` |
| `findTestCase`, `applyTestMock`, `checkTestExpect` | `Mock`, `ExpectFails` |
| config, registry and `Validate` errors | `Reject` |
| `executeWithRetry`, `waitForRetry` | `NoAttempt`, `Attempt`, `Start`, `Backoff`, `RetryTimer`, `RetryCancelled` |
| `applyTimeout`, `cancelExecution` | `Timeout`, `Cancel` |
| `handleStepError`, `executeOnError` | `Fail`, `Stops`, `Ignored`, `HandlerReturned`, `HandlerInvalid`, `Settle` |
| `MemoryLocker.Lock`, `Unlock` | `LockTry`, `LockWake`, `LockGivesUp`, `Unlock`: one signal in the channel for any number of waiters |
| `kv.*` | `KvRead`, `KvWrite`, `KvRemove`, `Expire`; on Redis each call may fail |
| `MemoryDBPool.Get` | `PoolLook`, `PoolSlow`, `PoolPing`: read lock, write lock with a second look, ping outside |
| `sql.begin`, `MemoryTxRegistry.Begin` | `Begin`, `Connected`, `ConnectFails`: the registry's mutex is held across `BeginTx` |
| `sql.exec`, `sql.commit`, `sql.rollback` | `ExecInTx`, `ExecAlone`, `TakeTx`, `FinishTx` |
| `database/sql` (external) | `TxAborts`: a transaction whose context is over is rolled back |
| `executePipeline`, `runPipelineSteps` | `LoopBegins`, `LoopStep`, `LoopReturns` |
| `determineStatus`, `buildExecuteResult` | `Handle`, `Finish` |

Two things are said of the scenarios. No `on_error` step is a loop, which is a
bound. `OnErrorIdsOwn`, that no `on_error` step has the id of a step, is
nothing the parser asks for; it is not an assumption of the model but a
hypothesis of the theorems that need it.

How a call of the outside ends is part of the scenario: well, either way, or
only when its context is done.

### Agent, Waits, Broker, ExecutionStore, Listings

| Code | Action |
|---|---|
| `handlePublicTrigger`, `handleIdempotencyCheck`, `executeTriggerWorkflow` | `Request`, `Claim`, `StartRequest`, `AnswerSync` |
| `CronScheduler` | `Tick` |
| `ScheduleExecution`, `AfterFunc` | `Schedule`, `TimerFires` |
| `RabbitMQConsumer.consumeLoop`, `handleMessage` | `Consume`, `AckEarly`, `OnMessage`, `Acknowledge`, `ConsumeEnds` |
| `wait.webhook`, `wait.rabbitmq` | `RegisterStep`, `EmitWaiting`, `Taken`, `GivesUp`, `Leave` |
| cleanup of a registration, at the return and when its context is done | `Cleanup`, `LateCleanup` (`watch` holds the goroutines) |
| `WaitRegistry.Deliver` | `HookLooksUp`, then `HookSends` without the lock |
| `consumeLoop`, `routeMessage`, `deliverToWaiter` of the waits | `ConsumerLoop` |
| `rabbitmq.shovel` | `ShovelOpen`, `ShovelGet`, `ShovelPublish`, `ShovelSettles`, `ShovelEnds` |
| `runWorkflowAsync` after `Execute` | `Return`, `Finalize`, `EnsureCompleted`, `OnComplete` |
| `captureEvents`, `applyStepEvent` | `Capture` |
| `POST .../cancel`, signal, `shutdownServices` | `Cancel`, `Shutdown` in stages |
| lost connections | `ConnectionLost`: what was unacknowledged is queued again |
| `ExecutionStore.Add`, `UpdateStep`, `AppendEvent`, `List` | operators of the same names |
| `handleListExecutions`, `handleListEvents`, `buildStepHistory`, `computeStepMetrics` | operators of the same names, evaluated in every state |

The steps of an execution run side by side; their dependencies are the subject
of the modules above. A message in the hands of `consumeLoop` when the wait
manager closes is dropped with its channel. After the exit nothing moves.
The insert of MariaDB's claimer has the same operator as the memory one, its
failure is `claimFails`; the refresh of the metrics is left out. An
execution that a timer started schedules no other (a bound: the workflow would
go on for ever). A webhook is sent to a path that some step of the workflow has;
any other path is answered as one nobody waits on.

### CommandLine, TreeView, WorkflowChecks

`WorkflowChecks` has one operator per validating function, from a workflow to
its errors. `TreeView` has `BuildDAG`, with the order and the repetitions of
`depends_on`, the depth-first rows of the tree, the moves of
`resolveConvergent` by index as the code makes them, loop brackets, and the
graph of the dashboard. `CommandLine` has one action per stage of a command:

| Code | Action |
|---|---|
| `executeValidate` | `Parse`, `CheckActions`, `BuildTree` |
| `executeRun`, `runAndReport` | `Parse`, `BuildTree`, `SetUp`, `Begin`, `Interrupt`, `Executed`, `Drained`, `Report` |
| the engine | `RunLoop`, `RunAcquire`, `RunWorker`: an action of `DagScheduler` together with what the step publishes and records |
| `cliRenderer` | `handleEvent`: one event from its channel |
| `executeTest`, `executeTestList` | `executeTest`, `runSingleTestCase`, `executeTestList` |
| `GET` and `PUT` of the workflow | `GraphDag`, `GraphBuild` (the two reads of `config.Workflow`), `PutWorkflow` |

Of a command that executes nothing the variables of the scheduler are never
looked at. Output and log events, the lines of the screen and its ticker are
left out.

## Runs

| Run | Question | Result |
|---|---|---|
| `dag_scheduler` | Is the scheduler right on closed graphs? | ten properties hold, 116 341 states |
| `dag_side_branch` | ... when a loop body has dependents outside? | `DependencyOrder` violated |
| `dag_stray_goto` | ... when a goto target is no ancestor? | `Terminates` violated |
| `recovery` | Does an execution survive a crash? | six properties hold, 562 211 states |
| `recovery_side_effect` | Does `on_recovery: skip` prevent a second run? | `SideEffectOnce` violated |
| `recovery_success` | Does success mean that all that should run ran? | `SuccessLeavesNothingOut` violated |
| `event_stream` | Do log and viewer get what was published? | six properties hold, 273 382 states |
| `event_lost` | ... a viewer that connects late? | `LosesNothing` violated |
| `event_twice` | ... when steps publish in parallel? | `NoneTwice` violated |
| `step_run` | Do steps get what locks, transactions, retries and loops promise? | seven properties hold, 53 000 states |
| `agent` | Does the agent do what it was asked to, once, and tell so? | six properties hold, 317 404 states |
| `command_line` | Is what a command says true of its workflow? | five properties hold, 477 781 states |

**dag_scheduler.** Six graphs written out (a diamond; a fan with more roots
than slots; loops with a sequential and a parallel body, the first with a root
that its body waits for; nested and overlapping loops) and *every* graph of
three steps with every closed choice of gotos. Two slots: with two, a slot can
be held while another step finishes, and steps queue for a slot; a third adds
interleavings of the same kinds. One or two rounds per goto: the second round
starts from counters that a reset has produced. It shows:

- `TypeOK`, which keeps `completed` within 0..total. The other modules' `TypeOK`
  are proved (`TypeCorrect`, for every value of the constants) and not in a run.
- `DependencyOrder`, `InDegreeExact`: a step in hand has all its dependencies
  finished in this round, and `inDegree` is exactly the number of parents that
  have still to let it go, so no decrement is lost or doubled by parents that
  finish together or by a reset.
- `CountMatches`, `DoneMeansAll`: `completed` counts the finished steps, and
  `ds.done` is closed once, with nothing queued, in hand or to be released.
- `NoBlockedSend`: `ds.ready` always has room. `dagLoop` is its only receiver
  and also sends on it, so a full channel would be a deadlock.
- `FailureStopsDependents`, `ReturnTellsAll`: nothing runs downstream of a
  failure although `firstErr` is read in one section and acted on later; the
  error and the results that come back are complete.
- `ImplementsOrder`: refinement of `WorkflowOrder`. `Terminates`.

**recovery.** Three workflows: a join of a step that continues on errors and
waits, and a payment with `on_recovery: fail`; a chain with a wait in the
middle; a loop. Between them every `on_recovery`, `error_policy: continue`,
conditions, waits. One crash or shutdown at any point, two on the chain, so
that a resumed execution is interrupted as well. A third would start from a row
like those the second one leaves, since nothing but the row survives. It shows:

- `NothingLost`: a result in memory is the last thing the store or the channel
  says of that step, across loops and restarts, except for what `on_recovery`
  decided of a running step (kept from the store until the end).
- `RunsOnSettled`: an action runs only with all its dependencies settled, also
  when half of them come from an earlier process.
- `StoredSuccessKept`, `OnRecoveryKept`: what is stored as a success, or as
  running with `skip` or `fail`, is not run by the resumed execution, unless a
  loop puts it back.
- `FinalIsFinal`: nothing moves in the row and nothing runs after the final
  status, also not by a late event or a restart.
- `Concludes`: every execution reaches a final status in the store.

**event_stream.** Two steps, one of them skipped; in sequence beside another
execution, or in parallel. Buffers of one and two events stand for 10 000, so
that the blocking one fills and the other drops. It shows:

- `LogExact`, `CompletedCloses`: when `stopCapture` returns the log holds every
  published event once, and `workflow.completed` stands behind all step events.
- `NoSendOnClosed`: `Unsubscribe` never closes a channel under a `Publish`.
- `SeenInOrder`, `EarlySeesAll`: if the steps run one after the other, a viewer
  sees no event twice or out of order, and one that was there first sees all of
  them. The two violations show that neither condition can be dropped.
- `AllEnds`: the execution ends although `Publish`, the capture
  goroutine and the writers of `b.mu` wait for each other; so does the stream
  of a viewer that was there first, unless the execution was cancelled and has
  `recovery: true`.

**step_run.** Three executions contend for one lock, as
`examples/lock-unlock.yaml` does; one entry with an expiry on either key-value
store; a transaction with two statements side by side, a second `sql.begin` of
the same name, and a database of two connections, so that there are none left;
every kind of call with two attempts, a timeout, each error policy and
`on_error` steps; mocks and expectations; loops of four items, one or two at a
time, through two stages; a retry block without attempts; a transaction that
nobody ends. Two of a thing are what each rule speaks of: two attempts, two
connections, two stages; three executions on a lock are the first number where
one signal has to serve two waiters. It shows:

- `EventTellsResult`: on every path through `executeNode` one final event, and
  the one that fits the result.
- `NoLostUpdate`, `LockWaiterWoken`: the lock excludes although a waiter may
  give up and any step may unlock, and nobody sleeps beside a free key.
- `OneHandle`, `CommitKeepsAll`: steps that ask first at the same time share
  one handle; a commit that succeeds keeps every statement it depends on.
- `LoopAnswersForAll`: a loop step leaves no iteration behind.
- `ExecutionsEnd`.

**agent.** One scenario each for two requests with one key; three executions in
a store of two; a webhook wait with a retry, a timeout of its own, or
cancelled, and two steps with one path; two executions that wait on one queue
for their own message or for any; the RabbitMQ trigger in both modes; the
shovel; the schedule action; with lost connections and a shutdown at any point
where they matter. It shows:

- `RingTells`: ring, index and logs agree on the newest executions, each with
  its own events and its own status.
- `ListingsTell`: the pages of each listing, however it is cut, are put together
  what was asked for; the history of a step is what was told of it.
- `OnePerKey`: one execution per idempotency key, and the others are told which.
- `AckedForAReason`: a message leaves the broker only for what it was to do.
- `TakenOnce`: a webhook or message reaches one waiter, one it was meant for
  (again only if a lost channel brought it back).
- `EverythingEnds`: executions end and requests are answered.

**command_line.** Each of the five properties says of one thing a command tells
that it is true, when the command has ended or the request is answered; the
expected answer is written over relations (`Acyclic`, `Proper`, `Follows`,
`InTurn`), not over the algorithm.

- `RefusedForAReason`: `validate` and `run` refuse a workflow exactly if
  something is wrong with it, and for every reason there is: no fault hides
  another.
- `TreeFollows`: a tree shows each step once, in its place, and every row finds
  its parent's.
- `GraphFollows`: whatever is put while a graph is asked for, the agent has a
  workflow `Validate` accepts, and the answer is that of the workflows it read.
- `SummaryFollows`: while no event was dropped the summary counts every result,
  however late the renderer reads; `run` exits with 0 exactly if no step
  returned an error and no interrupt turned it into a cancelled one.
- `LoopsTold`: where steps run in turn and loops share no step, each loop is
  told once, with the number of its rounds, and each step of it once. An event's
  data goes through JSON in `Bus.Publish` (`SnapshotData`), so the renderer does
  read the iteration and the body; `loop` and `lines` are what it makes of them.

Inputs:
*every* dependency relation of four steps, cycles included, every acyclic one of
five, every goto over three, every pair of faults the validation knows,
parameters with defaults and patterns, test cases, an edit between the two
reads of a graph request (a step more, a step less, a name taken away, a
cycle), and runs with retries, conditions, failures, a loop of three rounds, two
loops in a row, an interrupt, and a channel with room for 1, 2 or 1000 events.
Three rounds are the first number where an event brings its iteration only
(`cli_render_events.go:340`); five steps are
the first number where a moved row is followed by another joining one. That
every command ends is the absence of a deadlock together with behaviours that
are finite by their counters.

One exemption of `TreeFollows` is the code's own: a move of one joining step
takes its block along, and with it another joining step, which is then drawn
above a step it waits for (`Carried`).

`CHECK_DEADLOCK FALSE` is used in `dag_stray_goto`, whose point is that the
system stops, in `step_run`, where executions end, and in `agent`, which comes
to rest when nothing more comes in. Elsewhere the end is an explicit stuttering
action, so a state without a step is an error.

## Fairness

`DagScheduler`: weak fairness of `dagLoop`, of the hand-over of a slot, of each
worker and of `Return`. The Go scheduler runs every goroutine that can run, and
an action that was called returns: waits and steps have timeouts, and every
action gets a context. `Acquire` is fair as a whole, not per slot: the code
does not choose a slot. No fairness makes a step succeed or a goto fire.

`Recovery`: the same for `executeNode` (as one disjunction over the steps: some
step moves), the capture goroutine, `Execute` and `finalizeExecution`; a
process that is stopping exits (`shutdownServices` is bounded by 5 s), and
someone restarts the agent. Crashes, shutdowns and cancellations are never
required to happen, and their number is bounded.

`EventStream`: publishers, the goroutine of the execution, the capture
goroutine and the handler of the viewer, each weakly fair; Go's `RWMutex` does
not starve a writer, which `pending` models. A client need neither come nor go.

`StepRun`: weak fairness of `System` as a whole: some goroutine that can run
does, timers fire, calls that are not said to hang return. Every step of the
system uses up something (a phase, an attempt, an item), so nothing more is
needed. A call of kind "hang" returns only when its context is done, and then
`ExecutionsEnd` rests on the timeout. A cancellation need not come.

`Agent`: each goroutine goes on by itself while the process lives: of an
execution, of each of its steps, of a request, of a webhook, the loops of the
trigger and of the waits, and timers. Nothing that comes from outside is fair.

`CommandLine` states no fairness and no liveness.

## Proofs

Forty-five theorems in five modules, for every value of the constants that their
assumptions allow: any number of graphs, steps, slots and loop rounds, of
crashes, of buffer places, of callers, attempts and items, of requests,
executions, messages, webhooks and places in the ring. In each, the properties
are not inductive, and the work is in the invariant that is. Every inductive
invariant was checked by TLC on the instance of its run before it was proved.

### DagScheduler_proofs

| Theorem | Statement |
|---|---|
| `Invariance` | `Spec => []IInv` |
| `TypeCorrect`, `DependencyOrderHolds`, `CountMatchesHolds`, `InDegreeExactHolds`, `NoBlockedSendHolds`, `DoneMeansAllHolds` | the safety properties of the run, from `IInv` |
| `FailureInvariance` | `Spec => []FInv` |
| `FailureStopsDependentsHolds`, `ReturnTellsAllHolds` | the two properties about failures, from `FInv` |
| `ImplementsOrderHolds` | `Spec => Order!Spec` |

**Assumptions.** `DagsAssumption` (graphs that `BuildDAG` accepts),
`SlotsAssumption`, and, as hypothesis of each theorem, `LoopsClosed` for every
graph. The last is *not* checked by the code; `dag_side_branch` and
`dag_stray_goto` show that without it the theorems are false.

**Argument.** `IInv` adds where each step is and who owes what:

- `OnePlace`: a step is in one place only: queued once, about to be sent by one
  process, in hand of one process, or finished.
- `OneReleaser`: only a process in `enqueueChildren` has children to release,
  they are children of the finished step it holds, and no two processes hold
  the same.
- `StartedLetGo`: a step that is in any of these places was let go by all its
  parents. With `InDegreeExact` this says that a step is sent exactly when its
  count reaches zero.
- `DoneExact`: `done` is closed if and only if every step has finished.

The hard case is `FinishGoto`, which takes the loop body back. There
`LoopsClosed` gives that every step of the body is finished and no process is
still releasing a child of one (a body step other than the goto has children in
the body only, and those have finished, so they were let go), that no step
outside has been let go by the body but through the goto step, and that
`loopInDegree` is the number of parents inside, those outside having finished.
`NoBlockedSend` is a counting argument: queued and outgoing steps are distinct,
so fewer than all are in the channel while one is still to be sent.
`FInv` adds that whatever is admitted has no failed or skipped ancestor, for
`firstErr` was nil when it was received and a step that fails later had not
finished then. The refinement uses `IInv` in each step: `Dispatch` from
`StartedLetGo`, `Rewind` from the argument above.

### Recovery_proofs

| Theorem | Statement |
|---|---|
| `Invariance` | `Spec => []IInv` |
| `TypeCorrect`, `NothingLostHolds`, `RunsOnSettledHolds` | the types, and the invariants of the run |
| `StoredSuccessKeptHolds`, `OnRecoveryKeptHolds`, `FinalIsFinalHolds` | its action properties |

**Assumptions.** `WorkflowsAssumption`, `CrashesAssumption` (a natural number:
the theorems hold for every bound, so for any number of crashes) and, as
hypothesis, `LoopsClosed`.

**Argument.** What a process knows and what the store will know are compared
through the channel: `Replay(n)` is what the store has of a step once the
events under way are applied.

- `Kept`: `Replay(n)` is the result in memory, in every phase and not only
  where `NothingLost` looks.
- `Untouched`: a step this process has not started is stored as it is
  remembered, or a loop put it back and the event that says so is under way.
  This is what makes the first event of a step harmless after a resumption.
- `WithheldWaits`: a step that `on_recovery` keeps from running is not at work,
  and is in memory as running while it is still to be passed over, so no other
  path can start it.
- `InOrder`, `ResultsIn`, `NoOldResult`: what is past pending has its
  dependencies finished, what ended has a result unless an error without one
  stopped the execution, and what is at work has no result left from before.
- `FinalMeansDone`: a final status stands only over an empty channel and an
  engine that has returned.

A rewind takes the results of a body back and says so in one event; `Replay`
then says pending of exactly the steps memory says nothing of. A crash empties
memory and channel together, so after it `Replay` is the row.

### EventStream_proofs

| Theorem | Statement |
|---|---|
| `ControlHolds` | `Spec => []Control`: where each goroutine is, and who is subscribed |
| `TypeCorrect`, `NoSendOnClosedHolds` | from `Control` |
| `StoredHolds` | `Spec => []Stored`: where each published event is |
| `LogExactHolds`, `CompletedClosesHolds` | from `Stored`, the latter with `LastOfAll` |
| `OrderedHolds` | `Spec => [](Sequential => Ordered)` |
| `SeenInOrderHolds`, `EarlySeesAllHolds` | from `Ordered` |

**Assumptions.** `StepsAssumption` and `SizesAssumption`: both buffers have at
least one place.

**Argument.** `Control` is about the lock: a channel is closed only by a writer
that holds it, and then no publisher has that subscriber left to send to.
`OnePlace`, the core of `Stored`, says that an event is owed by its publisher,
or in the channel of the capture, or in the log, in one of the three, and once;
a `Deliver` moves it from the first to the second and a `Capture` from the
second to the third. When the channel is drained and all publishers have
returned, the log is what is left. `LastOfAll` adds that the step events are
ahead of `workflow.completed` wherever that event is.

`Ordered` is the sequential case. At most one `Publish` of the execution is
under way, that of the latest event, so the log is a prefix of what was
published. The viewer's cursor is `Taken`: events it passed over as replayed
and events it showed after the replay. What it was replayed is a prefix, what it
showed later is ascending and behind it, what waits in its channel is behind
`Taken`, and the event under way behind all of these. A viewer that was there
first and for which nothing was dropped has, in addition, every event behind
`Taken` in its channel or under way (`MissesNone`).

### StepRun_proofs

| Theorem | Statement |
|---|---|
| `EngineHolds` | `Spec => []Engine`: where `executeNode` is with each caller |
| `TypeCorrect` | from `Engine`, `OnePool`, `Registered`, `Kept`, `Iterated` |
| `EventTellsResultHolds` | under `OnErrorIdsOwn` |
| `OneHandleHolds` | with `OnePool`: who opens the handle holds the write lock, and there is none yet |
| `LockWaiterWokenHolds` | for any number of waiters, keys and unlocks |
| `LoopAnswersForAllHolds` | under `OnErrorIdsOwn`, with `Answered` |
| `OrderedHolds` | under `OnErrorIdsOwn`: when a step comes to its turn |
| `OwnHolds` | under `OnErrorIdsOwn`: whose transaction and whose mutex it is |
| `CommitKeepsAllHolds` | under `OnErrorIdsOwn` and `CommitsOnce`, from `Ordered`, `Own` and `Commits` |
| `GuardsHold` | `Spec => []Guards` under `OnErrorIdsOwn` and `UpdatesLocked` |
| `NoLostUpdateHolds` | from `Guards` |

**Assumptions.** `ScenariosAssumption` (types of the settings; finitely many
steps, each depending on steps of its own workflow; no `on_error` step is a
loop) and `ConnsAssumption`. `OnErrorIdsOwn` is a hypothesis where it
is needed: an `on_error` step writes its result under its own id, so a workflow
that gives it the id of a step has two results in one place. The parser does
not exclude that. `MCStepRun` evaluates the hypothesis, so its instances have it.

**Argument.** `executeNode` has many ways through one step. `Moves`
groups them by what they do to the record of a caller (it begins, returns from
a call, gives up, is timed out, hands over to the `on_error` steps, settles),
and each group keeps `Engine`. `Reported` then says for each phase which events
are out: nothing but "started" before the end, one final event, and the one of
the recorded result, after it. `LockWaiterWoken` is inductive over
the types: the signal is put where a lock is let go, and whoever takes it, and
leaves the others without, is one that tries next. `Answered` says that between two attempts of a loop step no
iteration is running.

*Two properties of workflows, not of any workflow.* The services let a
workflow commit what it has not waited for, or write a key without its lock; so
`CommitKeepsAll` and `NoLostUpdate` are theorems about workflows laid out in
the way the documentation shows. `MCStepRun` asserts both layouts for every
scenario of the run.

- `CommitsOnce`: a `sql.commit` is tried once, and whatever else ends a
  transaction of its name in the same workflow is an `on_error` step of a step
  before it, whose policy then keeps the commit from running. Without this a
  second attempt may find another transaction under the same name, and commit
  that. Several steps may begin under the name, at the same time too.
- `UpdatesLocked`: around a key that steps count up under a lock the workflow
  is laid out as `src/examples/lock-unlock.yaml` is: one lock, then one read,
  then one write, each of which either does what it is for or stops the
  execution; every unlock comes after the lock, and after the write or instead
  of it; and only one of them ever runs. `Unlock` does not ask whose lock it
  is: a second unlock opens the lock of another execution.

*Transactions.* `Ordered` is the order of steps by their results: `Before` is
the least set closed under dependencies, and when a step is in progress every
step before it has passed. So the statements a commit depends on are over when
it starts. `Own` says that a registered transaction is one its execution began,
and that a `begin` waiting for its connection holds the mutex, with the name
free: none is put in the place of one that has statements. `Commits` then
follows each statement: it is in the transaction registered under its name
until `FinishTx` has taken that transaction out, in the transaction taken until
the database has answered, and in `rows` once the commit is a success. What
ends a transaction otherwise (its context, another step) is excluded by `Own`,
by `CommitsOnce`, or by `Halted`: a step before the commit runs its `on_error`
steps, and then the commit never comes to its turn.

*Locks.* `Held` says that at most one execution is past its lock step and not
yet past its unlock, and that the key is then locked; `Fresh` that what this
execution has read is still the value while it has not written; `Guarded` that
the value is the number of writes. `Fresh` is why the read has to come after the
lock, `Held` why nothing but the holder may unlock: an unlock by a step of the
same execution is the one after the write, or belongs to a step that has
failed, before which the write has not run and after which it never will
(`GivesUpBefore`). The waiters need no argument of their own: whoever wakes
tries again, and finds the lock as it is.

### ExecutionStore_proofs, Agent_proofs

| Theorem | Statement |
|---|---|
| `Invariance` | `Spec => []Inv` |
| `TypeCorrect` | with `StoreTypes`, `Streams`, `Counters` |
| `OnePerKeyHolds` | from `Numbered` and `Keyed` |
| `AckedForAReasonHolds` | from `Reasoned` |
| `TakenOnceHolds` | from `Counted` |
| `RingTellsHolds` | from `Listed`, `Streaming` and `Logged` |
| `ListingsTellHolds` | from these and `Stepped` |

**Assumptions.** `IdsAssumption`, `ScenariosAssumption` (among them: a message
and a webhook are told apart, and from an empty and a closed channel),
`StepIdsAssumption` (the parser refuses a step without an id,
`parser.go:185`), `ChannelsAssumption`, `CapacityAssumption` (at least one place).

**Argument.**

- *One execution per key.* Requests have ids of their own (`Numbered`). For each
  claimed key there is the one request that claimed it, which goes ahead, and
  all others with the key that went ahead had a claim that failed (`Keyed`).
- *Waiters are fresh.* A waiter is one attempt of one step. A step goes through
  its attempts and the parts of each only forward, so a waiter that has
  something in its channel has registered (`Been`), one that took something
  has left its select (`Took`), and a new registration finds its channel empty
  (`OnlyRegistered`).
- *Taken once.* `Balance(m)` is how many waiters may hold a message: one for
  each time the broker took it back, one more when it is acknowledged, and one
  less while it is in hand and no longer the broker's to acknowledge. Each
  action that lets another waiter hold the message raises the balance by one.
  A webhook is held by the waiter whose address the sender looked up, from the
  moment it says delivered.
- *Acknowledged for a reason.* A message is acknowledged by the loop of the
  trigger, the end of an execution, the shovel, or `routeMessage`; each knows
  the reason, and a reason once there stays: an execution keeps what it was
  started for and how it ended, copies are not taken back, and a waiter gives
  up what is in its channel only by taking it.
- *The store.* `ExecutionStore_proofs` has the ring alone: `Recent(q, ...)`
  says that going back from `head` one meets the newest of the sequence `q`,
  `AddKeepsRecent` that `Add` turns the newest of `q` into the newest of
  `Append(q, e)`, whom it evicts included, and `ListsNewest` that `List` reads
  them. The arithmetic is that of going back in a ring (`BackIsModulo`,
  `BackOneMore`). `Agent_proofs` adds that ids are added once (`Listed`: an id
  is added when it is drawn, or belongs to a request that still has to start),
  that an execution that has returned publishes nothing more and one that is
  finalized is drained (`Streaming`), and that each row has the captured events
  and the final status (`Logged`). The last two are what keeps
  `ensureWorkflowCompleted` from writing a second completion into a log that is
  still there.
- *The listings.* `Only` is what the filters of the handlers keep of a list.
  That it keeps each entry of the set once (`OnlyKeeps`), and everything if the
  set leaves nothing out (`OnlyAll`), is counted up along the list (`CountingUp`:
  otherwise adding one would map the finite set of numbers met so far into
  itself, one to one, missing 0). With the list once through the ring
  (`NewestOnce`), a page and the page after it are one longer page
  (`PagesJoin`), in both orders, and a page as long as the list is the list.
  For the history, `Stepped` says that each row has, for each step, the status
  of the last captured event about it, through late events, the merge at the end
  and eviction; `PlacesAndEntries` counts them.

### Only model-checked

- `Terminates`, `Concludes`, `AllEnds`, `ExecutionsEnd`, `EverythingEnds`:
  liveness under fairness is outside the prover.
- The five properties of `command_line`: the views are recursive operators, which
  the prover does not support.

## Findings

1. `dag_side_branch`: a dependent of a loop body outside the body is released
   by the repetitions of the loop, before its other dependencies have finished
   (`goto.go:110`, `engine_dag.go:161`).
2. `dag_stray_goto`: a goto to a step of another branch passes `validateGotos`
   and hangs the execution (`dag.go:85`).
3. `recovery_side_effect`: `on_recovery: skip` and `fail` do not protect a step
   whose `step.started` had not been written at the crash
   (`handlers_capture.go:76`).
4. `recovery_success`: a resumed execution passes over steps that were skipped
   because of a failure and reports success (`engine_node.go:26`).
5. `event_lost`: a viewer that connects to a running execution misses as many
   new events as it was replayed old ones, possibly the last (`sse.go:183`).
6. `event_twice`: with parallel steps an event may be replayed and sent again
   (`sse.go:183`).

Seen while modelling, modelled as the code does it, without a run of its own:

*Steps and services*

- The key of a retry block is `max_attempts` (`engine_retry.go:24`); with the
  `max` of `src/README.md:40` there are zero attempts, the action is not called
  and the step is a success (`NoAttempt`). The delay named exponential is not.
- A lock is kept when its execution fails before the unlock step
  (`src/README.md:41` says otherwise); `Unlock` asks nobody whose lock it is.
- `RollbackAll` is never called (`runtime/services.go:39`): a transaction
  nobody ended stays open and keeps its connection.
- `sql.begin` with a timeout begins a transaction that is rolled back as soon
  as the step returns, its context being over.
- `MemoryTxRegistry.Begin` holds the registry's mutex while it waits for a
  connection; with all connections in transactions of that execution nothing
  can commit, until a context ends.
- `kv.set` on Redis answers `stored: true` when the write failed.
- Expectations of a test case are passed over when the step failed under
  `error_policy: continue`; a step's timeout does not reach a loop's calls.

*Agent*

- The row of a scheduled execution stays `scheduled`: the run has an id of its
  own. It takes a place in the ring.
- The answer to a duplicate is always `running` with the memory claimer.
- `AppendEvent` makes a new log for an id that was evicted;
  `ensureWorkflowCompleted` then finds no completion in it and publishes one
  more. An execution that was evicted while running cannot be cancelled.
- `handleGetAllStepMetrics` takes the last twenty of a list that has the newest
  first: with more executions than that, the oldest ones.
- The consumer of the trigger does not reconnect. A message of the waits that
  nobody wants is queued again, and with a prefetch of 1 comes again first. A
  message whose execution fails is run again for ever with `ack_on_success`.
- `dagLoop` outlives each execution: `ds.ready` is never closed
  (`engine_dag.go:82`).

*Command line and views*

- One loop is tracked at a time, by the renderer and by the server's
  `loopTracker` (`sse.go:28`): a step outside the body that starts meanwhile, in
  a parallel branch, ends it, and the renderer says "loop completed" before it
  is; capture stores the events of the following rounds again. If the event of
  the second round was dropped, the one of the third brings no body
  (`cli_render_events.go:340`).
- `step.started` is published again for a retry, and a second entry of the
  step stays among the renderer's active ones. A step that is rejected has no
  event: the summary does not count it, or counts what it was in the
  iteration before.
- `Validate` knows no cycles and no gotos: `serve` accepts, by file or `PUT`, a
  workflow whose graph is then answered with an error. The graph request reads
  `config.Workflow` twice, so a `PUT` may come between: the answer then mixes
  two workflows, and with a step less it has a row without an id or finds no
  parent.
- `on_error` steps and the calls of a loop are not compared with the actions
  the command line allows, nor the ids of `on_error` steps with those of steps.
- `--param` without `=` is passed over; `test --case` with an unknown name runs
  the workflow with its real actions.

## Not modelled

- Data: outputs, masking, expressions. Conditions are free choices. A resumed
  execution gets masked parameters and outputs and no trigger data; no property
  here speaks of them.
- In `DagScheduler`: contexts. A cancelled step is a step that fails.
- In `Recovery`: retries and timeouts inside one visit of a step (one `Act` is
  the visit), `on_error` steps, `error_policy: ignore` apart from its outcome
  (a success), failures of the database other than those of a cancelled
  context, the stored event log, and workflows without `recovery: true`, which
  nothing resumes.
- In `EventStream`: `Bus.Close` (called at the end of the process or of the
  command; `CommandLine` closes its bus in `Drained`), sequence numbers (nothing reads them), gotos: the loop tracker,
  the enriched events of loops and the events of loop rounds that capture does
  not store, the global stream, errors of the store, a graph that
  `BuildDAG` refuses.
- In `StepRun`: gotos, input and log events, the reads of `sql.query`, the
  closing of the pool at shutdown, the comparison of a mock's output
  (`partialMatch`), more than one data source.
- In `Agent`: `mergeStepResults` when an execution is finalized (its statuses
  are those of the captured events, which are all stored by then), the copies
  that the store hands out, metrics, which connection a
  RabbitMQ wait uses (there is one), headers, and the kv and pool handles closed
  at shutdown.
- In `CommandLine`: flags and telemetry setup, colours, widths and the
  characters of a row, stages of loop actions in the tree.
- Nowhere: actions that call an outside service and return (to the engine each
  is a call), YAML decoding and the JSON schema, durations and the order by
  duration, the cache of the step metrics, telemetry, the wiring of `fx`, the web frontend, the fakes.

## Plan

In order of importance.

| Module | Models | Question |
|---|---|---|
| `LoopTracker` | `processEvent`, `loopTracker` and the enriched events | what log and viewers are told of the rounds of a loop, one loop at a time |
| `StoreRows` | more than one row of MariaDB, its claimer and its event log | what another agent on the same database sees |

Bounds of the planned runs: two to three actors, one or two of each limit, so
that every limit is reached.
