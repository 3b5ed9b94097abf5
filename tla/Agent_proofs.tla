----------------------------- MODULE Agent_proofs -----------------------------
(***************************************************************************)
(* Proofs about Agent: idempotency keys, acknowledgements, deliveries to   *)
(* waiters, the store of the newest executions and what is listed of it,   *)
(* for every set of scenarios that ScenariosAssumption and                 *)
(* StepIdsAssumption allow and every capacity.                             *)
(***************************************************************************)
EXTENDS Agent, Channel_proofs, ExecutionStore_proofs, FiniteSetTheorems, TLAPS

-----------------------------------------------------------------------------
(* What the actions of each part of the agent leave alone *)

Requesting(r) == Request(r) \/ Claim(r) \/ StartRequest(r) \/ AnswerSync(r)

LEMMA RequestingFrame ==
    ASSUME NEW r, Requesting(r)
    PROVE  /\ UNCHANGED <<scn, stage, step, watch, got, published, captured, ticks,
                          trigger, timers, hook, copies, waitVars, brokerVars>>
           /\ Request(r) \/ UNCHANGED nextId
           /\ StartRequest(r) \/ UNCHANGED <<exec, added, storeVars>>
  BY DEF Requesting, Request, Claim, StartRequest, AnswerSync, Launch, Fresh,
         Outside, runVars

LEMMA SteppingFrame ==
    ASSUME NEW e, NEW s, Stepping(e, s) \/ StepTimeout(e, s)
    PROVE  /\ UNCHANGED <<scn, stage, exec, req, claims, ticks, trigger, hook, captured>>
           /\ Schedule(e, s) \/ UNCHANGED <<nextId, added, timers, storeVars>>
<1>1. CASE StartStep(e, s) \/ RetryCancelled(e, s) \/ RegisterStep(e, s)
           \/ EmitWaiting(e, s) \/ Taken(e, s)
  BY <1>1 DEF StartStep, RetryCancelled, RegisterStep, EmitWaiting, Taken, StepOnly
<1>2. CASE GivesUp(e, s) \/ Leave(e, s) \/ StepTimeout(e, s) \/ Schedule(e, s)
  BY <1>2 DEF GivesUp, Leave, StepTimeout, Schedule, StepOnly
<1>3. CASE ShovelOpen(e, s) \/ ShovelGet(e, s) \/ ShovelEnds(e, s)
           \/ ShovelPublish(e, s) \/ ShovelSettles(e, s)
  BY <1>3 DEF ShovelOpen, ShovelGet, ShovelEnds, ShovelPublish, ShovelSettles,
              ShovelOnly, StepOnly
<1>4. ASSUME NEW ok, Act(e, s, ok)
      PROVE  UNCHANGED <<scn, stage, exec, req, claims, ticks, trigger, hook,
                         captured, nextId, added, timers, storeVars>>
  BY <1>4 DEF Act, StepOnly
<1> QED
  BY <1>1, <1>2, <1>3, <1>4 DEF Stepping

LEMMA EndingFrame ==
    ASSUME NEW e, Ending(e) \/ Cancel(e)
    PROVE  UNCHANGED <<scn, nextId, added, stage, step, watch, got, req, claims,
                       ticks, trigger, timers, hook, copies, waitVars>>
  BY DEF Ending, Return, Capture, Finalize, EnsureCompleted, OnComplete, Cancel,
         EndOnly, entry

Routing == ConsumerLoop \/ \E h \in DOMAIN hook : HookSends(h) \/ HookLooksUp(h)

LEMMA RoutingFrame ==
    ASSUME Routing
    PROVE  UNCHANGED <<scn, nextId, added, stage, exec, step, watch, got, published,
                       captured, req, claims, ticks, trigger, timers, copies,
                       storeVars>>
  BY DEF Routing, HookSends, HookLooksUp, ConsumerLoop, OthersOfDeliver, runVars

LEMMA ConsumingFrame ==
    ASSUME Consuming
    PROVE  /\ UNCHANGED <<scn, stage, step, watch, got, published, captured, req,
                          claims, ticks, timers, hook, copies, waitVars>>
           /\ OnMessage \/ UNCHANGED <<nextId, added, exec, storeVars>>
  BY DEF Consuming, Consume, ConsumeEnds, Acknowledge, OnMessage, Launch,
         TriggerOnly, runVars

Ticking == Tick \/ TimerFires

LEMMA TickingFrame ==
    ASSUME Ticking
    PROVE  UNCHANGED <<scn, stage, step, watch, got, published, captured, req,
                       claims, trigger, hook, copies, waitVars, brokerVars>>
  BY DEF Ticking, Tick, TimerFires, Launch, Outside

Other ==
    \/ Shutdown
    \/ \E m \in Messages : Published(m)
    \/ \E ch \in chanUp : ConnectionLost(ch)
    \/ \E w \in watch : LateCleanup(w)

LEMMA OtherFrame ==
    ASSUME Other
    PROVE  UNCHANGED <<scn, nextId, added, exec, step, got, published, captured,
                       req, claims, ticks, trigger, timers, hook, copies, storeVars>>
  BY DEF Other, Shutdown, Published, ConnectionLost, LateCleanup, runVars, entry

LEMMA NextCases ==
    ASSUME [Next]_vars
    PROVE  \/ \E r \in Requests : Requesting(r)
           \/ \E e \in Ids, s \in Steps : Stepping(e, s) \/ StepTimeout(e, s)
           \/ \E e \in Ids : Ending(e) \/ Cancel(e)
           \/ Routing
           \/ Consuming
           \/ Ticking
           \/ Other
           \/ UNCHANGED vars
  BY DEF Next, System, Environment, Answering, Delivering, Requesting, Routing,
         Ticking, Other

LEMMA ScnSame == [Next]_vars => UNCHANGED scn
  BY NextCases, RequestingFrame, SteppingFrame, EndingFrame, RoutingFrame,
     ConsumingFrame, TickingFrame, OtherFrame DEF vars


-----------------------------------------------------------------------------
(* Idempotency keys *)

ReqPhases == {"none", "claim", "start", "sync", "answered"}

Reqs == [phase : ReqPhases, id : Nat, told : Nat, unclaimed : BOOLEAN]

\* Each request has an id of its own.
Numbered ==
    /\ nextId \in Nat \ {0}
    /\ req \in [Requests -> Reqs]
    /\ \A r \in Requests : req[r].phase # "none" => req[r].id \in 1..(nextId - 1)
    /\ \A q, r \in Requests :
          q # r /\ req[q].phase # "none" /\ req[r].phase # "none" =>
              req[q].id # req[r].id

\* The claim of a key and the request that goes ahead with it.
ClaimedBy(k, q) ==
    /\ scn.keys[q] = k /\ req[q].id = claims[k]
    /\ Proceeds(q) /\ ~req[q].unclaimed /\ req[q].phase # "none"

Keyed ==
    /\ \A r \in Requests : req[r].phase \in {"none", "claim"} => ~req[r].unclaimed
    /\ \A r \in Requests : req[r].phase = "claim" => scn.keys[r] # NoKey
    /\ \A r \in Requests : req[r].phase = "sync" => req[r].told = req[r].id
    /\ \A k \in DOMAIN claims : \E q \in Requests : ClaimedBy(k, q)
    /\ \A r \in Requests :
          Proceeds(r) /\ ~req[r].unclaimed /\ scn.keys[r] # NoKey =>
              scn.keys[r] \in DOMAIN claims /\ ClaimedBy(scn.keys[r], r)
    /\ \A r \in Requests : req[r].phase = "answered" =>
          \E q \in Requests : /\ scn.keys[q] = scn.keys[r]
                              /\ req[q].id = req[r].told /\ Proceeds(q)

LEMMA NextIdGrows ==
    ASSUME [Next]_vars
    PROVE  nextId' = nextId \/ (nextId <= scn.ids /\ nextId' = nextId + 1)
<1>1. ASSUME NEW r, Requesting(r)
      PROVE  nextId' = nextId \/ (nextId <= scn.ids /\ nextId' = nextId + 1)
  BY <1>1, RequestingFrame DEF Request, Fresh
<1>2. ASSUME NEW e, NEW s, Stepping(e, s) \/ StepTimeout(e, s)
      PROVE  nextId' = nextId \/ (nextId <= scn.ids /\ nextId' = nextId + 1)
  BY <1>2, SteppingFrame DEF Schedule, Fresh
<1>3. CASE Consuming
  BY <1>3, ConsumingFrame DEF OnMessage, Fresh
<1>4. CASE Ticking
  BY <1>4 DEF Ticking, Tick, TimerFires, Fresh
<1> QED
  BY <1>1, <1>2, <1>3, <1>4, NextCases, EndingFrame, RoutingFrame, OtherFrame
     DEF vars

\* Requests and claims change by the handler of a request only.
LEMMA ReqSame ==
    ASSUME [Next]_vars
    PROVE  (\E r \in Requests : Requesting(r)) \/ UNCHANGED <<req, claims>>
  BY NextCases, SteppingFrame, EndingFrame, RoutingFrame, ConsumingFrame,
     TickingFrame, OtherFrame
     DEF vars, entry, Ticking, Tick, TimerFires

LEMMA NextNumbered == Numbered /\ Keyed /\ [Next]_vars => Numbered'
<1> SUFFICES ASSUME Numbered, Keyed, [Next]_vars PROVE Numbered'
  OBVIOUS
<1>1. Requests' = Requests /\ nextId \in Nat \ {0}
      /\ (nextId' = nextId \/ nextId' = nextId + 1)
  BY ScnSame, NextIdGrows DEF Requests, Numbered
<1>2. nextId' \in Nat \ {0} /\ nextId <= nextId'
  BY <1>1
<1>3. CASE UNCHANGED <<req, claims>>
  BY <1>1, <1>2, <1>3 DEF Numbered
<1>4. ASSUME NEW r \in Requests, Request(r)
      PROVE  Numbered'
  <2>1. nextId' = nextId + 1 /\ req[r].phase = "none"
    BY <1>4 DEF Request, Fresh
  <2>2. PICK phase \in {"claim", "start"} :
            req' = [req EXCEPT ![r].id = nextId, ![r].phase = phase]
    BY <1>4 DEF Request
  <2>3. req' \in [Requests -> Reqs]
    BY <1>1, <2>2 DEF Numbered, Reqs, ReqPhases
  <2>4. req'[r].id = nextId /\ \A q \in Requests \ {r} : req'[q] = req[q]
    BY <2>2 DEF Numbered, Reqs
  <2>5. \A q \in Requests \ {r} : req[q].phase # "none" => req[q].id \in 1..(nextId - 1)
    BY DEF Numbered
  <2>6. \A q \in Requests : req'[q].phase # "none" => req'[q].id \in 1..(nextId' - 1)
    BY <1>1, <2>1, <2>4, <2>5
  <2>7. \A p, q \in Requests :
           p # q /\ req'[p].phase # "none" /\ req'[q].phase # "none" =>
               req'[p].id # req'[q].id
    BY <1>1, <2>4, <2>5 DEF Numbered
  <2> QED
    BY <1>1, <1>2, <2>3, <2>6, <2>7 DEF Numbered
<1>5. ASSUME NEW r \in Requests, Claim(r) \/ StartRequest(r) \/ AnswerSync(r)
      PROVE  Numbered'
  <2>3. \A k \in DOMAIN claims : claims[k] \in Nat
    BY DEF Keyed, ClaimedBy, Numbered, Reqs
  <2>1. req' \in [Requests -> Reqs]
    BY <1>5, <2>3
       DEF Claim, Claimed, StartRequest, AnswerSync, Numbered, Reqs, ReqPhases
  <2>2. /\ \A q \in Requests : req'[q].id = req[q].id
        /\ \A q \in Requests : req'[q].phase # "none" => req[q].phase # "none"
    BY <1>5 DEF Claim, StartRequest, AnswerSync, Numbered, Reqs
  <2> QED
    BY <1>1, <1>2, <2>1, <2>2 DEF Numbered
<1> QED
  BY <1>3, <1>4, <1>5, ReqSame DEF Requesting


LEMMA NextKeyed == Numbered /\ Keyed /\ [Next]_vars => Keyed'
<1> SUFFICES ASSUME Numbered, Keyed, [Next]_vars PROVE Keyed'
  OBVIOUS
<1>1. Requests' = Requests /\ scn' = scn
  BY ScnSame DEF Requests
<1>2. CASE UNCHANGED <<req, claims>>
  BY <1>1, <1>2 DEF Keyed, ClaimedBy, Proceeds
\* Whoever goes ahead goes on to do so.
<1>3. ASSUME NEW r \in Requests, req' \in [Requests -> Reqs],
             UNCHANGED claims,
             \A q \in Requests \ {r} : req'[q] = req[q],
             req'[r].phase \in {"none", "claim"} => ~req'[r].unclaimed,
             req'[r].phase = "claim" => scn.keys[r] # NoKey,
             req'[r].phase = "sync" => req'[r].told = req'[r].id,
             Proceeds(r) => Proceeds(r)' /\ req'[r].id = req[r].id
                            /\ req'[r].unclaimed = req[r].unclaimed,
             req[r].phase # "none" => req'[r].phase # "none",
             Proceeds(r)' =>
                 \/ Proceeds(r)
                 \/ req'[r].unclaimed \/ scn.keys[r] = NoKey,
             req'[r].phase = "answered" =>
                 \/ Proceeds(r)'
                 \/ \E q \in Requests \ {r} : /\ scn.keys[q] = scn.keys[r]
                                              /\ req[q].id = req'[r].told
                                              /\ Proceeds(q)
      PROVE  Keyed'
  <2>1. \A q \in Requests \ {r} : Proceeds(q)' <=> Proceeds(q)
    BY <1>3 DEF Proceeds
  <2>2. \A k, q : q \in Requests /\ ClaimedBy(k, q) => ClaimedBy(k, q)'
    BY <1>1, <1>3, <2>1 DEF ClaimedBy
  <2>3. \A k \in DOMAIN claims : \E q \in Requests : ClaimedBy(k, q)'
    BY <2>2 DEF Keyed
  <2>4. \A q \in Requests :
           Proceeds(q)' /\ ~req'[q].unclaimed /\ scn.keys[q] # NoKey =>
               scn.keys[q] \in DOMAIN claims /\ ClaimedBy(scn.keys[q], q)'
    <3> SUFFICES ASSUME NEW q \in Requests, Proceeds(q)', ~req'[q].unclaimed,
                        scn.keys[q] # NoKey
                 PROVE  scn.keys[q] \in DOMAIN claims /\ ClaimedBy(scn.keys[q], q)'
      OBVIOUS
    <3>1. Proceeds(q) /\ ~req[q].unclaimed
      <4>1. CASE q # r
        BY <1>3, <2>1, <4>1
      <4>2. CASE q = r
        BY <1>3, <4>2
      <4> QED
        BY <4>1, <4>2
    <3>2. PICK k : k = scn.keys[q]
      OBVIOUS
    <3>3. k \in DOMAIN claims /\ ClaimedBy(k, q)
      BY <3>1, <3>2 DEF Keyed
    <3>4. ClaimedBy(k, q)'
      BY <2>2, <3>3
    <3> QED
      BY <1>1, <3>2, <3>3, <3>4 DEF ClaimedBy
  <2>5. ASSUME NEW p \in Requests, req'[p].phase = "answered"
        PROVE  \E q \in Requests : /\ scn.keys[q] = scn.keys[p]
                                   /\ req'[q].id = req'[p].told /\ Proceeds(q)'
    <3>1. ASSUME NEW q \in Requests, scn.keys[q] = scn.keys[p],
                 req[q].id = req'[p].told, Proceeds(q)
          PROVE  req'[q].id = req'[p].told /\ Proceeds(q)'
      BY <1>3, <2>1, <3>1
    <3>2. CASE p # r
      BY <1>3, <2>5, <3>1, <3>2 DEF Keyed
    <3>3. CASE p = r
      BY <1>3, <2>5, <3>1, <3>3 DEF Proceeds
    <3> QED
      BY <3>2, <3>3
  <2> QED
    BY <1>1, <1>3, <2>3, <2>4, <2>5 DEF Keyed
<1>4. ASSUME NEW r \in Requests, Request(r)
      PROVE  Keyed'
  <2>1. PICK phase \in {"claim", "start"} :
           /\ req' = [req EXCEPT ![r].id = nextId, ![r].phase = phase]
           /\ phase = IF scn.keys[r] = NoKey THEN "start" ELSE "claim"
           /\ req[r].phase = "none" /\ UNCHANGED claims
    BY <1>4 DEF Request
  <2>2. req' \in [Requests -> Reqs]
    BY <1>1, <1>4, NextNumbered DEF Numbered
  <2> QED
    BY <1>3, <2>1, <2>2 DEF Numbered, Reqs, Proceeds
<1>5. ASSUME NEW r \in Requests, StartRequest(r) \/ AnswerSync(r)
      PROVE  Keyed'
  <2>1. req' \in [Requests -> Reqs] /\ UNCHANGED claims
    BY <1>1, <1>5, NextNumbered DEF Numbered, StartRequest, AnswerSync
  <2> QED
    BY <1>3, <1>5, <2>1 DEF Numbered, Reqs, Proceeds, StartRequest, AnswerSync, Keyed
<1>6. ASSUME NEW r \in Requests, Claim(r)
      PROVE  Keyed'
  <2>0. PICK k : k = scn.keys[r]
    OBVIOUS
  <2>1. req' \in [Requests -> Reqs] /\ req[r].phase = "claim" /\ k # NoKey
    BY <1>1, <1>6, <2>0, NextNumbered DEF Numbered, Claim, Keyed
  <2>2. CASE /\ Claimed(k)
             /\ req' = [req EXCEPT ![r].phase = "answered", ![r].told = claims[k]]
             /\ UNCHANGED claims
    <3>1. PICK q \in Requests : ClaimedBy(k, q)
      BY <2>2 DEF Claimed, Keyed
    <3>2. q # r
      BY <2>1, <3>1 DEF ClaimedBy, Proceeds
    <3> QED
      BY <1>3, <2>0, <2>1, <2>2, <3>1, <3>2 DEF Numbered, Reqs, Proceeds, ClaimedBy
  <2>3. CASE /\ req' = [req EXCEPT ![r].phase = "start", ![r].unclaimed = TRUE]
             /\ UNCHANGED claims
    BY <1>3, <2>1, <2>3 DEF Numbered, Reqs, Proceeds
  <2>4. CASE /\ ~Claimed(k)
             /\ claims' = Put(claims, k, req[r].id)
             /\ req' = [req EXCEPT ![r].phase = "start"]
    <3>1. /\ k \notin DOMAIN claims
          /\ DOMAIN claims' = DOMAIN claims \cup {k} /\ claims'[k] = req[r].id
          /\ \A j \in DOMAIN claims : claims'[j] = claims[j]
      BY <2>4 DEF Claimed, Put
    <3>2. /\ req'[r].phase = "start" /\ req'[r].id = req[r].id
          /\ req'[r].unclaimed = req[r].unclaimed
          /\ \A q \in Requests \ {r} : req'[q] = req[q]
      BY <2>1, <2>4 DEF Numbered, Reqs
    <3>3. Proceeds(r)' /\ ~Proceeds(r)
          /\ \A q \in Requests \ {r} : Proceeds(q)' <=> Proceeds(q)
      BY <2>1, <3>2 DEF Proceeds
    <3>4. \A j, q : j \in DOMAIN claims /\ q \in Requests /\ ClaimedBy(j, q)
                       => ClaimedBy(j, q)'
      BY <1>1, <3>1, <3>2, <3>3 DEF ClaimedBy
    <3>5. ~req[r].unclaimed => ClaimedBy(k, r)'
      BY <1>1, <2>0, <3>1, <3>2, <3>3 DEF ClaimedBy
    <3>6. ~req[r].unclaimed
      BY <2>1 DEF Keyed
    <3> QED
      <4>6. \A q \in Requests : req'[q].phase \in {"none", "claim"} => ~req'[q].unclaimed
        BY <3>2 DEF Keyed
      <4>1. \A q \in Requests : req'[q].phase = "claim" => scn.keys[q] # NoKey
        BY <3>2 DEF Keyed
      <4>2. \A q \in Requests : req'[q].phase = "sync" => req'[q].told = req'[q].id
        BY <3>2 DEF Keyed
      <4>3. \A j \in DOMAIN claims' : \E q \in Requests : ClaimedBy(j, q)'
        BY <3>1, <3>4, <3>5, <3>6 DEF Keyed
      <4>4. \A q \in Requests :
               Proceeds(q)' /\ ~req'[q].unclaimed /\ scn.keys[q] # NoKey =>
                   scn.keys[q] \in DOMAIN claims' /\ ClaimedBy(scn.keys[q], q)'
        <5> SUFFICES ASSUME NEW q \in Requests, Proceeds(q)', ~req'[q].unclaimed,
                            scn.keys[q] # NoKey
                     PROVE  /\ scn.keys[q] \in DOMAIN claims'
                            /\ ClaimedBy(scn.keys[q], q)'
          OBVIOUS
        <5>1. PICK j : j = scn.keys[q]
          OBVIOUS
        <5>2. j \in DOMAIN claims' /\ ClaimedBy(j, q)'
          <6>1. CASE q = r
            BY <2>0, <3>1, <3>5, <3>6, <5>1, <6>1
          <6>2. CASE q # r
            BY <3>1, <3>2, <3>3, <3>4, <5>1, <6>2 DEF Keyed
          <6> QED
            BY <6>1, <6>2
        <5> QED
          BY <1>1, <5>1, <5>2 DEF ClaimedBy
      <4>5. \A p \in Requests : req'[p].phase = "answered" =>
               \E q \in Requests : /\ scn.keys[q] = scn.keys[p]
                                   /\ req'[q].id = req'[p].told /\ Proceeds(q)'
        BY <3>2, <3>3 DEF Keyed
      <4> QED
        BY <1>1, <4>1, <4>2, <4>3, <4>4, <4>5, <4>6 DEF Keyed
  <2> QED
    BY <1>6, <2>0, <2>2, <2>3, <2>4 DEF Claim
<1> QED
  BY <1>2, <1>4, <1>5, <1>6, ReqSame DEF Requesting

LEMMA NumberedHolds == Spec => [](Numbered /\ Keyed)
<1>1. Init => Numbered /\ Keyed
  BY DEF Init, Numbered, Keyed, Reqs, ReqPhases, Proceeds
<1> QED
  BY <1>1, NextNumbered, NextKeyed, PTL DEF Spec

\* Of the requests with one key, one is executed, however many come at the
\* same time, unless its claim failed, and the answer to each of the others
\* names the one that is (handleIdempotencyCheck, ClaimExecution).
THEOREM OnePerKeyHolds == Spec => []OnePerKey
<1>1. Numbered /\ Keyed => OnePerKey
  <2> SUFFICES ASSUME Numbered, Keyed, NEW k \in Range(scn.keys) \ {NoKey}
               PROVE  LET same == {r \in Requests : scn.keys[r] = k}
                      IN  /\ Cardinality({r \in same : Proceeds(r) /\ ~req[r].unclaimed}) <= 1
                          /\ \A r \in same : req[r].phase = "answered" =>
                                \E q \in same : req[q].id = req[r].told /\ Proceeds(q)
    BY DEF OnePerKey
  <2> DEFINE same == {r \in Requests : scn.keys[r] = k}
             ahead == {r \in same : Proceeds(r) /\ ~req[r].unclaimed}
  <2>1. \A r \in ahead : ClaimedBy(k, r)
    BY DEF Keyed
  <2>2. \A q, r \in ahead : q = r
    BY <2>1 DEF ClaimedBy, Numbered
  <2>3. Cardinality(ahead) <= 1
    <3>1. CASE ahead = {}
      BY <3>1, FS_EmptySet
    <3>2. CASE ahead # {}
      <4>1. PICK r : ahead = {r}
        BY <2>2, <3>2
      <4>2. Cardinality({r}) = 1
        BY FS_Singleton
      <4> HIDE DEF ahead
      <4> QED
        BY <4>1, <4>2
    <3> QED
      BY <3>1, <3>2
  <2>4. \A r \in same : req[r].phase = "answered" =>
            \E q \in same : req[q].id = req[r].told /\ Proceeds(q)
    BY DEF Keyed
  <2> QED
    BY <2>3, <2>4
<1> QED
  BY <1>1, NumberedHolds, PTL

-----------------------------------------------------------------------------
(* Executions are launched once, under an id that nobody else has *)

ExecPhases == {"none", "running", "returned", "finalized", "completed", "over"}

Outcomes == {"none", "success", "failed", "cancelled"}

Sources == Requests \cup DOMAIN scn.messages \cup {Nothing, Timer}

Execs == [phase : ExecPhases, src : Sources, cancelled : BOOLEAN, outcome : Outcomes]

Launched ==
    /\ scn \in Scenarios
    /\ nextId \in 1..(MaxIds + 1)
    /\ exec \in [Ids -> Execs]
    /\ \A e \in Ids : exec[e].phase = "none" => exec[e].src = Nothing
    /\ \A e \in Ids : exec[e].phase \in {"none", "running"} => exec[e].outcome = "none"
    /\ \A e \in Ids : e >= nextId => exec[e].phase = "none"
    /\ \A r \in Requests :
          req[r].phase \in {"claim", "start"} => exec[req[r].id].phase = "none"

\* What an execution was started for stays, and how it ended.
ExecKept ==
    \A e \in Ids : exec[e].phase # "none" =>
        /\ exec'[e].phase # "none" /\ exec'[e].src = exec[e].src
        /\ exec[e].outcome # "none" => exec'[e].outcome = exec[e].outcome

\* An id, and what it is used for.
LEMMA LaunchKeeps ==
    ASSUME Numbered, Launched, NEW e \in Ids, NEW src \in Sources, Launch(e, src),
           exec[e].phase = "none", nextId' \in 1..(MaxIds + 1),
           nextId <= nextId', e < nextId', scn' = scn,
           \A r \in Requests : req'[r].phase \in {"claim", "start"} =>
               /\ req[r].phase \in {"claim", "start"} /\ req'[r].id = req[r].id
               /\ req[r].id # e
    PROVE  Launched' /\ ExecKept
<1> USE DEF Ids
<1>1. exec' = [exec EXCEPT ![e].phase = "running", ![e].src = src]
  BY DEF Launch
<1>2. exec \in [Ids -> Execs]
  BY DEF Launched
<1>3. exec' \in [Ids -> Execs]
  BY <1>1, <1>2 DEF Execs, ExecPhases
<1>4. /\ exec'[e].phase = "running" /\ exec'[e].outcome = exec[e].outcome
      /\ \A f \in Ids \ {e} : exec'[f] = exec[f]
  BY <1>1, <1>2 DEF Execs
<1>5. exec[e].outcome = "none"
  BY DEF Launched
<1>6. ExecKept
  BY <1>4 DEF ExecKept
<1>7. Sources' = Sources /\ Requests' = Requests
  BY DEF Sources, Requests
<1>8. Execs' = Execs
  BY <1>7 DEF Execs
<1>9. \A f \in Ids : f >= nextId' => f # e /\ f >= nextId
  BY DEF Launched
<1>10. \A r \in Requests : req'[r].phase \in {"claim", "start"} =>
           exec'[req'[r].id].phase = "none"
  <2> SUFFICES ASSUME NEW r \in Requests, req'[r].phase \in {"claim", "start"}
               PROVE  exec'[req'[r].id].phase = "none"
    OBVIOUS
  <2>1. req[r].id \in Ids
    <3>1. req[r].id \in 1..(nextId - 1)
      BY DEF Numbered
    <3> QED
      BY <3>1, IdsAssumption DEF Launched
  <2> QED
    BY <1>4, <2>1 DEF Launched
<1> QED
  BY <1>3, <1>4, <1>5, <1>6, <1>7, <1>8, <1>9, <1>10 DEF Launched

LEMMA NextLaunched ==
    Numbered /\ Keyed /\ Launched /\ DOMAIN at = DOMAIN scn.messages /\ [Next]_vars
        => Launched' /\ ExecKept
<1> SUFFICES ASSUME Numbered, Keyed, Launched, DOMAIN at = DOMAIN scn.messages,
                    [Next]_vars
             PROVE  Launched' /\ ExecKept
  OBVIOUS
<1> USE DEF Ids
<1>1. scn' = scn /\ Requests' = Requests /\ Sources' = Sources /\ Execs' = Execs
  BY ScnSame DEF Requests, Sources, Execs
<1>2. /\ scn.ids \in 0..MaxIds /\ MaxIds \in Nat /\ nextId \in 1..(MaxIds + 1)
      /\ exec \in [Ids -> Execs]
  BY ScenariosAssumption, IdsAssumption DEF Launched
<1>3. nextId' \in 1..(MaxIds + 1) /\ nextId <= nextId'
  BY <1>2, NextIdGrows
<1>4. \A r \in Requests : req[r].phase # "none" =>
          req[r].id \in Ids /\ req[r].id < nextId
  <2> SUFFICES ASSUME NEW r \in Requests, req[r].phase # "none"
               PROVE  req[r].id \in Ids /\ req[r].id < nextId
    OBVIOUS
  <2>1. req[r].id \in 1..(nextId - 1)
    BY DEF Numbered
  <2> QED
    BY <1>2, <2>1
<1>5. CASE UNCHANGED <<exec, req>>
  BY <1>1, <1>2, <1>3, <1>5 DEF Launched, ExecKept
<1>6. ASSUME NEW r \in Requests, Request(r)
      PROVE  Launched' /\ ExecKept
  <2>1. /\ nextId' = nextId + 1 /\ nextId <= scn.ids /\ UNCHANGED exec
        /\ req'[r].id = nextId /\ \A q \in Requests \ {r} : req'[q] = req[q]
    BY <1>6 DEF Request, Fresh, runVars, Numbered, Reqs
  <2>2. exec[nextId].phase = "none"
    BY <1>2, <2>1 DEF Launched
  <2> QED
    BY <1>1, <1>2, <1>3, <2>1, <2>2 DEF Launched, ExecKept
<1>7. ASSUME NEW r \in Requests, Claim(r) \/ AnswerSync(r)
      PROVE  Launched' /\ ExecKept
  <2>1. UNCHANGED <<exec, nextId>>
    BY <1>7 DEF Claim, AnswerSync, runVars
  <2>2. \A q \in Requests : req'[q].phase \in {"claim", "start"} =>
            req[q].phase \in {"claim", "start"} /\ req'[q].id = req[q].id
    BY <1>7 DEF Claim, AnswerSync, Numbered, Reqs
  <2> QED
    BY <1>1, <1>2, <2>1, <2>2 DEF Launched, ExecKept
<1>8. ASSUME NEW r \in Requests, StartRequest(r)
      PROVE  Launched' /\ ExecKept
  <2>1. /\ req[r].phase = "start" /\ Launch(req[r].id, r) /\ nextId' = nextId
        /\ req' = [req EXCEPT ![r].told = req[r].id,
                              ![r].phase = IF scn.async THEN "answered" ELSE "sync"]
    BY <1>8 DEF StartRequest
  <2>2. \A q \in Requests : req'[q].phase \in {"claim", "start"} =>
            /\ req[q].phase \in {"claim", "start"} /\ req'[q].id = req[q].id
            /\ req[q].id # req[r].id
    <3> SUFFICES ASSUME NEW q \in Requests, req'[q].phase \in {"claim", "start"}
                 PROVE  /\ req[q].phase \in {"claim", "start"}
                        /\ req'[q].id = req[q].id /\ req[q].id # req[r].id
      OBVIOUS
    <3>1. q # r
      BY <2>1 DEF Numbered, Reqs
    <3>2. req'[q] = req[q]
      BY <2>1, <3>1 DEF Numbered
    <3> QED
      BY <2>1, <3>1, <3>2 DEF Numbered
  <2>3. exec[req[r].id].phase = "none" /\ r \in Sources
    BY <2>1 DEF Launched, Sources
  <2>4. req[r].id \in Ids /\ req[r].id < nextId'
    BY <1>4, <2>1
  <2> QED
    BY <1>1, <1>3, <2>1, <2>2, <2>3, <2>4, LaunchKeeps
<1>9. ASSUME NEW src \in Sources, Fresh(nextId), Launch(nextId, src), UNCHANGED req
      PROVE  Launched' /\ ExecKept
  <2>1. nextId' = nextId + 1 /\ nextId <= scn.ids
    BY <1>9 DEF Fresh
  <2>2. nextId \in Ids /\ nextId < nextId'
    BY <1>2, <2>1
  <2>3. exec[nextId].phase = "none"
    BY <1>2, <2>2 DEF Launched
  <2>4. \A q \in Requests : req[q].phase \in {"claim", "start"} => req[q].id # nextId
    BY <1>2, <1>4
  <2> QED
    BY <1>1, <1>3, <1>9, <2>2, <2>3, <2>4, LaunchKeeps
<1>10. ASSUME NEW e \in Ids, Ending(e) \/ Cancel(e)
       PROVE  Launched' /\ ExecKept
  <2>1. UNCHANGED <<nextId, req>>
    BY <1>10, EndingFrame
  <2>2. ASSUME exec' \in [Ids -> Execs], \A f \in Ids \ {e} : exec'[f] = exec[f],
               exec[e].phase # "none", exec'[e].phase # "none",
               exec'[e].src = exec[e].src,
               exec'[e].phase = "running" => exec'[e].outcome = "none",
               exec[e].outcome # "none" => exec'[e].outcome = exec[e].outcome
        PROVE  Launched' /\ ExecKept
    <3>1. ExecKept
      BY <2>2 DEF ExecKept
    <3>2. \A r \in Requests : req[r].phase \in {"claim", "start"} =>
              exec'[req[r].id].phase = "none"
      BY <1>4, <2>2 DEF Launched
    <3> QED
      BY <1>1, <1>2, <2>1, <2>2, <3>1, <3>2 DEF Launched
  <2>3. CASE Return(e)
    <3>1. PICK outcome \in Outcomes :
              exec' = [exec EXCEPT ![e].phase = "returned", ![e].outcome = outcome]
      BY <2>3 DEF Return, Outcome, Outcomes
    <3>2. exec[e].phase = "running" /\ exec[e].outcome = "none"
      BY <2>3 DEF Return, Launched
    <3> QED
      BY <1>2, <2>2, <3>1, <3>2 DEF Execs, ExecPhases
  <2>4. CASE Capture(e)
    BY <1>5, <2>1, <2>4 DEF Capture
  <2>5. CASE Finalize(e) \/ EnsureCompleted(e) \/ OnComplete(e)
    <3>1. PICK phase \in ExecPhases \ {"none", "running"} :
              exec' = [exec EXCEPT ![e].phase = phase]
      BY <2>5 DEF Finalize, EnsureCompleted, OnComplete, ExecPhases
    <3>2. exec[e].phase # "none"
      BY <2>5 DEF Finalize, EnsureCompleted, OnComplete
    <3> QED
      BY <1>2, <2>2, <3>1, <3>2 DEF Execs
  <2>6. CASE Cancel(e)
    <3>1. /\ exec' = [exec EXCEPT ![e].cancelled = TRUE]
          /\ exec[e].phase # "none"
      BY <2>6 DEF Cancel
    <3> QED
      BY <1>2, <2>2, <3>1 DEF Execs, Launched
  <2> QED
    BY <1>10, <2>3, <2>4, <2>5, <2>6 DEF Ending
<1>11. ASSUME NEW r \in Requests, Requesting(r)
       PROVE  Launched' /\ ExecKept
  BY <1>6, <1>7, <1>8, <1>11 DEF Requesting
<1>12. ASSUME NEW e \in Ids, NEW s \in Steps, Stepping(e, s) \/ StepTimeout(e, s)
       PROVE  Launched' /\ ExecKept
  BY <1>5, <1>12, SteppingFrame
<1>13. CASE Consuming
  <2>1. CASE OnMessage
    <3>1. /\ trigger \in Sources /\ Fresh(nextId) /\ Launch(nextId, trigger)
          /\ UNCHANGED req
      BY <2>1 DEF OnMessage, Messages, Sources, TriggerOnly
    <3> QED
      BY <1>9, <3>1
  <2>2. CASE ~OnMessage
    BY <1>5, <1>13, <2>2, ConsumingFrame
  <2> QED
    BY <2>1, <2>2
<1>14. CASE Ticking
  <2>1. PICK src \in {Nothing, Timer} :
            Fresh(nextId) /\ Launch(nextId, src) /\ UNCHANGED req
    BY <1>14 DEF Ticking, Tick, TimerFires
  <2> QED
    BY <1>9, <2>1 DEF Sources
<1>15. CASE Routing \/ Other
  BY <1>5, <1>15, RoutingFrame, OtherFrame
<1>16. CASE UNCHANGED vars
  BY <1>5, <1>16 DEF vars, runVars, entry
<1> QED
  BY <1>10, <1>11, <1>12, <1>13, <1>14, <1>15, <1>16, NextCases

-----------------------------------------------------------------------------
(* Steps and their attempts *)

StepRecs == [phase : Phases, attempt : Nat, ok : BOOLEAN, expired : BOOLEAN,
             n : 0..ShovelCount, msg : DOMAIN scn.messages \cup {Nothing}]

\* Where the waiter of the attempt has been registered, and where its step has
\* left the select.
Registered == {"emit", "select", "leaving", "backoff", "done"}

Left == {"leaving", "backoff", "done"}

StepOk(s, st) ==
    /\ st \in StepRecs
    /\ st.attempt <= scn.steps[s].attempts
    /\ st.phase \in {"register", "emit", "select", "leaving"} => st.attempt >= 1
    /\ st.phase = "backoff" => st.attempt < scn.steps[s].attempts
    /\ st.phase = "new" => st.attempt = 0
    /\ st.phase \in {"publish", "ack", "nack"} =>
          st.n < ShovelCount /\ st.msg \in DOMAIN scn.messages

Steady ==
    /\ scn \in Scenarios
    /\ step \in [Ids -> [Steps -> StepRecs]]
    /\ \A e \in Ids, s \in Steps : StepOk(s, step[e][s])

\* A step does not come back to an earlier attempt, nor to an earlier part of
\* one.
Onward(a, b) ==
    /\ a.attempt <= b.attempt
    /\ a.attempt = b.attempt =>
          /\ a.phase \in Registered => b.phase \in Registered
          /\ a.phase \in Left => b.phase \in Left

\* Step s of e goes on to st, and no other step changes.
Becomes(e, s, st) ==
    /\ StepOk(s, st) /\ Onward(step[e][s], st)
    /\ step' = [step EXCEPT ![e][s] = st]

LEMMA AttemptsPositive ==
    ASSUME scn \in Scenarios, NEW s \in Steps
    PROVE  scn.steps[s].attempts \in Nat \ {0}
  BY ScenariosAssumption DEF Steps

LEMMA AttemptedBecomes ==
    ASSUME Steady, NEW e \in Ids, NEW s \in Steps, NEW ok \in BOOLEAN,
           Attempted(e, s, ok), step[e][s].phase # "new"
    PROVE  \E st : Becomes(e, s, st) /\ st.phase \in {"backoff", "done"}
<1> DEFINE old == step[e][s]
           st  == IF ~ok /\ old.attempt < scn.steps[s].attempts
                  THEN [old EXCEPT !.phase = "backoff"]
                  ELSE [old EXCEPT !.phase = "done", !.ok = ok]
<1>1. StepOk(s, old) /\ step \in [Ids -> [Steps -> StepRecs]]
  BY DEF Steady
<1>2. step' = [step EXCEPT ![e][s] = st]
  <2>1. CASE ~ok /\ old.attempt < scn.steps[s].attempts
    BY <1>1, <2>1 DEF Attempted, GoTo, StepRecs
  <2>2. CASE ~(~ok /\ old.attempt < scn.steps[s].attempts)
    BY <1>1, <2>2 DEF Attempted, StepRecs
  <2> QED
    BY <2>1, <2>2
<1>3. StepOk(s, st)
  <2>1. CASE ~ok /\ old.attempt < scn.steps[s].attempts
    BY <1>1, <2>1 DEF StepOk, StepRecs, Phases
  <2>2. CASE ~(~ok /\ old.attempt < scn.steps[s].attempts)
    BY <1>1, <2>2 DEF StepOk, StepRecs, Phases
  <2> QED
    BY <2>1, <2>2
<1>4. st.phase \in {"backoff", "done"} /\ st.attempt = old.attempt
  BY <1>1 DEF StepOk, StepRecs
<1>5. Onward(old, st)
  BY <1>1, <1>4 DEF Onward, StepOk, StepRecs, Registered, Left
<1> QED
  BY <1>2, <1>3, <1>4, <1>5 DEF Becomes

LEMMA SteppingBecomes ==
    ASSUME Steady, DOMAIN at = DOMAIN scn.messages,
           NEW e \in Ids, NEW s \in Steps, Stepping(e, s) \/ StepTimeout(e, s)
    PROVE  \E st : Becomes(e, s, st)
<1> DEFINE old == step[e][s]
<1>1. StepOk(s, old) /\ step \in [Ids -> [Steps -> StepRecs]]
  BY DEF Steady
<1>2. scn.steps[s].attempts \in Nat \ {0}
  BY AttemptsPositive DEF Steady
<1>3. ASSUME NEW st, StepOk(s, st), Onward(old, st), step' = [step EXCEPT ![e][s] = st]
      PROVE  \E b : Becomes(e, s, b)
  BY <1>3 DEF Becomes
<1>4. CASE StartStep(e, s)
  <2> DEFINE st == [NewStep EXCEPT !.phase = First(s), !.attempt = old.attempt + 1]
  <2>1. step' = [step EXCEPT ![e][s] = st]
    BY <1>4 DEF StartStep
  <2>2. First(s) \in {"act", "open", "register"}
    BY DEF First
  <2>3. old.attempt + 1 <= scn.steps[s].attempts /\ old.attempt \in Nat
    <3>1. old.attempt \in Nat
      BY <1>1 DEF StepOk, StepRecs
    <3>2. CASE old.phase = "new"
      BY <1>1, <1>2, <3>2 DEF StepOk
    <3>3. CASE old.phase = "backoff"
      <4>1. old.attempt < scn.steps[s].attempts
        BY <1>1, <3>3 DEF StepOk
      <4> HIDE DEF old
      <4> QED
        BY <1>2, <3>1, <4>1
    <3> QED
      BY <1>4, <3>1, <3>2, <3>3 DEF StartStep, CanStart
  <2>4. StepOk(s, st)
    <3>1. old.attempt + 1 \in Nat /\ old.attempt + 1 >= 1 /\ 0 \in 0..ShovelCount
      BY <2>3 DEF ShovelCount
    <3>2. PICK phase \in {"act", "open", "register"}, n \in Nat :
              phase = First(s) /\ n = old.attempt + 1
      BY <2>2, <3>1
    <3>3. st = [NewStep EXCEPT !.phase = phase, !.attempt = n]
      BY <3>2
    <3> HIDE DEF st
    <3>4. st \in StepRecs /\ st.phase = phase /\ st.attempt = n
      BY <3>1, <3>3 DEF StepRecs, NewStep, Phases
    <3> QED
      BY <2>3, <3>1, <3>2, <3>4 DEF StepOk
  <2>5. Onward(old, st)
    BY <2>3 DEF Onward, NewStep
  <2> QED
    BY <1>3, <2>1, <2>4, <2>5
<1>5. CASE RetryCancelled(e, s)
  <2>1. step' = [step EXCEPT ![e][s] = [old EXCEPT !.phase = "done"]]
    BY <1>1, <1>5 DEF RetryCancelled, GoTo, StepRecs
  <2>2. StepOk(s, [old EXCEPT !.phase = "done"])
    BY <1>1 DEF StepOk, StepRecs, Phases
  <2>3. Onward(old, [old EXCEPT !.phase = "done"])
    BY <1>1 DEF Onward, StepOk, StepRecs, Registered, Left
  <2> QED
    BY <1>3, <2>1, <2>2, <2>3
<1>6. ASSUME NEW ok \in BOOLEAN, Act(e, s, ok)
      PROVE  \E b : Becomes(e, s, b)
  <2> DEFINE st == [old EXCEPT !.phase = "done", !.ok = ok]
  <2>1. step' = [step EXCEPT ![e][s] = st]
    BY <1>1, <1>6 DEF Act, StepRecs
  <2>2. StepOk(s, st)
    BY <1>1 DEF StepOk, StepRecs, Phases
  <2>3. Onward(old, st)
    BY <1>1 DEF Onward, StepOk, StepRecs, Registered, Left
  <2> QED
    BY <1>3, <2>1, <2>2, <2>3
<1>7. CASE Schedule(e, s)
  BY <1>7, AttemptedBecomes DEF Schedule
<1>8. CASE RegisterStep(e, s) \/ EmitWaiting(e, s)
  <2>1. PICK phase \in {"emit", "select"} :
            /\ step' = [step EXCEPT ![e][s].phase = phase]
            /\ old.phase \in {"register", "emit"}
    BY <1>8 DEF RegisterStep, EmitWaiting, GoTo, Waits_
  <2>2. step' = [step EXCEPT ![e][s] = [old EXCEPT !.phase = phase]]
    BY <1>1, <2>1 DEF StepRecs
  <2>3. StepOk(s, [old EXCEPT !.phase = phase])
    BY <1>1, <2>1 DEF StepOk, StepRecs, Phases
  <2>4. Onward(old, [old EXCEPT !.phase = phase])
    BY <1>1, <2>1 DEF Onward, StepOk, StepRecs, Registered, Left
  <2> QED
    BY <1>3, <2>2, <2>3, <2>4
<1>9. CASE Taken(e, s) \/ GivesUp(e, s)
  <2>1. PICK ok \in BOOLEAN :
            /\ step' = [step EXCEPT ![e][s].phase = "leaving", ![e][s].ok = ok]
            /\ old.phase = "select"
    BY <1>9 DEF Taken, GivesUp, Waits_
  <2> DEFINE st == [old EXCEPT !.phase = "leaving", !.ok = ok]
  <2>2. step' = [step EXCEPT ![e][s] = st]
    BY <1>1, <2>1 DEF StepRecs
  <2>3. StepOk(s, st)
    BY <1>1, <2>1 DEF StepOk, StepRecs, Phases
  <2>4. Onward(old, st)
    BY <1>1, <2>1 DEF Onward, StepOk, StepRecs, Registered, Left
  <2> QED
    BY <1>3, <2>2, <2>3, <2>4
<1>10. CASE StepTimeout(e, s)
  <2> DEFINE st == [old EXCEPT !.expired = TRUE]
  <2>1. step' = [step EXCEPT ![e][s] = st]
    BY <1>1, <1>10 DEF StepTimeout, StepRecs
  <2>2. StepOk(s, st)
    BY <1>1 DEF StepOk, StepRecs
  <2>3. Onward(old, st)
    BY <1>1 DEF Onward, StepOk, StepRecs
  <2> QED
    BY <1>3, <2>1, <2>2, <2>3
<1>11. CASE Leave(e, s)
  <2>1. old.ok \in BOOLEAN /\ old.phase # "new"
    BY <1>1, <1>11 DEF StepOk, StepRecs, Leave, Waits_
  <2> QED
    BY <1>11, <2>1, AttemptedBecomes DEF Leave
<1>12. CASE ShovelOpen(e, s) \/ ShovelEnds(e, s)
  <2>1. CASE \E ok \in BOOLEAN : Attempted(e, s, ok)
    <3>1. old.phase # "new"
      BY <1>12 DEF ShovelOpen, ShovelEnds, Shovels
    <3> QED
      BY <2>1, <3>1, AttemptedBecomes
  <2>2. CASE GoTo(e, s, "get") /\ old.phase = "open"
    <3>1. step' = [step EXCEPT ![e][s] = [old EXCEPT !.phase = "get"]]
      BY <1>1, <2>2 DEF GoTo, StepRecs
    <3>2. StepOk(s, [old EXCEPT !.phase = "get"])
      BY <1>1 DEF StepOk, StepRecs, Phases
    <3>3. Onward(old, [old EXCEPT !.phase = "get"])
      BY <1>1, <2>2 DEF Onward, StepOk, StepRecs, Registered, Left
    <3> QED
      BY <1>3, <3>1, <3>2, <3>3
  <2> QED
    BY <1>12, <2>1, <2>2 DEF ShovelOpen, ShovelEnds, Shovels
<1>13. CASE ShovelGet(e, s)
  <2>1. PICK m \in Messages :
            step' = [step EXCEPT ![e][s].phase = "publish", ![e][s].msg = m]
    BY <1>13 DEF ShovelGet
  <2> DEFINE st == [old EXCEPT !.phase = "publish", !.msg = m]
  <2>2. step' = [step EXCEPT ![e][s] = st]
    BY <1>1, <2>1 DEF StepRecs
  <2>3. old.phase = "get" /\ old.n < ShovelCount
    BY <1>13 DEF ShovelGet, Shovels
  <2>4. StepOk(s, st)
    BY <1>1, <2>3 DEF StepOk, StepRecs, Phases, Messages
  <2>5. Onward(old, st)
    BY <1>1, <2>3 DEF Onward, StepOk, StepRecs, Registered, Left
  <2> QED
    BY <1>3, <2>2, <2>4, <2>5
<1>14. CASE ShovelPublish(e, s)
  <2>1. PICK phase \in {"ack", "nack"} :
            /\ step' = [step EXCEPT ![e][s].phase = phase]
            /\ old.phase = "publish"
    BY <1>14 DEF ShovelPublish, Shovels, GoTo
  <2>2. step' = [step EXCEPT ![e][s] = [old EXCEPT !.phase = phase]]
    BY <1>1, <2>1 DEF StepRecs
  <2>3. StepOk(s, [old EXCEPT !.phase = phase])
    BY <1>1, <2>1 DEF StepOk, StepRecs, Phases
  <2>4. Onward(old, [old EXCEPT !.phase = phase])
    BY <1>1, <2>1 DEF Onward, StepOk, StepRecs, Registered, Left
  <2> QED
    BY <1>3, <2>2, <2>3, <2>4
<1>15. CASE ShovelSettles(e, s)
  <2> DEFINE st == [old EXCEPT !.phase = "get", !.msg = Nothing, !.n = @ + 1]
  <2>1. step' = [step EXCEPT ![e][s] = st]
    BY <1>1, <1>15 DEF ShovelSettles, StepRecs
  <2>2. old.phase \in {"ack", "nack"}
    BY <1>15 DEF ShovelSettles, Shovels
  <2>3. StepOk(s, st)
    <3>1. old.n \in 0..3 /\ old.n < 3
      BY <1>1, <2>2 DEF StepOk, StepRecs, ShovelCount
    <3>2. old.n + 1 \in 0..3
      BY <3>1
    <3>3. st \in StepRecs
      BY <1>1, <3>2 DEF StepOk, StepRecs, Phases, ShovelCount
    <3>4. st.phase = "get" /\ st.attempt = old.attempt
      BY <1>1 DEF StepOk, StepRecs
    <3> QED
      BY <1>1, <3>3, <3>4 DEF StepOk
  <2>4. Onward(old, st)
    BY <1>1, <2>2 DEF Onward, StepOk, StepRecs, Registered, Left
  <2> QED
    BY <1>3, <2>1, <2>3, <2>4
<1> QED
  BY <1>4, <1>5, <1>6, <1>7, <1>8, <1>9, <1>10, <1>11, <1>12, <1>13, <1>14, <1>15
     DEF Stepping

\* Steps change by what their own execution does.
LEMMA StepSame ==
    ASSUME [Next]_vars
    PROVE  \/ \E e \in Ids, s \in Steps : Stepping(e, s) \/ StepTimeout(e, s)
           \/ UNCHANGED step
  BY NextCases, RequestingFrame, EndingFrame, RoutingFrame, ConsumingFrame,
     TickingFrame, OtherFrame DEF vars, runVars

LEMMA NextSteady ==
    ASSUME Steady, DOMAIN at = DOMAIN scn.messages, [Next]_vars
    PROVE  Steady' /\ \A e \in Ids, s \in Steps : Onward(step[e][s], step'[e][s])
<1>1. scn' = scn /\ Steps' = Steps /\ StepRecs' = StepRecs
  BY ScnSame DEF Steps, StepRecs
<1>2. step \in [Ids -> [Steps -> StepRecs]]
  BY DEF Steady
<1>3. CASE UNCHANGED step
  BY <1>1, <1>3 DEF Steady, StepOk, Onward, StepRecs
<1>4. ASSUME NEW e \in Ids, NEW s \in Steps, NEW st, Becomes(e, s, st)
      PROVE  Steady' /\ \A f \in Ids, u \in Steps : Onward(step[f][u], step'[f][u])
  <2>1. st \in StepRecs /\ StepOk(s, st) /\ Onward(step[e][s], st)
    BY <1>4 DEF Becomes, StepOk
  <2>2. step' \in [Ids -> [Steps -> StepRecs]] /\ step'[e][s] = st
    BY <1>2, <1>4, <2>1 DEF Becomes
  <2>3. \A f \in Ids, u \in Steps : f # e \/ u # s => step'[f][u] = step[f][u]
    BY <1>2, <1>4, <2>1 DEF Becomes
  <2>4. \A f \in Ids, u \in Steps : Onward(step[f][u], step[f][u])
    BY <1>2 DEF Onward, StepRecs
  <2>5. \A f \in Ids, u \in Steps : StepOk(u, step[f][u])
    BY DEF Steady
  <2>6. \A f \in Ids, u \in Steps : StepOk(u, step'[f][u])
    <3> SUFFICES ASSUME NEW f \in Ids, NEW u \in Steps PROVE StepOk(u, step'[f][u])
      OBVIOUS
    <3>1. CASE f = e /\ u = s
      BY <2>1, <2>2, <3>1
    <3>2. CASE ~(f = e /\ u = s)
      BY <2>3, <2>5, <3>2
    <3> QED
      BY <3>1, <3>2
  <2>7. \A f \in Ids, u \in Steps : Onward(step[f][u], step'[f][u])
    <3> SUFFICES ASSUME NEW f \in Ids, NEW u \in Steps
                 PROVE  Onward(step[f][u], step'[f][u])
      OBVIOUS
    <3>1. CASE f = e /\ u = s
      BY <2>1, <2>2, <3>1
    <3>2. CASE ~(f = e /\ u = s)
      BY <2>3, <2>4, <3>2
    <3> QED
      BY <3>1, <3>2
  <2>8. \A f \in Ids, u \in Steps : StepOk(u, step[f][u])'
    BY <1>1, <2>6 DEF StepOk
  <2> QED
    BY <1>1, <2>2, <2>7, <2>8 DEF Steady
<1>5. ASSUME NEW e \in Ids, NEW s \in Steps, Stepping(e, s) \/ StepTimeout(e, s)
      PROVE  Steady' /\ \A f \in Ids, u \in Steps : Onward(step[f][u], step'[f][u])
  BY <1>4, <1>5, SteppingBecomes
<1> QED
  BY <1>3, <1>5, StepSame
-----------------------------------------------------------------------------
(* The broker *)

Channels == {Wait, Trigger, Shovel}

States == {"absent", "queued", "unacked", "acked"}

\* Who holds a message says which queue it came from.
Queued ==
    /\ at \in [DOMAIN scn.messages -> States]
    /\ queueOf = scn.messages
    /\ DOMAIN holder = DOMAIN scn.messages
    /\ holder = [m \in DOMAIN scn.messages |-> holder[m]]
    /\ lost \in [DOMAIN scn.messages -> Nat]
    /\ \A m \in DOMAIN scn.messages : at[m] = "unacked" =>
          \/ holder[m] = Wait /\ queueOf[m] = WaitQueue
          \/ holder[m] \in {Trigger, Shovel} /\ queueOf[m] = TriggerQueue

\* What a step may do to the broker, and to what the consumer of the waits has
\* in hand.
BrokerMoves ==
    \/ UNCHANGED hand /\ \E m \in Messages : Arrive(m)
    \/ UNCHANGED hand /\ \E ch \in Channels : OpenChannel(ch)
    \/ UNCHANGED hand /\ \E ch : CloseChannel(ch)
    \/ hand' = Nothing /\ CloseChannel(Wait)
    \/ UNCHANGED hand /\ \E m \in Messages, ch \in {Trigger, Shovel} : \E prefetch :
                             Receive(m, TriggerQueue, ch, prefetch)
    \/ UNCHANGED hand /\ \E m, ch : /\ ch \in {Trigger, Shovel}
                                    /\ Ack(m, ch) \/ Nack(m, ch)
    \/ \E m \in Messages : TakeInHand(m)
    \/ \E wanting : Route(wanting)
    \/ UNCHANGED hand /\ UNCHANGED brokerVars

LEMMA CleanupMoves == ASSUME NEW w, Cleanup(w) PROVE BrokerMoves
  BY DEF Cleanup, CleanupHook, CleanupWait, BrokerMoves, waitVars

LEMMA SteppingMoves ==
    ASSUME NEW e, NEW s, Stepping(e, s) \/ StepTimeout(e, s)
    PROVE  BrokerMoves
<1>1. CASE StartStep(e, s) \/ RetryCancelled(e, s) \/ Schedule(e, s)
           \/ EmitWaiting(e, s) \/ Taken(e, s) \/ GivesUp(e, s) \/ StepTimeout(e, s)
  BY <1>1 DEF StartStep, RetryCancelled, Schedule, EmitWaiting, Taken, GivesUp,
              StepTimeout, BrokerMoves, waitVars
<1>2. CASE RegisterStep(e, s)
  BY <1>2 DEF RegisterStep, RegisterHook, RegisterWait, BrokerMoves, Channels
<1>3. CASE Leave(e, s)
  BY <1>3, CleanupMoves DEF Leave
<1>4. CASE ShovelOpen(e, s) \/ ShovelEnds(e, s) \/ ShovelPublish(e, s)
  BY <1>4 DEF ShovelOpen, ShovelEnds, ShovelPublish, ShovelOnly, BrokerMoves,
              Channels, waitVars
<1>5. CASE ShovelGet(e, s) \/ ShovelSettles(e, s)
  BY <1>5 DEF ShovelGet, ShovelSettles, ShovelOnly, BrokerMoves, waitVars
<1>6. ASSUME NEW ok, Act(e, s, ok)
      PROVE  BrokerMoves
  BY <1>6 DEF Act, BrokerMoves, waitVars
<1> QED
  BY <1>1, <1>2, <1>3, <1>4, <1>5, <1>6 DEF Stepping

LEMMA NextBrokerMoves == ASSUME [Next]_vars PROVE BrokerMoves
<1>1. ASSUME NEW e, Ending(e) \/ Cancel(e)
      PROVE  BrokerMoves
  <2>1. UNCHANGED hand
    BY <1>1, EndingFrame DEF waitVars
  <2> QED
    BY <1>1, <2>1 DEF Ending, Return, Capture, Finalize, EnsureCompleted,
                      OnComplete, Cancel, BrokerMoves
<1>2. CASE Routing
  BY <1>2 DEF Routing, ConsumerLoop, HookSends, Send, Refuse, HookLooksUp, Outside,
              BrokerMoves, waitVars
<1>3. CASE Consuming
  <2>1. UNCHANGED hand
    BY <1>3, ConsumingFrame DEF waitVars
  <2> QED
    BY <1>3, <2>1 DEF Consuming, Consume, ConsumeEnds, Acknowledge, OnMessage,
                      BrokerMoves
<1>4. CASE Other
  <2>1. CASE Shutdown
    BY <2>1 DEF Shutdown, CloseWaits, BrokerMoves, waitVars
  <2>2. ASSUME NEW w, LateCleanup(w)
        PROVE  BrokerMoves
    BY <2>2, CleanupMoves DEF LateCleanup
  <2> QED
    BY <1>4, <2>1, <2>2 DEF Other, Published, ConnectionLost, BrokerMoves, waitVars
<1>5. CASE UNCHANGED vars
  BY <1>5 DEF vars, BrokerMoves, waitVars
<1>6. ASSUME UNCHANGED <<waitVars, brokerVars>>
      PROVE  BrokerMoves
  BY <1>6 DEF BrokerMoves, waitVars
<1> QED
  BY <1>1, <1>2, <1>3, <1>4, <1>5, <1>6, NextCases, RequestingFrame, SteppingMoves,
     TickingFrame

LEMMA NextQueued == Queued /\ [Next]_vars => Queued'
<1> SUFFICES ASSUME Queued, [Next]_vars PROVE Queued'
  OBVIOUS
<1>1. scn' = scn /\ Messages = DOMAIN scn.messages
  BY ScnSame DEF Queued, Messages
<1>2. CASE UNCHANGED brokerVars
  BY <1>1, <1>2 DEF brokerVars, Queued
<1>3. ASSUME NEW m \in Messages, Arrive(m)
      PROVE  Queued'
  BY <1>1, <1>3 DEF Arrive, Queued, States
<1>4. ASSUME NEW ch, OpenChannel(ch)
      PROVE  Queued'
  BY <1>1, <1>4 DEF OpenChannel, Queued
<1>5. ASSUME NEW ch, CloseChannel(ch)
      PROVE  Queued'
  BY <1>1, <1>5 DEF CloseChannel, Unacked, Queued, States
<1>6. ASSUME NEW m \in Messages, NEW prefetch, NEW queue, NEW ch,
             Receive(m, queue, ch, prefetch),
             \/ queue = WaitQueue /\ ch = Wait
             \/ queue = TriggerQueue /\ ch \in {Trigger, Shovel}
      PROVE  Queued'
  BY <1>1, <1>6 DEF Receive, Queued, States
<1>7. ASSUME NEW m, NEW ch, Ack(m, ch) \/ Nack(m, ch)
      PROVE  Queued'
  BY <1>1, <1>7 DEF Ack, Nack, Settled, Unacked, Queued, States
<1>8. CASE \E m \in Messages : TakeInHand(m)
  BY <1>6, <1>8 DEF TakeInHand
<1>9. CASE \E wanting : Route(wanting)
  BY <1>7, <1>9 DEF Route, RouteTo
<1> QED
  BY <1>2, <1>3, <1>4, <1>5, <1>6, <1>7, <1>8, <1>9, NextBrokerMoves DEF BrokerMoves

-----------------------------------------------------------------------------
(* Lists of waiters *)

LEMMA SmallestNumber ==
    ASSUME NEW A \in SUBSET Nat, A # {}
    PROVE  Min(A) \in A /\ \A j \in A : Min(A) <= j
<1>1. PICK x \in A : \A y \in A : ~(<<y, x>> \in OpToRel(<, Nat))
  BY NatLessThanWellFounded, WFMin
<1>0. \A y \in A : y \in Nat
  OBVIOUS
<1>2. \A y \in A : ~(y < x)
  BY <1>0, <1>1 DEF OpToRel
<1>3. \A y \in A : x <= y
  <2> SUFFICES ASSUME NEW y \in A PROVE x <= y
    OBVIOUS
  <2>1. x \in Nat /\ y \in Nat /\ ~(y < x)
    BY <1>0, <1>1, <1>2
  <2> QED
    BY <2>1
<1> QED
  BY <1>1, <1>3 DEF Min

LEMMA RemoveFacts ==
    ASSUME NEW S, NEW q \in Seq(S), NEW e
    PROVE  /\ RemoveFirst(q, e) \in Seq(S)
           /\ \A i \in 1..Len(RemoveFirst(q, e)) :
                 \E j \in 1..Len(q) : RemoveFirst(q, e)[i] = q[j]
<1>1. CASE ~\E i \in 1..Len(q) : q[i] = e
  BY <1>1 DEF RemoveFirst
<1>2. CASE \E i \in 1..Len(q) : q[i] = e
  <2> DEFINE A == {i \in 1..Len(q) : q[i] = e}
  <2>1. SelectInSeq(q, LAMBDA v : v = e) = IF A # {} THEN Min(A) ELSE 0
    BY DEF SelectInSeq
  <2>2. A # {} /\ Min(A) \in A
    <3>1. A # {} /\ A \in SUBSET Nat
      BY <1>2
    <3> QED
      BY <3>1, SmallestNumber
  <2>3. PICK k \in 1..Len(q) : RemoveFirst(q, e) = RemoveAt(q, k)
    BY <1>2, <2>1, <2>2 DEF RemoveFirst
  <2> DEFINE a == SubSeq(q, 1, k - 1)
             b == SubSeq(q, k + 1, Len(q))
  <2>4. /\ a \in Seq(S) /\ Len(a) = k - 1
        /\ \A i \in 1..(k - 1) : a[i] = q[i]
    BY SubSeqProperties
  <2>5. /\ b \in Seq(S) /\ Len(b) = Len(q) - k
        /\ \A i \in 1..(Len(q) - k) : b[i] = q[k + i]
    BY SubSeqProperties
  <2>8. Len(q) \in Nat
    OBVIOUS
  <2> HIDE DEF a, b
  <2>6. a \o b \in Seq(S) /\ Len(a \o b) = Len(q) - 1
    <3>1. a \o b \in Seq(S) /\ Len(a \o b) = Len(a) + Len(b)
      BY <2>4, <2>5, ConcatProperties
    <3>2. \A x, y \in Nat : (y - 1) + (x - y) = x - 1
      OBVIOUS
    <3>3. k \in Nat
      BY <2>8
    <3> QED
      BY <2>4, <2>5, <2>8, <3>1, <3>2, <3>3
  <2>7. \A i \in 1..(Len(q) - 1) : \E j \in 1..Len(q) : (a \o b)[i] = q[j]
    <3> SUFFICES ASSUME NEW i \in 1..(Len(q) - 1)
                 PROVE  \E j \in 1..Len(q) : (a \o b)[i] = q[j]
      OBVIOUS
    <3>0. (a \o b)[i] = IF i <= k - 1 THEN a[i] ELSE b[i - (k - 1)]
      BY <2>3, <2>4, <2>5, <2>6, ConcatProperties
    <3>1. CASE i < k
      <4>1. i \in 1..(k - 1) /\ i \in 1..Len(q)
        BY <2>3, <2>8, <3>1
      <4> QED
        BY <2>4, <3>0, <4>1
    <3>2. CASE i >= k
      <4>1. /\ i - (k - 1) \in 1..(Len(q) - k) /\ i + 1 \in 1..Len(q)
            /\ ~(i <= k - 1) /\ k + (i - (k - 1)) = i + 1
        BY <2>3, <2>8, <3>2
      <4>2. (a \o b)[i] = b[i - (k - 1)] /\ b[i - (k - 1)] = q[i + 1]
        BY <2>5, <3>0, <4>1
      <4> QED
        BY <4>1, <4>2
    <3>3. i \in Int /\ k \in Int
      BY <2>8
    <3>4. i < k \/ i >= k
      BY <3>3
    <3> QED
      BY <3>1, <3>2, <3>4
  <2> QED
    BY <2>3, <2>6, <2>7 DEF RemoveAt, a, b
<1> QED
  BY <1>1, <1>2

-----------------------------------------------------------------------------
(* Waiters: nothing is sent to one before it has registered *)

Hooks == DOMAIN scn.hooks

Boxes == DOMAIN scn.messages \cup Hooks \cup {Nothing, Closed}

Keys == {<<e, scn.steps[s].path>> : e \in Ids, s \in Steps}

HookStates == [phase : {"new", "send", "delivered", "refused"},
               to : Waiters \cup {Nothing}]

Addressed(h) == <<scn.hooks[h].exec, scn.hooks[h].path>>

\* The waiter has registered; its step has left the select.
Been(w) ==
    LET st == step[w[1]][w[2]]
    IN  w[3] < st.attempt \/ (w[3] = st.attempt /\ st.phase \in Registered)

Took(w) ==
    LET st == step[w[1]][w[2]]
    IN  w[3] < st.attempt \/ (w[3] = st.attempt /\ st.phase \in Left)

WaitTypes ==
    /\ box \in [Waiters -> Boxes]
    /\ got \in [Waiters -> Boxes \ {Closed}]
    /\ regs \in [Keys -> Waiters \cup {Nothing}]
    /\ waiters \in Seq(Waiters)
    /\ watch \subseteq Waiters
    /\ consumer \in BOOLEAN
    /\ hook \in [Hooks -> HookStates]
    /\ hand \in DOMAIN scn.messages \cup {Nothing}
    /\ trigger \in DOMAIN scn.messages \cup {Nothing, Closed}
    /\ hand # Nothing => scn.messages[hand] = WaitQueue

OnlyRegistered ==
    /\ \A w \in Waiters : box[w] # Nothing => Been(w)
    /\ \A w \in Waiters : got[w] # Nothing => Took(w)
    /\ \A k \in Keys : regs[k] # Nothing => Been(regs[k]) /\ HookKey(regs[k]) = k
    /\ \A h \in Hooks : hook[h].phase \in {"send", "delivered"} =>
          /\ hook[h].to \in Waiters /\ Been(hook[h].to)
          /\ HookKey(hook[h].to) = Addressed(h)
    /\ \A i \in 1..Len(waiters) : Been(waiters[i])

LEMMA WaiterParts ==
    ASSUME NEW w \in Waiters, scn \in Scenarios
    PROVE  /\ w[1] \in Ids /\ w[2] \in Steps
           /\ w[3] \in 1..scn.steps[w[2]].attempts /\ w[3] \in Nat
<1>1. PICK s \in Steps : w \in Ids \X {s} \X (1..scn.steps[s].attempts)
  BY DEF Waiters
<1>2. scn.steps[s].attempts \in Nat
  BY AttemptsPositive
<1> QED
  BY <1>1, <1>2

LEMMA WaiterIn ==
    ASSUME Steady, NEW e \in Ids, NEW s \in Steps,
           step[e][s].phase \in {"register", "emit", "select", "leaving"}
    PROVE  Waiter(e, s) \in Waiters
<1>1. StepOk(s, step[e][s])
  BY DEF Steady
<1>2. step[e][s].attempt \in 1..scn.steps[s].attempts
  BY <1>1, AttemptsPositive DEF Steady, StepOk, StepRecs
<1>3. Waiter(e, s) \in Ids \X {s} \X (1..scn.steps[s].attempts)
  BY <1>2 DEF Waiter
<1> QED
  BY <1>3 DEF Waiters

LEMMA BeenStays ==
    ASSUME Steady, DOMAIN at = DOMAIN scn.messages, [Next]_vars, NEW w \in Waiters
    PROVE  (Been(w) => Been(w)') /\ (Took(w) => Took(w)')
<1>1. w[1] \in Ids /\ w[2] \in Steps /\ w[3] \in Nat
  BY WaiterParts DEF Steady
<1>2. Onward(step[w[1]][w[2]], step'[w[1]][w[2]])
  BY <1>1, NextSteady
<1>3. /\ step[w[1]][w[2]].attempt \in Nat /\ step'[w[1]][w[2]].attempt \in Nat
  <2>1. Steps' = Steps /\ Ids' = Ids
    BY ScnSame DEF Steps, Ids
  <2> QED
    BY <1>1, <2>1, NextSteady DEF Steady, StepOk, StepRecs
<1> QED
  BY <1>1, <1>2, <1>3 DEF Been, Took, Onward

LEMMA WaitsSame ==
    ASSUME [Next]_vars
    PROVE  /\ Waiters' = Waiters /\ Boxes' = Boxes /\ Keys' = Keys /\ Hooks' = Hooks
           /\ HookStates' = HookStates
           /\ \A h : Addressed(h)' = Addressed(h)
           /\ \A w : HookKey(w)' = HookKey(w)
<1>1. scn' = scn /\ Steps' = Steps
  BY ScnSame DEF Steps
<1>2. Waiters' = Waiters
  BY <1>1 DEF Waiters
<1> QED
  BY <1>1, <1>2 DEF Boxes, Keys, Hooks, HookStates, Addressed, HookKey

LEMMA SteppingWaits ==
    ASSUME NEW e, NEW s, Stepping(e, s) \/ StepTimeout(e, s)
    PROVE  \/ RegisterStep(e, s) \/ Taken(e, s) \/ Leave(e, s)
           \/ UNCHANGED <<waitVars, got, watch>>
<1>1. CASE StartStep(e, s) \/ RetryCancelled(e, s) \/ Schedule(e, s)
           \/ EmitWaiting(e, s) \/ GivesUp(e, s) \/ StepTimeout(e, s)
  BY <1>1 DEF StartStep, RetryCancelled, Schedule, EmitWaiting, GivesUp, StepTimeout
<1>2. CASE ShovelOpen(e, s) \/ ShovelEnds(e, s) \/ ShovelPublish(e, s)
           \/ ShovelGet(e, s) \/ ShovelSettles(e, s)
  BY <1>2 DEF ShovelOpen, ShovelEnds, ShovelPublish, ShovelGet, ShovelSettles, ShovelOnly
<1>3. ASSUME NEW ok, Act(e, s, ok)
      PROVE  UNCHANGED <<waitVars, got, watch>>
  BY <1>3 DEF Act
<1> QED
  BY <1>1, <1>2, <1>3 DEF Stepping

LEMMA WaitCases ==
    ASSUME [Next]_vars
    PROVE  \/ \E e \in Ids, s \in Steps : RegisterStep(e, s) \/ Taken(e, s) \/ Leave(e, s)
           \/ Routing
           \/ \E w \in watch : LateCleanup(w)
           \/ CloseWaits /\ UNCHANGED <<step, got, watch, hook, trigger>>
           \/ UNCHANGED <<waitVars, got, watch, hook>>
<1>1. CASE Other
  BY <1>1 DEF Other, Shutdown, Published, ConnectionLost, runVars, entry
<1>2. CASE UNCHANGED vars
  BY <1>2 DEF vars, runVars, entry
<1> QED
  BY <1>1, <1>2, NextCases, RequestingFrame, SteppingFrame, SteppingWaits,
     EndingFrame, ConsumingFrame, TickingFrame

\* What the loop of the trigger has in hand.
LEMMA TriggerMoves ==
    ASSUME [Next]_vars
    PROVE  trigger' \in Messages \cup {Nothing, Closed, trigger}
<1>1. CASE Consuming
  BY <1>1 DEF Consuming, Consume, ConsumeEnds, Acknowledge, OnMessage
<1> QED
  BY <1>1, NextCases, RequestingFrame, SteppingFrame, EndingFrame, RoutingFrame,
     TickingFrame, OtherFrame DEF vars, entry

LEMMA BeenStay ==
    ASSUME Steady, DOMAIN at = DOMAIN scn.messages, [Next]_vars
    PROVE  \A w \in Waiters : (Been(w) => Been(w)') /\ (Took(w) => Took(w)')
  BY BeenStays

LEMMA CleanupHeld ==
    ASSUME WaitTypes, NEW w \in Waiters, Cleanup(w)
    PROVE  /\ UNCHANGED box
           /\ regs' \in [Keys -> Waiters \cup {Nothing}]
           /\ \A k \in Keys : regs'[k] \in {regs[k], Nothing}
           /\ waiters' \in Seq(Waiters)
           /\ \A i \in 1..Len(waiters') : \E j \in 1..Len(waiters) : waiters'[i] = waiters[j]
           /\ consumer' \in BOOLEAN
           /\ hand' \in {hand, Nothing}
<1>1. CASE CleanupHook(HookKey(w))
  BY <1>1 DEF CleanupHook, WaitTypes
<1>2. CASE UNCHANGED waitVars
  BY <1>2 DEF waitVars, WaitTypes
<1>3. CASE CleanupWait(w)
  <2>1. waiters \in Seq(Waiters)
    BY DEF WaitTypes
  <2>2. /\ Without(w) \in Seq(Waiters)
        /\ \A i \in 1..Len(Without(w)) : \E j \in 1..Len(waiters) :
              Without(w)[i] = waiters[j]
    BY <2>1, RemoveFacts DEF Without
  <2>3. waiters' = waiters \/ waiters' = Without(w)
    BY <1>3 DEF CleanupWait
  <2>4. consumer' \in BOOLEAN /\ hand' \in {hand, Nothing} /\ UNCHANGED <<box, regs>>
    BY <1>3 DEF CleanupWait, WaitTypes
  <2> QED
    BY <2>1, <2>2, <2>3, <2>4 DEF WaitTypes
<1> QED
  BY <1>1, <1>2, <1>3 DEF Cleanup

LEMMA NextHeld ==
    Steady /\ Queued /\ WaitTypes /\ OnlyRegistered /\ [Next]_vars
        => WaitTypes' /\ OnlyRegistered'
<1> SUFFICES ASSUME Steady, Queued, WaitTypes, OnlyRegistered, [Next]_vars
             PROVE  WaitTypes' /\ OnlyRegistered'
  OBVIOUS
<1>1. scn' = scn /\ DOMAIN at = DOMAIN scn.messages /\ Messages = DOMAIN scn.messages
  BY ScnSame DEF Queued, Messages
<1>2. \A w \in Waiters : (Been(w) => Been(w)') /\ (Took(w) => Took(w)')
  BY <1>1, BeenStay
<1>3. trigger' \in DOMAIN scn.messages \cup {Nothing, Closed}
  BY <1>1, TriggerMoves DEF WaitTypes
\* It is enough to say what became of each part.
<1>4. ASSUME box' \in [Waiters -> Boxes], got' \in [Waiters -> Boxes \ {Closed}],
             regs' \in [Keys -> Waiters \cup {Nothing}], waiters' \in Seq(Waiters),
             watch' \subseteq Waiters, consumer' \in BOOLEAN,
             hook' \in [Hooks -> HookStates],
             hand' \in DOMAIN scn.messages \cup {Nothing},
             hand' # Nothing => scn.messages[hand'] = WaitQueue,
             \A w \in Waiters : box'[w] # Nothing => Been(w)',
             \A w \in Waiters : got'[w] # Nothing => Took(w)',
             \A w \in Waiters, k \in Keys :
                 regs'[k] = w /\ w # Nothing => Been(w)' /\ HookKey(w) = k,
             \A w, h : h \in Hooks /\ hook'[h].phase \in {"send", "delivered"}
                       /\ w = hook'[h].to
                 => w \in Waiters /\ Been(w)' /\ HookKey(w) = Addressed(h),
             \A w \in Waiters, i \in 1..Len(waiters') : w = waiters'[i] => Been(w)'
      PROVE  WaitTypes' /\ OnlyRegistered'
  <2>1. WaitTypes'
    BY <1>1, <1>3, <1>4, WaitsSame DEF WaitTypes
  <2>2. \A k \in Keys : regs'[k] # Nothing => Been(regs[k])' /\ HookKey(regs'[k]) = k
    <3> SUFFICES ASSUME NEW k \in Keys, regs'[k] # Nothing
                 PROVE  Been(regs[k])' /\ HookKey(regs'[k]) = k
      OBVIOUS
    <3>1. PICK w \in Waiters : regs'[k] = w
      BY <1>4
    <3> QED
      BY <1>4, <3>1 DEF Been
  <2>3. \A h \in Hooks : hook'[h].phase \in {"send", "delivered"} =>
           /\ hook'[h].to \in Waiters /\ Been(hook[h].to)'
           /\ HookKey(hook'[h].to) = Addressed(h)
    <3> SUFFICES ASSUME NEW h \in Hooks, hook'[h].phase \in {"send", "delivered"}
                 PROVE  /\ hook'[h].to \in Waiters /\ Been(hook[h].to)'
                        /\ HookKey(hook'[h].to) = Addressed(h)
      OBVIOUS
    <3>1. PICK w : hook'[h].to = w
      OBVIOUS
    <3> QED
      BY <1>4, <3>1 DEF Been
  <2>4. \A i \in 1..Len(waiters') : Been(waiters[i])'
    <3> SUFFICES ASSUME NEW i \in 1..Len(waiters') PROVE Been(waiters[i])'
      OBVIOUS
    <3>1. PICK w \in Waiters : waiters'[i] = w
      BY <1>4
    <3> QED
      BY <1>4, <3>1 DEF Been
  <2>5. (\A k \in Keys : regs[k] # Nothing => Been(regs[k]) /\ HookKey(regs[k]) = k)'
    BY <1>1, <2>2, WaitsSame DEF HookKey
  <2>6. (\A h \in Hooks : hook[h].phase \in {"send", "delivered"} =>
            /\ hook[h].to \in Waiters /\ Been(hook[h].to)
            /\ HookKey(hook[h].to) = Addressed(h))'
    BY <1>1, <2>3, WaitsSame DEF HookKey, Addressed
  <2> QED
    BY <1>4, <2>1, <2>4, <2>5, <2>6, WaitsSame DEF OnlyRegistered
\* What holds before, with waiters only going on.
<1>5. /\ \A w \in Waiters : box[w] # Nothing => Been(w)'
      /\ \A w \in Waiters : got[w] # Nothing => Took(w)'
      /\ \A w \in Waiters, k \in Keys :
             regs[k] = w /\ w # Nothing => Been(w)' /\ HookKey(w) = k
      /\ \A w, h : h \in Hooks /\ hook[h].phase \in {"send", "delivered"}
                   /\ w = hook[h].to
             => w \in Waiters /\ Been(w)' /\ HookKey(w) = Addressed(h)
      /\ \A w \in Waiters, i \in 1..Len(waiters) : w = waiters[i] => Been(w)'
  BY <1>2 DEF OnlyRegistered
<1>6. /\ box \in [Waiters -> Boxes] /\ got \in [Waiters -> Boxes \ {Closed}]
      /\ regs \in [Keys -> Waiters \cup {Nothing}] /\ waiters \in Seq(Waiters)
      /\ watch \subseteq Waiters /\ consumer \in BOOLEAN
      /\ hook \in [Hooks -> HookStates]
      /\ hand \in DOMAIN scn.messages \cup {Nothing}
      /\ hand # Nothing => scn.messages[hand] = WaitQueue
  BY DEF WaitTypes
<1>7. CASE UNCHANGED <<waitVars, got, watch, hook>>
  BY <1>4, <1>5, <1>6, <1>7 DEF waitVars
<1>8. ASSUME NEW e \in Ids, NEW s \in Steps, RegisterStep(e, s)
      PROVE  WaitTypes' /\ OnlyRegistered'
  <2>1. PICK w : w = Waiter(e, s)
    OBVIOUS
  <2>2. w \in Waiters
    BY <1>8, <2>1, WaiterIn DEF RegisterStep, Waits_
  <2>3. Been(w)'
    <3>1. step' = [step EXCEPT ![e][s].phase = "emit"]
      BY <1>8 DEF RegisterStep, GoTo
    <3>2. step'[e][s].phase = "emit" /\ step'[e][s].attempt = step[e][s].attempt
      BY <3>1 DEF Steady, StepRecs
    <3> QED
      BY <2>1, <3>2 DEF Waiter, Been, Registered
  <2>4. /\ UNCHANGED <<got, hook, hand>> /\ watch' = watch \cup {w}
        /\ \/ RegisterHook(w, HookKey(w))
           \/ \E opens : RegisterWait(w, opens)
    BY <1>8, <2>1 DEF RegisterStep, StepOnly, RegisterHook, RegisterWait
  <2>5. CASE RegisterHook(w, HookKey(w))
    <3>1. /\ regs' = [regs EXCEPT ![HookKey(w)] = w]
          /\ UNCHANGED <<box, consumer, waiters>>
      BY <2>5 DEF RegisterHook
    <3>2. regs' \in [Keys -> Waiters \cup {Nothing}]
      BY <1>6, <2>2, <3>1
    <3>3. \A k \in Keys : regs'[k] = regs[k] \/ (k = HookKey(w) /\ regs'[k] = w)
      BY <1>6, <3>1
    <3>4. \A v \in Waiters, k \in Keys :
              regs'[k] = v /\ v # Nothing => Been(v)' /\ HookKey(v) = k
      BY <1>5, <2>3, <3>3
    <3> QED
      BY <1>4, <1>5, <1>6, <2>2, <2>4, <3>1, <3>2, <3>4
  <2>6. ASSUME NEW opens, RegisterWait(w, opens)
        PROVE  WaitTypes' /\ OnlyRegistered'
    <3>1. CASE consumer' = TRUE /\ waiters' = Append(waiters, w) /\ UNCHANGED box
      <4>1. /\ waiters' \in Seq(Waiters) /\ Len(waiters) \in Nat
            /\ Len(waiters') = Len(waiters) + 1
            /\ \A i \in 1..Len(waiters) : waiters'[i] = waiters[i]
            /\ waiters'[Len(waiters) + 1] = w
        BY <1>6, <2>2, <3>1, AppendFacts
      <4>2. \A i \in 1..Len(waiters') : i \in 1..Len(waiters) \/ i = Len(waiters) + 1
        BY <4>1
      <4>3. \A v \in Waiters, i \in 1..Len(waiters') : v = waiters'[i] => Been(v)'
        BY <1>5, <2>3, <4>1, <4>2
      <4>4. UNCHANGED regs
        BY <2>6 DEF RegisterWait
      <4> QED
        BY <1>4, <1>5, <1>6, <2>2, <2>4, <3>1, <4>1, <4>3, <4>4
    <3>2. CASE box' = [box EXCEPT ![w] = Closed] /\ UNCHANGED <<consumer, waiters>>
      <4>1. box' \in [Waiters -> Boxes]
        BY <1>6, <3>2 DEF Boxes
      <4>2. \A v \in Waiters : v = w \/ box'[v] = box[v]
        BY <1>6, <3>2
      <4>3. \A v \in Waiters : box'[v] # Nothing => Been(v)'
        BY <1>5, <2>3, <4>2
      <4>4. UNCHANGED regs
        BY <2>6 DEF RegisterWait
      <4> QED
        BY <1>4, <1>5, <1>6, <2>2, <2>4, <3>2, <4>1, <4>3, <4>4
    <3> QED
      BY <2>6, <3>1, <3>2 DEF RegisterWait
  <2> QED
    BY <2>4, <2>5, <2>6
<1>9. ASSUME NEW e \in Ids, NEW s \in Steps, Taken(e, s)
      PROVE  WaitTypes' /\ OnlyRegistered'
  <2>1. PICK w : w = Waiter(e, s)
    OBVIOUS
  <2>2. w \in Waiters
    BY <1>9, <2>1, WaiterIn DEF Taken, Waits_
  <2>3. Took(w)'
    <3>1. PICK ok : step' = [step EXCEPT ![e][s].phase = "leaving", ![e][s].ok = ok]
      BY <1>9 DEF Taken
    <3>2. step'[e][s].phase = "leaving" /\ step'[e][s].attempt = step[e][s].attempt
      BY <3>1 DEF Steady, StepRecs
    <3> QED
      BY <2>1, <3>2 DEF Waiter, Took, Left
  <2>4. UNCHANGED <<regs, consumer, waiters, hand, watch, hook>>
    BY <1>9 DEF Taken, StepOnly
  <2>5. CASE UNCHANGED <<box, got>>
    BY <1>4, <1>5, <1>6, <2>4, <2>5
  <2>6. CASE /\ box[w] # Closed /\ got' = [got EXCEPT ![w] = box[w]]
             /\ box' = [box EXCEPT ![w] = Nothing]
    <3>1. box' \in [Waiters -> Boxes] /\ got' \in [Waiters -> Boxes \ {Closed}]
      BY <1>6, <2>2, <2>6 DEF Boxes
    <3>2. \A v \in Waiters : /\ box'[v] = box[v] \/ box'[v] = Nothing
                             /\ v = w \/ got'[v] = got[v]
      BY <1>6, <2>6
    <3>3. \A v \in Waiters : box'[v] # Nothing => Been(v)'
      BY <1>5, <3>2
    <3>4. \A v \in Waiters : got'[v] # Nothing => Took(v)'
      BY <1>5, <2>3, <3>2
    <3> QED
      BY <1>4, <1>5, <1>6, <2>4, <3>1, <3>3, <3>4
  <2> QED
    BY <1>9, <2>1, <2>5, <2>6 DEF Taken, Empty
<1>10. ASSUME NEW w \in Waiters, Cleanup(w), UNCHANGED <<got, hook>>,
              watch' \subseteq watch
       PROVE  WaitTypes' /\ OnlyRegistered'
  <2>1. /\ UNCHANGED box
        /\ regs' \in [Keys -> Waiters \cup {Nothing}]
        /\ \A k \in Keys : regs'[k] \in {regs[k], Nothing}
        /\ waiters' \in Seq(Waiters)
        /\ \A i \in 1..Len(waiters') : \E j \in 1..Len(waiters) : waiters'[i] = waiters[j]
        /\ consumer' \in BOOLEAN
        /\ hand' \in {hand, Nothing}
    BY <1>10, CleanupHeld
  <2>2. \A v \in Waiters, k \in Keys :
            regs'[k] = v /\ v # Nothing => Been(v)' /\ HookKey(v) = k
    BY <1>5, <2>1
  <2>3. \A v \in Waiters, i \in 1..Len(waiters') : v = waiters'[i] => Been(v)'
    BY <1>5, <2>1
  <2> QED
    BY <1>4, <1>5, <1>6, <1>10, <2>1, <2>2, <2>3
<1>11. ASSUME NEW e \in Ids, NEW s \in Steps, Leave(e, s)
       PROVE  WaitTypes' /\ OnlyRegistered'
  <2>1. PICK w : w = Waiter(e, s)
    OBVIOUS
  <2>2. w \in Waiters
    BY <1>11, <2>1, WaiterIn DEF Leave, Waits_
  <2>3. Cleanup(w) /\ UNCHANGED <<got, hook, watch>>
    BY <1>11, <2>1 DEF Leave, StepOnly
  <2> QED
    BY <1>10, <2>2, <2>3
<1>12. ASSUME NEW w \in watch, LateCleanup(w)
       PROVE  WaitTypes' /\ OnlyRegistered'
  <2>1. Cleanup(w) /\ UNCHANGED <<got, hook>> /\ watch' = watch \ {w}
    BY <1>12 DEF LateCleanup, entry
  <2> QED
    BY <1>6, <1>10, <2>1
<1>13. CASE CloseWaits /\ UNCHANGED <<step, got, watch, hook, trigger>>
  <2>1. waiters' = <<>> /\ consumer' = FALSE /\ hand' = Nothing /\ UNCHANGED <<box, regs>>
    BY <1>13 DEF CloseWaits
  <2>2. waiters' \in Seq(Waiters) /\ \A i \in 1..Len(waiters') : FALSE
    BY <2>1
  <2> QED
    BY <1>4, <1>5, <1>6, <1>13, <2>1, <2>2
<1>14. CASE Routing
  <2>1. UNCHANGED <<got, watch>>
    BY <1>14, RoutingFrame
  <2>2. ASSUME NEW h \in Hooks, HookLooksUp(h)
        PROVE  WaitTypes' /\ OnlyRegistered'
    <3>1. PICK k : k = Addressed(h)
      OBVIOUS
    <3>2. k \in Keys
      BY <1>1, <3>1, ScenariosAssumption DEF Steady, Hooks, Addressed, Keys, Steps, Ids
    <3>3. PICK w \in Waiters \cup {Nothing} : w = regs[k]
      BY <1>6, <3>2
    <3>4. hook' = [hook EXCEPT ![h] =
                     [phase |-> IF w = Nothing THEN "refused" ELSE "send", to |-> w]]
      BY <2>2, <3>1, <3>3 DEF HookLooksUp, Addressed
    <3>5. hook' \in [Hooks -> HookStates]
      BY <1>6, <3>4 DEF HookStates
    <3>6. \A v, g : g \in Hooks /\ hook'[g].phase \in {"send", "delivered"}
                    /\ v = hook'[g].to
              => v \in Waiters /\ Been(v)' /\ HookKey(v) = Addressed(g)
      <4> SUFFICES ASSUME NEW g \in Hooks, hook'[g].phase \in {"send", "delivered"},
                          NEW v, v = hook'[g].to
                   PROVE  v \in Waiters /\ Been(v)' /\ HookKey(v) = Addressed(g)
        OBVIOUS
      <4>1. CASE g = h
        BY <1>5, <1>6, <3>1, <3>2, <3>3, <3>4, <4>1
      <4>2. CASE g # h
        BY <1>5, <1>6, <3>4, <4>2
      <4> QED
        BY <4>1, <4>2
    <3>7. UNCHANGED waitVars
      BY <2>2 DEF HookLooksUp, Outside
    <3> QED
      BY <1>4, <1>5, <1>6, <2>1, <3>5, <3>6, <3>7 DEF waitVars
  <2>3. ASSUME NEW h \in Hooks, HookSends(h)
        PROVE  WaitTypes' /\ OnlyRegistered'
    <3>8. PICK w : w = hook[h].to
      OBVIOUS
    <3>1. PICK phase \in {"delivered", "refused"} :
             /\ w = hook[h].to /\ hook[h].phase = "send"
             /\ hook' = [hook EXCEPT ![h].phase = phase]
             /\ box' = [box EXCEPT ![w] = h] \/ box' = box
             /\ UNCHANGED <<regs, consumer, waiters, hand>>
      BY <2>3, <3>8 DEF HookSends, Send, Refuse, waitVars
    <3>2. w \in Waiters /\ Been(w)'
      BY <1>5, <3>1
    <3>3. box' \in [Waiters -> Boxes] /\ \A v \in Waiters : v = w \/ box'[v] = box[v]
      BY <1>6, <3>1 DEF Boxes
    <3>4. hook' \in [Hooks -> HookStates]
      BY <1>6, <3>1 DEF HookStates
    <3>5. \A g \in Hooks : /\ hook'[g].to = hook[g].to
                           /\ hook'[g].phase \in {"send", "delivered"} =>
                                  hook[g].phase \in {"send", "delivered"}
      BY <1>6, <3>1 DEF HookStates
    <3>6. \A v \in Waiters : box'[v] # Nothing => Been(v)'
      BY <1>5, <3>2, <3>3
    <3>7. \A v, g : g \in Hooks /\ hook'[g].phase \in {"send", "delivered"}
                    /\ v = hook'[g].to
              => v \in Waiters /\ Been(v)' /\ HookKey(v) = Addressed(g)
      BY <1>5, <3>5
    <3> QED
      BY <1>4, <1>5, <1>6, <2>1, <3>1, <3>3, <3>4, <3>6, <3>7
  <2>4. CASE ConsumerLoop
    <3>1. UNCHANGED hook
      BY <2>4 DEF ConsumerLoop
    <3>2. ASSUME NEW m \in Messages, TakeInHand(m)
          PROVE  WaitTypes' /\ OnlyRegistered'
      <4>1. /\ hand' = m /\ scn.messages[m] = WaitQueue
            /\ UNCHANGED <<box, regs, consumer, waiters>>
        BY <3>2 DEF TakeInHand, Receive, Queued
      <4> QED
        BY <1>1, <1>4, <1>5, <1>6, <2>1, <3>1, <4>1
    <3>3. ASSUME NEW wanting, Route(wanting)
          PROVE  WaitTypes' /\ OnlyRegistered'
      <4>1. hand # Nothing /\ hand' = Nothing /\ UNCHANGED <<regs, consumer>>
        BY <3>3 DEF Route
      <4>2. CASE UNCHANGED <<box, waiters>>
        BY <1>4, <1>5, <1>6, <2>1, <3>1, <4>1, <4>2
      <4>3. ASSUME NEW i \in 1..Len(waiters), RouteTo(waiters[i], hand)
            PROVE  WaitTypes' /\ OnlyRegistered'
        <5>1. PICK w \in Waiters : w = waiters[i]
          BY <1>6
        <5>2. Been(w)'
          BY <1>5, <5>1
        <5>3. box' = [box EXCEPT ![w] = hand] /\ waiters' = RemoveFirst(waiters, w)
          BY <4>3, <5>1 DEF RouteTo, Without
        <5>4. /\ waiters' \in Seq(Waiters)
              /\ \A n \in 1..Len(waiters') : \E j \in 1..Len(waiters) :
                    waiters'[n] = waiters[j]
          BY <1>6, <5>3, RemoveFacts
        <5>5. box' \in [Waiters -> Boxes] /\ \A v \in Waiters : v = w \/ box'[v] = box[v]
          BY <1>6, <5>3 DEF Boxes
        <5>6. \A v \in Waiters : box'[v] # Nothing => Been(v)'
          BY <1>5, <5>2, <5>5
        <5>7. \A v \in Waiters, n \in 1..Len(waiters') : v = waiters'[n] => Been(v)'
          BY <1>5, <5>4
        <5> QED
          BY <1>4, <1>5, <1>6, <2>1, <3>1, <4>1, <5>4, <5>5, <5>6, <5>7
      <4> DEFINE first == SelectInSeq(waiters, LAMBDA w : w \in wanting)
      <4>4. first # 0 => first \in 1..Len(waiters)
        <5> DEFINE A == {i \in 1..Len(waiters) : waiters[i] \in wanting}
        <5>1. first = IF A # {} THEN Min(A) ELSE 0
          BY DEF SelectInSeq
        <5>2. A \in SUBSET Nat /\ A \subseteq 1..Len(waiters)
          OBVIOUS
        <5> HIDE DEF A
        <5> QED
          BY <5>1, <5>2, SmallestNumber
      <4>5. \/ first # 0 /\ RouteTo(waiters[first], hand)
            \/ UNCHANGED <<box, waiters>>
        BY <3>3 DEF Route
      <4> HIDE DEF first
      <4> QED
        BY <4>2, <4>3, <4>4, <4>5
    <3> QED
      BY <2>4, <3>2, <3>3 DEF ConsumerLoop
  <2> QED
    BY <1>6, <1>14, <2>2, <2>3, <2>4 DEF Routing
<1> QED
  BY <1>7, <1>8, <1>9, <1>11, <1>12, <1>13, <1>14, WaitCases

-----------------------------------------------------------------------------
(* What waiters hold: it only grows, and by one message or webhook at a time *)

Items == DOMAIN scn.messages \cup Hooks

Holds(w, x) == x \in {box[w], got[w]}

HoldsThen(w, x) == x \in {box'[w], got'[w]}

\* Which webhooks have been delivered stays as it is, and to whom.
HooksKept ==
    \A h \in Hooks : /\ hook'[h].phase = "delivered" <=> hook[h].phase = "delivered"
                     /\ hook[h].phase = "delivered" => hook'[h].to = hook[h].to

HoldsKept == \A w \in Waiters, x \in Items : HoldsThen(w, x) <=> Holds(w, x)

\* The webhook, or the message, goes to the waiter and to no other.
HookBrought(h, w) ==
    /\ hook[h].phase = "send" /\ hook[h].to = w
    /\ hook' = [hook EXCEPT ![h].phase = "delivered"]
    /\ UNCHANGED <<hand, brokerVars>>
    /\ \A v \in Waiters, x \in Items :
          HoldsThen(v, x) <=> Holds(v, x) \/ (v = w /\ x = h)

MessageBrought(m, w) ==
    /\ m = hand /\ hand' = Nothing /\ Wants(w)
    /\ Ack(m, Wait)
    /\ UNCHANGED hook
    /\ \A v \in Waiters, x \in Items :
          HoldsThen(v, x) <=> Holds(v, x) \/ (v = w /\ x = m)

HoldMoves ==
    \/ HoldsKept /\ HooksKept
    \/ \E h \in Hooks, w \in Waiters : HookBrought(h, w)
    \/ \E m \in DOMAIN scn.messages, w \in Waiters : MessageBrought(m, w)

LEMMA ItemsApart ==
    ASSUME scn \in Scenarios
    PROVE  /\ Nothing \notin Items /\ Closed \notin Items
           /\ Hooks \cap DOMAIN scn.messages = {}
  BY ScenariosAssumption DEF Items, Hooks

LEMMA NextHolds ==
    ASSUME Steady, Queued, WaitTypes, OnlyRegistered, [Next]_vars
    PROVE  HoldMoves
<1>1. /\ DOMAIN at = DOMAIN scn.messages /\ Messages = DOMAIN scn.messages
      /\ scn \in Scenarios
  BY DEF Queued, Messages, Steady
<1>2. /\ Nothing \notin Items /\ Closed \notin Items
      /\ Hooks \cap DOMAIN scn.messages = {}
  BY <1>1, ItemsApart
<1>3. /\ box \in [Waiters -> Boxes] /\ got \in [Waiters -> Boxes \ {Closed}]
      /\ hook \in [Hooks -> HookStates] /\ waiters \in Seq(Waiters)
      /\ hand \in DOMAIN scn.messages \cup {Nothing}
  BY DEF WaitTypes
<1>4. ASSUME UNCHANGED <<box, got, hook>>
      PROVE  HoldMoves
  BY <1>4 DEF HoldMoves, HoldsKept, Holds, HoldsThen, HooksKept
<1>5. ASSUME NEW e \in Ids, NEW s \in Steps, RegisterStep(e, s)
      PROVE  HoldMoves
  <2>1. PICK w : w = Waiter(e, s)
    OBVIOUS
  <2>2. w \in Waiters
    BY <1>5, <2>1, WaiterIn DEF RegisterStep, Waits_
  <2>3. step[e][s].phase = "register" /\ step[e][s].attempt \in Nat
    BY <1>5 DEF RegisterStep, Waits_, Steady, StepOk, StepRecs
  <2>4. ~Been(w)
    BY <2>1, <2>3 DEF Been, Waiter, Registered
  <2>5. box[w] = Nothing
    BY <2>2, <2>4 DEF OnlyRegistered
  <2>6. UNCHANGED <<got, hook>> /\ (UNCHANGED box \/ box' = [box EXCEPT ![w] = Closed])
    BY <1>5, <2>1 DEF RegisterStep, RegisterHook, RegisterWait, StepOnly
  <2>7. CASE box' = [box EXCEPT ![w] = Closed]
    <3>1. \A v \in Waiters : box'[v] = box[v] \/ (box[v] = Nothing /\ box'[v] = Closed)
      BY <1>3, <2>5, <2>7
    <3> QED
      BY <1>2, <2>6, <3>1 DEF HoldMoves, HoldsKept, Holds, HoldsThen, HooksKept
  <2> QED
    BY <1>4, <2>6, <2>7
<1>6. ASSUME NEW e \in Ids, NEW s \in Steps, Taken(e, s)
      PROVE  HoldMoves
  <2>1. PICK w : w = Waiter(e, s)
    OBVIOUS
  <2>2. w \in Waiters
    BY <1>6, <2>1, WaiterIn DEF Taken, Waits_
  <2>3. step[e][s].phase = "select" /\ step[e][s].attempt \in Nat
    BY <1>6 DEF Taken, Waits_, Steady, StepOk, StepRecs
  <2>4. ~Took(w)
    BY <2>1, <2>3 DEF Took, Waiter, Left
  <2>5. got[w] = Nothing
    BY <2>2, <2>4 DEF OnlyRegistered
  <2>6. UNCHANGED hook
    BY <1>6 DEF Taken, StepOnly
  <2>7. CASE got' = [got EXCEPT ![w] = box[w]] /\ box' = [box EXCEPT ![w] = Nothing]
    <3>1. got'[w] = box[w] /\ box'[w] = Nothing
      BY <1>3, <2>2, <2>7
    <3>2. \A v \in Waiters : v # w => got'[v] = got[v] /\ box'[v] = box[v]
      BY <1>3, <2>7
    <3> QED
      BY <1>2, <2>5, <2>6, <3>1, <3>2
         DEF HoldMoves, HoldsKept, Holds, HoldsThen, HooksKept
  <2> QED
    BY <1>4, <1>6, <2>1, <2>6, <2>7 DEF Taken, Empty
<1>7. ASSUME NEW w \in Waiters, Cleanup(w), UNCHANGED <<got, hook>>
      PROVE  HoldMoves
  BY <1>4, <1>7, CleanupHeld
<1>8. ASSUME NEW e \in Ids, NEW s \in Steps, Leave(e, s)
      PROVE  HoldMoves
  <2>1. PICK w : w = Waiter(e, s)
    OBVIOUS
  <2>2. w \in Waiters
    BY <1>8, <2>1, WaiterIn DEF Leave, Waits_
  <2>3. Cleanup(w) /\ UNCHANGED <<got, hook, watch>>
    BY <1>8, <2>1 DEF Leave, StepOnly
  <2> QED
    BY <1>7, <2>2, <2>3
<1>9. ASSUME NEW w \in watch, LateCleanup(w)
      PROVE  HoldMoves
  <2>1. Cleanup(w) /\ UNCHANGED <<got, hook>> /\ w \in Waiters
    BY <1>9 DEF LateCleanup, entry, WaitTypes
  <2> QED
    BY <1>7, <2>1
<1>10. CASE CloseWaits /\ UNCHANGED <<step, got, watch, hook, trigger>>
  BY <1>4, <1>10 DEF CloseWaits
<1>11. CASE UNCHANGED <<waitVars, got, watch, hook>>
  BY <1>4, <1>11 DEF waitVars
<1>12. CASE Routing
  <2>1. UNCHANGED got
    BY <1>12, RoutingFrame
  <2>2. ASSUME NEW h \in Hooks, HookLooksUp(h)
        PROVE  HoldMoves
    <3>0. PICK w : w = regs[Addressed(h)]
      OBVIOUS
    <3>1. PICK phase \in {"refused", "send"} :
             hook' = [hook EXCEPT ![h] = [phase |-> phase, to |-> w]]
      BY <2>2, <3>0 DEF HookLooksUp, Addressed
    <3>2. hook[h].phase = "new" /\ UNCHANGED box
      BY <2>2 DEF HookLooksUp, Outside, waitVars
    <3>3. \A g \in Hooks : hook'[g] = IF g = h THEN [phase |-> phase, to |-> w] ELSE hook[g]
      BY <1>3, <3>1
    <3>4. HooksKept
      BY <3>2, <3>3 DEF HooksKept
    <3> QED
      BY <2>1, <3>2, <3>4 DEF HoldMoves, HoldsKept, Holds, HoldsThen
  <2>3. ASSUME NEW h \in Hooks, HookSends(h)
        PROVE  HoldMoves
    <3>1. PICK w : w = hook[h].to
      OBVIOUS
    <3>2. w \in Waiters /\ hook[h].phase = "send"
      BY <2>3, <3>1 DEF HookSends, OnlyRegistered
    <3>3. CASE Send(w, h) /\ hook' = [hook EXCEPT ![h].phase = "delivered"]
      <4>1. /\ box[w] = Nothing /\ box' = [box EXCEPT ![w] = h]
            /\ UNCHANGED <<hand, brokerVars>>
        BY <3>3 DEF Send, BoxFree
      <4>2. \A v \in Waiters : box'[v] = IF v = w THEN h ELSE box[v]
        BY <1>3, <4>1
      <4>3. \A v \in Waiters, x \in Items :
                HoldsThen(v, x) <=> Holds(v, x) \/ (v = w /\ x = h)
        BY <1>2, <2>1, <4>1, <4>2 DEF Holds, HoldsThen
      <4> QED
        BY <3>1, <3>2, <3>3, <4>1, <4>3 DEF HoldMoves, HookBrought
    <3>4. CASE Refuse(w) /\ hook' = [hook EXCEPT ![h].phase = "refused"]
      <4>1. HooksKept
        BY <1>3, <3>2, <3>4 DEF HooksKept, HookStates
      <4>2. UNCHANGED box
        BY <3>4 DEF Refuse, waitVars
      <4> QED
        BY <2>1, <4>1, <4>2 DEF HoldMoves, HoldsKept, Holds, HoldsThen
    <3> QED
      BY <2>3, <3>1, <3>3, <3>4 DEF HookSends
  <2>4. CASE ConsumerLoop
    <3>1. UNCHANGED hook
      BY <2>4 DEF ConsumerLoop
    <3>2. CASE \E m \in Messages : TakeInHand(m)
      BY <1>4, <2>1, <3>1, <3>2 DEF TakeInHand
    <3>3. CASE Route({w \in ToSet(waiters) : Wants(w)})
      <4> DEFINE wanting == {w \in ToSet(waiters) : Wants(w)}
                 first == SelectInSeq(waiters, LAMBDA w : w \in wanting)
                 A == {i \in 1..Len(waiters) : waiters[i] \in wanting}
      <4>1. first = IF A # {} THEN Min(A) ELSE 0
        BY DEF SelectInSeq
      <4>2. /\ hand # Nothing /\ hand' = Nothing
            /\ \/ UNCHANGED box
               \/ first # 0 /\ BoxFree(waiters[first]) /\ RouteTo(waiters[first], hand)
        BY <3>3 DEF Route
      <4>3. A \in SUBSET Nat
        OBVIOUS
      <4>4. \A i \in A : waiters[i] \in Waiters /\ Wants(waiters[i])
        BY <1>3
      <4> HIDE DEF first, A, wanting
      <4>5. CASE UNCHANGED box
        BY <1>4, <2>1, <3>1, <4>5
      <4>6. CASE first # 0 /\ BoxFree(waiters[first]) /\ RouteTo(waiters[first], hand)
        <5>1. first \in A
          BY <4>1, <4>3, <4>6, SmallestNumber
        <5>2. PICK w \in Waiters : w = waiters[first] /\ Wants(w)
          BY <4>4, <5>1
        <5>3. PICK m \in DOMAIN scn.messages : m = hand
          BY <1>3, <4>2
        <5>4. box[w] = Nothing /\ box' = [box EXCEPT ![w] = m] /\ Ack(m, Wait)
          BY <4>6, <5>2, <5>3 DEF BoxFree, RouteTo
        <5>5. \A v \in Waiters : box'[v] = IF v = w THEN m ELSE box[v]
          BY <1>3, <5>4
        <5>6. \A v \in Waiters, x \in Items :
                  HoldsThen(v, x) <=> Holds(v, x) \/ (v = w /\ x = m)
          BY <1>2, <2>1, <5>4, <5>5 DEF Holds, HoldsThen
        <5> QED
          BY <3>1, <4>2, <5>2, <5>3, <5>4, <5>6 DEF HoldMoves, MessageBrought
      <4> QED
        BY <4>2, <4>5, <4>6
    <3> QED
      BY <2>4, <3>2, <3>3 DEF ConsumerLoop
  <2> QED
    BY <1>3, <1>12, <2>2, <2>3, <2>4 DEF Routing
<1> QED
  BY <1>5, <1>6, <1>8, <1>9, <1>10, <1>11, <1>12, WaitCases

-----------------------------------------------------------------------------
(* A message is taken once, and once more for each time it went back *)

Bit(b) == IF b THEN 1 ELSE 0

\* How many waiters may hold message m: one for each time it went back to its
\* queue, one more once it is acknowledged, and one less while what is in hand
\* is no longer the broker's to acknowledge.
Balance(m) == lost[m] + Bit(at[m] = "acked") - Bit(hand = m /\ at[m] # "unacked")

LEMMA BitFacts == ASSUME NEW b \in BOOLEAN PROVE Bit(b) \in {0, 1} /\ (Bit(b) = 1 <=> b)
  BY DEF Bit

LEMMA BalanceIn ==
    ASSUME Queued, NEW m \in DOMAIN scn.messages
    PROVE  Balance(m) \in Int /\ Balance(m) <= 1 + lost[m]
<1>1. lost[m] \in Nat
  BY DEF Queued
<1> QED
  BY <1>1 DEF Balance, Bit

LEMMA InHand ==
    ASSUME Queued, WaitTypes, scn \in Scenarios, NEW m \in DOMAIN scn.messages,
           hand = m, at[m] = "unacked"
    PROVE  holder[m] = Wait
<1>1. hand # Nothing /\ scn.messages[m] = WaitQueue
  BY ItemsApart DEF Items, WaitTypes
<1> QED
  BY <1>1 DEF Queued, WaitQueue, TriggerQueue

LEMMA SettledFacts ==
    ASSUME Queued, NEW m \in DOMAIN scn.messages, NEW n, NEW ch, NEW st,
           Settled(n, ch, st)
    PROVE  /\ UNCHANGED lost
           /\ at'[m] = IF m = n /\ at[m] = "unacked" /\ holder[m] = ch THEN st ELSE at[m]
<1>1. Messages = DOMAIN scn.messages /\ at \in [DOMAIN scn.messages -> States]
  BY DEF Queued, Messages
<1> QED
  BY <1>1 DEF Settled, Unacked

LEMMA NextBalance ==
    ASSUME Queued, WaitTypes, scn \in Scenarios, [Next]_vars,
           NEW m \in DOMAIN scn.messages
    PROVE  Balance(m)' >= Balance(m)
<1>1. /\ Messages = DOMAIN scn.messages
      /\ at \in [DOMAIN scn.messages -> States] /\ lost \in [DOMAIN scn.messages -> Nat]
      /\ lost[m] \in Nat /\ m # Nothing
  BY ItemsApart DEF Queued, Messages, Items
<1>2. CASE UNCHANGED hand /\ UNCHANGED brokerVars
  BY <1>1, <1>2 DEF brokerVars, Balance, Bit
<1>3. ASSUME NEW n \in Messages, Arrive(n), UNCHANGED hand
      PROVE  Balance(m)' >= Balance(m)
  <2>1. /\ at'[m] = at[m] \/ (at[m] = "absent" /\ at'[m] = "queued")
        /\ lost' = lost
    BY <1>1, <1>3 DEF Arrive
  <2> QED
    BY <1>1, <1>3, <2>1 DEF Balance, Bit
<1>4. ASSUME NEW ch, OpenChannel(ch), UNCHANGED hand
      PROVE  Balance(m)' >= Balance(m)
  BY <1>1, <1>4 DEF OpenChannel, Balance, Bit
<1>5. ASSUME NEW ch, CloseChannel(ch),
             UNCHANGED hand \/ (hand' = Nothing /\ ch = Wait)
      PROVE  Balance(m)' >= Balance(m)
  <2>1. CASE m \in Unacked(ch)
    <3>1. at[m] = "unacked" /\ at'[m] = "queued" /\ lost'[m] = lost[m] + 1
      BY <1>1, <1>5, <2>1 DEF CloseChannel, Unacked
    <3> QED
      BY <1>1, <3>1 DEF Balance, Bit
  <2>2. CASE m \notin Unacked(ch)
    <3>1. at'[m] = at[m] /\ lost'[m] = lost[m]
      BY <1>1, <1>5, <2>2 DEF CloseChannel
    <3> QED
      BY <1>1, <1>5, <3>1 DEF Balance, Bit
  <2> QED
    BY <2>1, <2>2
<1>6. ASSUME NEW n \in Messages, NEW queue, NEW ch, NEW prefetch,
             Receive(n, queue, ch, prefetch),
             UNCHANGED hand \/ (hand = Nothing /\ hand' = n)
      PROVE  Balance(m)' >= Balance(m)
  <2>1. /\ lost' = lost
        /\ \/ at'[m] = at[m] /\ m # n
           \/ at[m] = "queued" /\ at'[m] = "unacked"
    BY <1>1, <1>6 DEF Receive
  <2> QED
    BY <1>1, <1>6, <2>1 DEF Balance, Bit
<1>7. ASSUME NEW n, NEW ch \in {Trigger, Shovel}, NEW st \in {"acked", "queued"},
             Settled(n, ch, st), UNCHANGED hand
      PROVE  Balance(m)' >= Balance(m)
  <2>1. /\ UNCHANGED lost
        /\ at'[m] = IF m = n /\ at[m] = "unacked" /\ holder[m] = ch THEN st ELSE at[m]
    BY <1>7, SettledFacts
  <2>2. CASE at'[m] = at[m]
    BY <1>1, <1>7, <2>1, <2>2 DEF Balance, Bit
  <2>3. CASE at[m] = "unacked" /\ at'[m] \in {"acked", "queued"} /\ hand # m
    BY <1>1, <1>7, <2>1, <2>3 DEF Balance, Bit
  <2>4. at[m] = "unacked" /\ hand = m => holder[m] # ch
    BY InHand DEF Wait, Trigger, Shovel
  <2> QED
    BY <2>1, <2>2, <2>3, <2>4
<1>8. ASSUME NEW wanting, Route(wanting)
      PROVE  Balance(m)' >= Balance(m)
  <2>1. PICK st \in {"acked", "queued"} : Settled(hand, Wait, st)
    BY <1>8 DEF Route, RouteTo, Ack, Nack
  <2>2. /\ UNCHANGED lost
        /\ at'[m] = IF m = hand /\ at[m] = "unacked" /\ holder[m] = Wait THEN st ELSE at[m]
    BY <2>1, SettledFacts
  <2>3. hand' = Nothing
    BY <1>8 DEF Route
  <2>4. CASE at'[m] = at[m]
    BY <1>1, <2>2, <2>3, <2>4 DEF Balance, Bit
  <2>5. CASE at[m] = "unacked" /\ at'[m] \in {"acked", "queued"}
    BY <1>1, <2>2, <2>3, <2>5 DEF Balance, Bit
  <2> QED
    BY <2>2, <2>4, <2>5
<1>9. CASE \E n \in Messages : TakeInHand(n)
  BY <1>6, <1>9 DEF TakeInHand
<1> QED
  BY <1>2, <1>3, <1>4, <1>5, <1>6, <1>7, <1>8, <1>9, NextBrokerMoves
     DEF BrokerMoves, Ack, Nack

\* The channel of a waiter gets what was the broker's to acknowledge, or what
\* the broker has taken back.
LEMMA BroughtBalance ==
    ASSUME Queued, WaitTypes, scn \in Scenarios,
           NEW m \in DOMAIN scn.messages, NEW w, MessageBrought(m, w)
    PROVE  Balance(m)' >= Balance(m) + 1
<1>1. /\ at \in [DOMAIN scn.messages -> States] /\ lost[m] \in Nat /\ m # Nothing
      /\ hand = m /\ hand' = Nothing
  BY ItemsApart DEF Queued, Items, MessageBrought
<1>2. /\ UNCHANGED lost
      /\ at'[m] = IF at[m] = "unacked" /\ holder[m] = Wait THEN "acked" ELSE at[m]
  BY SettledFacts DEF MessageBrought, Ack
<1>3. CASE at[m] = "unacked"
  <2>1. at'[m] = "acked"
    BY <1>1, <1>2, <1>3, InHand
  <2> QED
    BY <1>1, <1>2, <1>3, <2>1 DEF Balance, Bit
<1>4. CASE at[m] # "unacked"
  BY <1>1, <1>2, <1>4 DEF Balance, Bit
<1> QED
  BY <1>3, <1>4

LEMMA WaitersFinite == ASSUME scn \in Scenarios PROVE IsFiniteSet(Waiters)
<1> DEFINE Tries(s) == 1..scn.steps[s].attempts
           Nested(s) == Ids \X ({s} \X Tries(s))
           Of(s) == Ids \X {s} \X Tries(s)
           All == {Of(s) : s \in Steps}
<1>1. ASSUME NEW s \in Steps PROVE IsFiniteSet(Of(s))
  <2>4. MaxIds \in Int /\ scn.steps[s].attempts \in Int
    BY IdsAssumption, AttemptsPositive
  <2>5. IsFiniteSet(Ids)
    BY <2>4, FS_Interval DEF Ids
  <2>6. IsFiniteSet({s})
    BY FS_Singleton
  <2>7. IsFiniteSet(Tries(s))
    BY <2>4, FS_Interval
  <2>1. IsFiniteSet({s} \X Tries(s))
    BY <2>6, <2>7, FS_Product
  <2>2. IsFiniteSet(Nested(s))
    BY <2>1, <2>5, FS_Product
  <2>3. [p \in Nested(s) |-> <<p[1], p[2][1], p[2][2]>>] \in Surjection(Nested(s), Of(s))
    <3> DEFINE f == [p \in Nested(s) |-> <<p[1], p[2][1], p[2][2]>>]
    <3>1. f \in [Nested(s) -> Of(s)]
      OBVIOUS
    <3>2. ASSUME NEW w \in Of(s) PROVE \E p \in Nested(s) : f[p] = w
      <4>1. PICK e \in Ids, i \in Tries(s) : w = <<e, s, i>>
        OBVIOUS
      <4>2. <<e, <<s, i>>>> \in Nested(s) /\ f[<<e, <<s, i>>>>] = w
        BY <4>1
      <4> QED
        BY <4>2
    <3> QED
      BY <3>1, <3>2 DEF Surjection
  <2> QED
    BY <2>2, <2>3, FS_Surjection
<1>2. IsFiniteSet(All)
  <2>1. IsFiniteSet(Steps)
    BY ScenariosAssumption DEF Steps
  <2>2. [s \in Steps |-> Of(s)] \in Surjection(Steps, All)
    BY DEF Surjection
  <2> QED
    BY <2>1, <2>2, FS_Surjection
<1>3. \A T \in All : IsFiniteSet(T)
  BY <1>1
<1> QED
  BY <1>2, <1>3, FS_UNION DEF Waiters

Holders(x) == {w \in Waiters : Holds(w, x)}

Counted ==
    /\ \A m \in DOMAIN scn.messages : Cardinality(Holders(m)) <= Balance(m)
    /\ \A m \in DOMAIN scn.messages : \A w \in Waiters : Holds(w, m) => Matches(w, m)
    /\ \A h \in Hooks :
          Holders(h) = IF hook[h].phase = "delivered" THEN {hook[h].to} ELSE {}

LEMMA NextCounted ==
    Steady /\ Queued /\ WaitTypes /\ OnlyRegistered /\ Counted /\ [Next]_vars => Counted'
<1> SUFFICES ASSUME Steady, Queued, WaitTypes, OnlyRegistered, Counted, [Next]_vars
             PROVE  Counted'
  OBVIOUS
<1>1. scn' = scn /\ scn \in Scenarios /\ Waiters' = Waiters /\ Hooks' = Hooks
  BY ScnSame, WaitsSame DEF Steady
<1>2. /\ hook \in [Hooks -> HookStates] /\ Hooks \cap DOMAIN scn.messages = {}
      /\ \A m \in DOMAIN scn.messages : m \in Items
      /\ \A h \in Hooks : h \in Items
  BY <1>1, ItemsApart DEF WaitTypes, Items
<1>3. ASSUME NEW x PROVE Holders(x)' = {w \in Waiters : HoldsThen(w, x)}
  BY <1>1 DEF Holders, Holds, HoldsThen
<1>4. ASSUME NEW x \in Items, \A w \in Waiters : HoldsThen(w, x) <=> Holds(w, x)
      PROVE  Holders(x)' = Holders(x)
  BY <1>3, <1>4 DEF Holders
<1>5. ASSUME NEW m \in DOMAIN scn.messages, Holders(m)' = Holders(m)
      PROVE  Cardinality(Holders(m)') <= Balance(m)'
  <2>1. Balance(m)' >= Balance(m) /\ Balance(m) \in Int /\ Balance(m)' \in Int
    <3>1. Balance(m) \in Int
      BY BalanceIn
    <3>2. Queued'
      BY NextQueued
    <3>3. Balance(m)' \in Int
      BY <1>1, <3>2 DEF Queued, Balance, Bit
    <3> QED
      BY <1>1, <3>1, <3>3, NextBalance
  <2>2. Cardinality(Holders(m)) <= Balance(m) /\ Cardinality(Holders(m)) \in Nat
    BY <1>1, WaitersFinite, FS_Subset, FS_CardinalityType DEF Counted, Holders
  <2> QED
    BY <1>5, <2>1, <2>2
<1>6. \A w \in Waiters, m \in DOMAIN scn.messages : Matches(w, m)' <=> Matches(w, m)
  BY <1>1 DEF Matches
<1>7. CASE HoldsKept /\ HooksKept
  <2>1. \A x \in Items : Holders(x)' = Holders(x)
    BY <1>4, <1>7 DEF HoldsKept
  <2>2. \A m \in DOMAIN scn.messages : Cardinality(Holders(m)') <= Balance(m)'
    BY <1>2, <1>5, <2>1
  <2>3. \A m \in DOMAIN scn.messages : \A w \in Waiters : HoldsThen(w, m) => Matches(w, m)'
    BY <1>2, <1>6, <1>7 DEF HoldsKept, Counted
  <2>4. \A h \in Hooks :
           Holders(h)' = IF hook'[h].phase = "delivered" THEN {hook'[h].to} ELSE {}
    BY <1>2, <1>7, <2>1 DEF HooksKept, Counted
  <2> QED
    BY <1>1, <2>2, <2>3, <2>4 DEF Counted, Holds, HoldsThen
<1>8. ASSUME NEW g \in Hooks, NEW v \in Waiters, HookBrought(g, v)
      PROVE  Counted'
  <2>1. \A x \in Items \ {g} : Holders(x)' = Holders(x)
    BY <1>4, <1>8 DEF HookBrought
  <2>2. Holders(g)' = {v}
    <3>1. \A w \in Waiters : HoldsThen(w, g) <=> Holds(w, g) \/ w = v
      BY <1>2, <1>8 DEF HookBrought
    <3>2. Holders(g) = {}
      BY <1>8 DEF HookBrought, Counted
    <3> QED
      BY <1>3, <3>1, <3>2 DEF Holders
  <2>3. \A m \in DOMAIN scn.messages : Holders(m)' = Holders(m)
    BY <1>2, <2>1
  <2>4. \A m \in DOMAIN scn.messages : Cardinality(Holders(m)') <= Balance(m)'
    BY <1>5, <2>3
  <2>5. \A m \in DOMAIN scn.messages : \A w \in Waiters : HoldsThen(w, m) => Matches(w, m)'
    <3> SUFFICES ASSUME NEW m \in DOMAIN scn.messages, NEW w \in Waiters, HoldsThen(w, m)
                 PROVE  Matches(w, m)'
      OBVIOUS
    <3>1. Holds(w, m)
      BY <1>2, <1>8 DEF HookBrought
    <3> QED
      BY <1>6, <3>1 DEF Counted
  <2>6. \A h \in Hooks :
           Holders(h)' = IF hook'[h].phase = "delivered" THEN {hook'[h].to} ELSE {}
    <3> SUFFICES ASSUME NEW h \in Hooks
                 PROVE  Holders(h)' = IF hook'[h].phase = "delivered"
                                      THEN {hook'[h].to} ELSE {}
      OBVIOUS
    <3>1. hook' = [hook EXCEPT ![g].phase = "delivered"] /\ hook[g].to = v
      BY <1>8 DEF HookBrought
    <3>2. CASE h = g
      BY <1>2, <2>2, <3>1, <3>2 DEF HookStates
    <3>3. CASE h # g
      <4>1. hook'[h] = hook[h] /\ Holders(h)' = Holders(h)
        BY <1>2, <2>1, <3>1, <3>3
      <4> QED
        BY <4>1 DEF Counted
    <3> QED
      BY <3>2, <3>3
  <2> QED
    BY <1>1, <2>4, <2>5, <2>6 DEF Counted, Holds, HoldsThen
<1>9. ASSUME NEW n \in DOMAIN scn.messages, NEW v \in Waiters, MessageBrought(n, v)
      PROVE  Counted'
  <2>1. \A x \in Items \ {n} : Holders(x)' = Holders(x)
    BY <1>4, <1>9 DEF MessageBrought
  <2>2. Holders(n)' = Holders(n) \cup {v}
    <3>1. \A w \in Waiters : HoldsThen(w, n) <=> Holds(w, n) \/ w = v
      BY <1>2, <1>9 DEF MessageBrought
    <3> QED
      BY <1>3, <3>1 DEF Holders
  <2>3. Cardinality(Holders(n)') <= Balance(n)'
    <3>1. IsFiniteSet(Holders(n))
      BY <1>1, WaitersFinite, FS_Subset DEF Holders
    <3>2. /\ Cardinality(Holders(n)) \in Nat
          /\ Cardinality(Holders(n) \cup {v}) <= Cardinality(Holders(n)) + 1
          /\ Cardinality(Holders(n) \cup {v}) \in Nat
      <4>1. Cardinality(Holders(n)) \in Nat
        BY <3>1, FS_CardinalityType
      <4>2. Cardinality(Holders(n) \cup {v})
                = IF v \in Holders(n) THEN Cardinality(Holders(n))
                  ELSE Cardinality(Holders(n)) + 1
        BY <3>1, FS_AddElement
      <4> QED
        BY <4>1, <4>2
    <3>3. Balance(n)' >= Balance(n) + 1 /\ Balance(n) \in Int
      BY <1>1, <1>9, BroughtBalance, BalanceIn
    <3>4. Balance(n)' \in Int
      BY <1>1, NextQueued DEF Queued, Balance, Bit
    <3>5. Cardinality(Holders(n)) <= Balance(n)
      BY DEF Counted
    <3> QED
      BY <2>2, <3>2, <3>3, <3>4, <3>5
  <2>4. \A m \in DOMAIN scn.messages : Cardinality(Holders(m)') <= Balance(m)'
    <3> SUFFICES ASSUME NEW m \in DOMAIN scn.messages
                 PROVE  Cardinality(Holders(m)') <= Balance(m)'
      OBVIOUS
    <3>1. CASE m = n
      BY <2>3, <3>1
    <3>2. CASE m # n
      BY <1>2, <1>5, <2>1, <3>2
    <3> QED
      BY <3>1, <3>2
  <2>5. \A m \in DOMAIN scn.messages : \A w \in Waiters : HoldsThen(w, m) => Matches(w, m)'
    <3> SUFFICES ASSUME NEW m \in DOMAIN scn.messages, NEW w \in Waiters, HoldsThen(w, m)
                 PROVE  Matches(w, m)
      BY <1>6
    <3>1. CASE Holds(w, m)
      BY <3>1 DEF Counted
    <3>2. CASE w = v /\ m = n
      BY <1>9, <3>2 DEF MessageBrought, Wants
    <3> QED
      BY <1>2, <1>9, <3>1, <3>2 DEF MessageBrought
  <2>6. \A h \in Hooks :
           Holders(h)' = IF hook'[h].phase = "delivered" THEN {hook'[h].to} ELSE {}
    <3>1. \A h \in Hooks : Holders(h)' = Holders(h)
      BY <1>2, <2>1
    <3> QED
      BY <1>9, <3>1 DEF MessageBrought, Counted
  <2> QED
    BY <1>1, <2>4, <2>5, <2>6 DEF Counted, Holds, HoldsThen
<1> QED
  BY <1>7, <1>8, <1>9, NextHolds DEF HoldMoves

-----------------------------------------------------------------------------
(* A message leaves the broker for a reason *)

\* The shovel acknowledges what it has published.
Copied ==
    /\ copies \in [DOMAIN scn.messages -> Nat]
    /\ \A e \in Ids, s \in Steps :
          step[e][s].phase = "ack" => copies[step[e][s].msg] > 0

LEMMA OnlyShovelAcks ==
    ASSUME Steady, NEW e \in Ids, NEW s \in Steps, Stepping(e, s) \/ StepTimeout(e, s)
    PROVE  \/ ShovelPublish(e, s)
           \/ step'[e][s].phase # "ack" /\ UNCHANGED copies
<1>1. step \in [Ids -> [Steps -> StepRecs]]
  BY DEF Steady
<1>2. ASSUME NEW ok, Attempted(e, s, ok) PROVE step'[e][s].phase # "ack"
  BY <1>1, <1>2 DEF Attempted, GoTo, StepRecs
<1>3. CASE StartStep(e, s)
  <2>1. step'[e][s].phase = First(s) /\ UNCHANGED copies
    BY <1>1, <1>3 DEF StartStep, NewStep
  <2> QED
    BY <2>1 DEF First
<1>4. CASE RetryCancelled(e, s) \/ EmitWaiting(e, s) \/ RegisterStep(e, s)
  <2>1. PICK phase \in {"done", "select", "emit"} :
            step' = [step EXCEPT ![e][s].phase = phase] /\ UNCHANGED copies
    BY <1>4 DEF RetryCancelled, EmitWaiting, RegisterStep, GoTo
  <2> QED
    BY <1>1, <2>1 DEF StepRecs
<1>5. CASE Taken(e, s) \/ GivesUp(e, s)
  BY <1>1, <1>5 DEF Taken, GivesUp, StepRecs
<1>6. CASE StepTimeout(e, s)
  <2>1. step'[e][s].phase = step[e][s].phase /\ step[e][s].phase = "select"
    BY <1>1, <1>6 DEF StepTimeout, Waits_, StepRecs
  <2> QED
    BY <1>6, <2>1 DEF StepTimeout
<1>7. CASE Schedule(e, s) \/ Leave(e, s)
  BY <1>2, <1>7 DEF Schedule, Leave
<1>8. ASSUME NEW ok, Act(e, s, ok)
      PROVE  step'[e][s].phase # "ack" /\ UNCHANGED copies
  BY <1>1, <1>8 DEF Act, StepRecs
<1>9. CASE ShovelOpen(e, s) \/ ShovelEnds(e, s)
  <2>1. ASSUME GoTo(e, s, "get") PROVE step'[e][s].phase # "ack"
    BY <1>1, <2>1 DEF GoTo, StepRecs
  <2> QED
    BY <1>2, <1>9, <2>1 DEF ShovelOpen, ShovelEnds
<1>10. CASE ShovelGet(e, s) \/ ShovelSettles(e, s)
  BY <1>1, <1>10 DEF ShovelGet, ShovelSettles, StepRecs
<1> QED
  BY <1>3, <1>4, <1>5, <1>6, <1>7, <1>8, <1>9, <1>10 DEF Stepping

LEMMA NextCopied ==
    ASSUME Steady, Copied, DOMAIN at = DOMAIN scn.messages, [Next]_vars
    PROVE  /\ Copied'
           /\ \A m \in DOMAIN scn.messages : copies'[m] >= copies[m]
<1>1. scn' = scn /\ Steps' = Steps
  BY ScnSame DEF Steps
<1>2. /\ step \in [Ids -> [Steps -> StepRecs]] /\ copies \in [DOMAIN scn.messages -> Nat]
      /\ \A e \in Ids, s \in Steps : StepOk(s, step[e][s])
  BY DEF Steady, Copied
<1>3. CASE UNCHANGED <<step, copies>>
  BY <1>1, <1>2, <1>3 DEF Copied
<1>4. ASSUME NEW e \in Ids, NEW s \in Steps, Stepping(e, s) \/ StepTimeout(e, s)
      PROVE  Copied' /\ \A m \in DOMAIN scn.messages : copies'[m] >= copies[m]
  <2>1. PICK st : Becomes(e, s, st)
    BY <1>4, SteppingBecomes
  <2>2. \A f \in Ids, u \in Steps : f # e \/ u # s => step'[f][u] = step[f][u]
    BY <1>2, <2>1 DEF Becomes
  <2>3. CASE step'[e][s].phase # "ack" /\ UNCHANGED copies
    <3>1. \A f \in Ids, u \in Steps :
             step'[f][u].phase = "ack" => copies'[step'[f][u].msg] > 0
      BY <2>2, <2>3 DEF Copied
    <3> QED
      BY <1>1, <1>2, <2>3, <3>1 DEF Copied
  <2>4. CASE ShovelPublish(e, s)
    <3>1. PICK n \in {0, 1}, phase \in {"ack", "nack"} :
             /\ copies' = [copies EXCEPT ![step[e][s].msg] = @ + n]
             /\ step' = [step EXCEPT ![e][s].phase = phase]
             /\ phase = "ack" => n = 1
      <4>1. PICK stored \in BOOLEAN, confirmed \in BOOLEAN :
               /\ confirmed => stored
               /\ copies' = [copies EXCEPT ![step[e][s].msg] =
                                @ + (IF stored THEN 1 ELSE 0)]
               /\ GoTo(e, s, IF confirmed THEN "ack" ELSE "nack")
        BY <2>4 DEF ShovelPublish
      <4>2. CASE confirmed
        BY <4>1, <4>2 DEF GoTo
      <4>3. CASE ~confirmed
        BY <4>1, <4>3 DEF GoTo
      <4> QED
        BY <4>2, <4>3
    <3>2. PICK x \in DOMAIN scn.messages : x = step[e][s].msg
      BY <1>2, <2>4 DEF ShovelPublish, Shovels, StepOk
    <3>3. /\ copies' \in [DOMAIN scn.messages -> Nat] /\ copies'[x] = copies[x] + n
          /\ \A m \in DOMAIN scn.messages : m # x => copies'[m] = copies[m]
      BY <1>2, <3>1, <3>2
    <3>4. \A m \in DOMAIN scn.messages : copies'[m] >= copies[m]
      <4> SUFFICES ASSUME NEW m \in DOMAIN scn.messages PROVE copies'[m] >= copies[m]
        OBVIOUS
      <4>1. copies[m] \in Nat /\ n \in Nat
        BY <1>2
      <4> QED
        BY <3>3, <4>1
    <3>5. step'[e][s].phase = phase /\ step'[e][s].msg = x
      BY <1>2, <3>1, <3>2 DEF StepRecs
    <3>6. \A f \in Ids, u \in Steps :
             step'[f][u].phase = "ack" => copies'[step'[f][u].msg] > 0
      <4> SUFFICES ASSUME NEW f \in Ids, NEW u \in Steps, step'[f][u].phase = "ack"
                   PROVE  copies'[step'[f][u].msg] > 0
        OBVIOUS
      <4>1. CASE f = e /\ u = s
        <5>1. n = 1 /\ copies[x] \in Nat
          BY <1>2, <3>1, <3>5, <4>1
        <5> QED
          BY <3>3, <3>5, <4>1, <5>1
      <4>2. CASE ~(f = e /\ u = s)
        <5>1. step'[f][u] = step[f][u]
          BY <2>2, <4>2
        <5>2. PICK y \in DOMAIN scn.messages : y = step[f][u].msg
          BY <1>2, <5>1 DEF StepOk
        <5>3. copies[y] > 0 /\ copies[y] \in Nat /\ copies'[y] >= copies[y]
              /\ copies'[y] \in Nat
          BY <1>2, <3>3, <3>4, <5>1, <5>2 DEF Copied
        <5> QED
          BY <5>1, <5>2, <5>3
      <4> QED
        BY <4>1, <4>2
    <3> QED
      BY <1>1, <3>3, <3>4, <3>6 DEF Copied
  <2> QED
    BY <1>4, <2>3, <2>4, OnlyShovelAcks
<1>5. \/ \E e \in Ids, s \in Steps : Stepping(e, s) \/ StepTimeout(e, s)
      \/ UNCHANGED <<step, copies>>
  BY NextCases, RequestingFrame, EndingFrame, RoutingFrame, ConsumingFrame,
     TickingFrame, OtherFrame DEF vars, runVars, entry, Ticking, Tick, TimerFires
<1> QED
  BY <1>3, <1>4, <1>5


\* Why message m is no longer in its queue.
Reason(m) ==
    IF queueOf[m] = WaitQueue THEN \E w \in Waiters : Holds(w, m)
    ELSE \/ copies[m] > 0
         \/ ~scn.ackOnSuccess /\ m = trigger
         \/ \E e \in Ids : /\ exec[e].src = m
                           /\ scn.ackOnSuccess => exec[e].outcome = "success"

Reasoned == \A m \in DOMAIN scn.messages : at[m] = "acked" => Reason(m)

\* The loop of the trigger lets go of a message only for an execution.
LEMMA TriggerKept ==
    ASSUME Numbered, Launched, Queued, [Next]_vars,
           NEW m \in DOMAIN scn.messages, m = trigger
    PROVE  m = trigger' \/ \E e \in Ids : exec'[e].src = m
<1>1. CASE Consuming
  <2>1. CASE OnMessage
    <3>1. Fresh(nextId) /\ Launch(nextId, m)
      BY <2>1 DEF OnMessage
    <3>2. nextId \in Ids
      BY <3>1, ScenariosAssumption, IdsAssumption DEF Fresh, Launched, Ids
    <3>3. exec'[nextId].src = m
      BY <3>1, <3>2 DEF Launch, Launched, Execs
    <3> QED
      BY <3>2, <3>3
  <2>2. CASE (\E n \in Messages : Consume(n)) \/ ConsumeEnds
    BY <2>2, ItemsApart DEF Consume, ConsumeEnds, Launched, Items
  <2>3. CASE Acknowledge
    BY <2>3 DEF Acknowledge
  <2> QED
    BY <1>1, <2>1, <2>2, <2>3 DEF Consuming
<1> QED
  BY <1>1, NextCases, RequestingFrame, SteppingFrame, EndingFrame, RoutingFrame,
     TickingFrame, OtherFrame DEF vars, entry

LEMMA ReasonStays ==
    ASSUME Numbered, Keyed, Launched, Steady, Queued, WaitTypes, OnlyRegistered, Copied,
           [Next]_vars, NEW m \in DOMAIN scn.messages, Reason(m)
    PROVE  Reason(m)'
<1>1. /\ scn' = scn /\ queueOf' = queueOf /\ Waiters' = Waiters /\ Ids' = Ids
      /\ DOMAIN at = DOMAIN scn.messages
  BY ScnSame, WaitsSame, NextQueued DEF Queued, Ids
<1>2. CASE queueOf[m] = WaitQueue
  <2>1. PICK w \in Waiters : Holds(w, m)
    BY <1>2 DEF Reason
  <2>2. m \in Items
    BY DEF Items
  <2>3. HoldsThen(w, m)
    BY <2>1, <2>2, NextHolds DEF HoldMoves, HoldsKept, HookBrought, MessageBrought
  <2> QED
    BY <1>1, <1>2, <2>3 DEF Reason, HoldsThen, Holds
<1>3. CASE queueOf[m] # WaitQueue
  <2>1. CASE copies[m] > 0
    <3>1. copies'[m] >= copies[m] /\ copies[m] \in Nat /\ copies'[m] \in Nat
      BY <1>1, NextCopied DEF Copied
    <3>2. copies'[m] > 0
      BY <2>1, <3>1
    <3> QED
      BY <1>1, <1>3, <3>2 DEF Reason
  <2>2. CASE ~scn.ackOnSuccess /\ m = trigger
    BY <1>1, <1>3, <2>2, TriggerKept DEF Reason
  <2>3. ASSUME NEW e \in Ids, exec[e].src = m,
               scn.ackOnSuccess => exec[e].outcome = "success"
        PROVE  Reason(m)'
    <3>1. exec[e].phase # "none"
      BY <2>3, ItemsApart DEF Launched, Items
    <3>2. exec'[e].src = m /\ (scn.ackOnSuccess => exec'[e].outcome = "success")
      BY <1>1, <2>3, <3>1, NextLaunched DEF ExecKept
    <3> QED
      BY <1>1, <1>3, <3>2 DEF Reason
  <2> QED
    BY <1>3, <2>1, <2>2, <2>3 DEF Reason
<1> QED
  BY <1>2, <1>3

NoAck == \A m \in DOMAIN scn.messages : at'[m] = "acked" => at[m] = "acked"

LEMMA NoAckFacts ==
    ASSUME Queued,
           \/ UNCHANGED brokerVars
           \/ \E n : Arrive(n) \/ OpenChannel(n) \/ CloseChannel(n)
           \/ \E n, queue, ch, prefetch : Receive(n, queue, ch, prefetch)
    PROVE  NoAck
<1>1. Messages = DOMAIN scn.messages /\ at \in [DOMAIN scn.messages -> States]
  BY DEF Queued, Messages
<1>2. CASE UNCHANGED brokerVars
  BY <1>2 DEF brokerVars, NoAck
<1>3. ASSUME NEW n, Arrive(n) \/ OpenChannel(n) PROVE NoAck
  BY <1>1, <1>3 DEF Arrive, OpenChannel, NoAck
<1>4. ASSUME NEW n, CloseChannel(n) PROVE NoAck
  BY <1>1, <1>4 DEF CloseChannel, NoAck
<1>5. ASSUME NEW n, NEW queue, NEW ch, NEW prefetch, Receive(n, queue, ch, prefetch)
      PROVE  NoAck
  BY <1>1, <1>5 DEF Receive, NoAck
<1> QED
  BY <1>2, <1>3, <1>4, <1>5

LEMMA SettledAcks ==
    ASSUME Queued, NEW m \in DOMAIN scn.messages, NEW n, NEW ch,
           Ack(n, ch) \/ Nack(n, ch), at[m] # "acked", at'[m] = "acked"
    PROVE  Ack(n, ch) /\ m = n /\ at[m] = "unacked" /\ holder[m] = ch
<1>1. CASE Ack(n, ch)
  BY <1>1, SettledFacts DEF Ack
<1>2. CASE Nack(n, ch)
  BY <1>2, SettledFacts DEF Nack
<1> QED
  BY <1>1, <1>2

\* Who acknowledges a message.
AckedBy(m) ==
    \/ \E wanting : Route(wanting) /\ m = hand /\ holder[m] = Wait
    \/ Acknowledge /\ m = trigger /\ holder[m] = Trigger
    \/ \E e \in Ids : /\ OnComplete(e) /\ exec[e].src = m
                      /\ exec[e].outcome = "success" /\ holder[m] = Trigger
    \/ \E e \in Ids, s \in Steps :
          Shovels(e, s, "ack") /\ step[e][s].msg = m /\ holder[m] = Shovel

LEMMA NewlyAcked ==
    ASSUME Queued, [Next]_vars, NEW m \in DOMAIN scn.messages,
           at[m] # "acked", at'[m] = "acked"
    PROVE  at[m] = "unacked" /\ AckedBy(m)
<1>1. ~NoAck
  BY DEF NoAck
<1>2. ASSUME UNCHANGED brokerVars PROVE FALSE
  BY <1>1, <1>2, NoAckFacts
<1>3. ASSUME NEW w, Cleanup(w) PROVE FALSE
  <2>1. UNCHANGED brokerVars \/ CloseChannel(Wait)
    BY <1>3 DEF Cleanup, CleanupHook, CleanupWait
  <2> QED
    BY <1>1, <2>1, NoAckFacts
<1>4. ASSUME NEW e \in Ids, NEW s \in Steps, Stepping(e, s) \/ StepTimeout(e, s)
      PROVE  at[m] = "unacked" /\ AckedBy(m)
  <2>1. CASE StartStep(e, s) \/ RetryCancelled(e, s) \/ Schedule(e, s)
             \/ EmitWaiting(e, s) \/ Taken(e, s) \/ GivesUp(e, s) \/ StepTimeout(e, s)
    BY <1>2, <2>1 DEF StartStep, RetryCancelled, Schedule, EmitWaiting, Taken,
                      GivesUp, StepTimeout
  <2>2. CASE RegisterStep(e, s)
    <3>1. UNCHANGED brokerVars \/ OpenChannel(Wait)
      BY <2>2 DEF RegisterStep, RegisterHook, RegisterWait
    <3> QED
      BY <1>1, <3>1, NoAckFacts
  <2>3. CASE Leave(e, s)
    BY <1>3, <2>3 DEF Leave
  <2>4. CASE ShovelOpen(e, s) \/ ShovelEnds(e, s) \/ ShovelPublish(e, s)
    <3>1. UNCHANGED brokerVars \/ OpenChannel(Shovel) \/ CloseChannel(Shovel)
      BY <2>4 DEF ShovelOpen, ShovelEnds, ShovelPublish
    <3> QED
      BY <1>1, <3>1, NoAckFacts
  <2>5. CASE ShovelGet(e, s)
    <3>1. \E n : Receive(n, TriggerQueue, Shovel, 0)
      BY <2>5 DEF ShovelGet
    <3> QED
      BY <1>1, <3>1, NoAckFacts
  <2>6. CASE ShovelSettles(e, s)
    <3>1. \/ Shovels(e, s, "ack") /\ Ack(step[e][s].msg, Shovel)
          \/ Nack(step[e][s].msg, Shovel)
      BY <2>6 DEF ShovelSettles
    <3>2. PICK n : n = step[e][s].msg
      OBVIOUS
    <3>3. /\ Ack(n, Shovel) \/ Nack(n, Shovel)
          /\ Shovels(e, s, "ack") \/ Nack(n, Shovel)
      BY <3>1, <3>2
    <3>4. ~Nack(n, Shovel)
      BY SettledFacts DEF Nack
    <3>5. m = n /\ at[m] = "unacked" /\ holder[m] = Shovel
      BY <3>3, SettledAcks
    <3> QED
      BY <3>2, <3>3, <3>4, <3>5 DEF AckedBy
  <2>7. ASSUME NEW ok, Act(e, s, ok) PROVE FALSE
    BY <1>2, <2>7 DEF Act
  <2> QED
    BY <1>4, <2>1, <2>2, <2>3, <2>4, <2>5, <2>6, <2>7 DEF Stepping
<1>5. ASSUME NEW e \in Ids, Ending(e) \/ Cancel(e)
      PROVE  at[m] = "unacked" /\ AckedBy(m)
  <2>1. CASE Return(e) \/ Capture(e) \/ Finalize(e) \/ EnsureCompleted(e) \/ Cancel(e)
    BY <1>2, <2>1 DEF Return, Capture, Finalize, EnsureCompleted, Cancel
  <2>2. CASE OnComplete(e)
    <3>1. PICK n : n = exec[e].src
      OBVIOUS
    <3>2. \/ exec[e].outcome = "success" /\ Ack(n, Trigger)
          \/ Nack(n, Trigger)
          \/ UNCHANGED brokerVars
      BY <2>2, <3>1 DEF OnComplete
    <3>3. Ack(n, Trigger) \/ Nack(n, Trigger)
      BY <1>2, <3>2
    <3>4. ~Nack(n, Trigger)
      BY SettledFacts DEF Nack
    <3>5. m = n /\ at[m] = "unacked" /\ holder[m] = Trigger
      BY <3>3, SettledAcks
    <3> QED
      BY <1>2, <2>2, <3>1, <3>2, <3>4, <3>5 DEF AckedBy
  <2> QED
    BY <1>5, <2>1, <2>2 DEF Ending
<1>6. CASE Routing
  <2>1. CASE \E h \in DOMAIN hook : HookSends(h) \/ HookLooksUp(h)
    BY <1>2, <2>1 DEF HookSends, Send, Refuse, HookLooksUp, Outside
  <2>2. CASE \E n \in Messages : TakeInHand(n)
    <3>1. \E n : Receive(n, WaitQueue, Wait, 1)
      BY <2>2 DEF TakeInHand
    <3> QED
      BY <1>1, <3>1, NoAckFacts
  <2>3. ASSUME NEW wanting, Route(wanting) PROVE at[m] = "unacked" /\ AckedBy(m)
    <3>1. Ack(hand, Wait) \/ Nack(hand, Wait)
      BY <2>3 DEF Route, RouteTo
    <3>2. m = hand /\ at[m] = "unacked" /\ holder[m] = Wait
      BY <3>1, SettledAcks
    <3> QED
      BY <2>3, <3>2 DEF AckedBy
  <2> QED
    BY <1>6, <2>1, <2>2, <2>3 DEF Routing, ConsumerLoop
<1>7. CASE Consuming
  <2>1. CASE ConsumeEnds \/ OnMessage
    BY <1>2, <2>1 DEF ConsumeEnds, OnMessage
  <2>2. ASSUME NEW n, Consume(n) PROVE FALSE
    <3>1. Receive(n, TriggerQueue, Trigger, scn.prefetch)
      BY <2>2 DEF Consume
    <3> QED
      BY <1>1, <3>1, NoAckFacts
  <2>3. CASE Acknowledge
    <3>1. Ack(trigger, Trigger)
      BY <2>3 DEF Acknowledge
    <3>2. m = trigger /\ at[m] = "unacked" /\ holder[m] = Trigger
      BY <3>1, SettledAcks
    <3> QED
      BY <2>3, <3>2 DEF AckedBy
  <2> QED
    BY <1>7, <2>1, <2>2, <2>3 DEF Consuming
<1>8. CASE Other
  <2>1. ASSUME NEW ch, CloseChannel(ch) PROVE FALSE
    BY <1>1, <2>1, NoAckFacts
  <2>2. ASSUME NEW n, Arrive(n) PROVE FALSE
    BY <1>1, <2>2, NoAckFacts
  <2>3. ASSUME Shutdown PROVE FALSE
    BY <1>2, <2>1, <2>3 DEF Shutdown, CloseWaits
  <2>4. ASSUME NEW w, LateCleanup(w) PROVE FALSE
    BY <1>3, <2>4 DEF LateCleanup
  <2> QED
    BY <1>8, <2>1, <2>2, <2>3, <2>4 DEF Other, Published, ConnectionLost
<1> QED
  BY <1>2, <1>4, <1>5, <1>6, <1>7, <1>8, NextCases, RequestingFrame, TickingFrame
     DEF vars

LEMMA NextReasoned ==
    ASSUME Numbered, Keyed, Launched, Steady, Queued, WaitTypes, OnlyRegistered, Copied,
           Reasoned, [Next]_vars
    PROVE  Reasoned'
<1>1. /\ scn' = scn /\ queueOf' = queueOf /\ Waiters' = Waiters /\ Ids' = Ids
      /\ Queued' /\ Messages = DOMAIN scn.messages
  BY ScnSame, WaitsSame, NextQueued DEF Queued, Ids, Messages
<1> SUFFICES ASSUME NEW m \in DOMAIN scn.messages, at'[m] = "acked"
             PROVE  Reason(m)'
  BY <1>1 DEF Reasoned
<1>2. CASE at[m] = "acked"
  BY <1>2, ReasonStays DEF Reasoned
<1>3. CASE at[m] # "acked"
  <2>1. at[m] = "unacked" /\ AckedBy(m)
    BY <1>3, NewlyAcked
  <2>2. ASSUME NEW wanting, Route(wanting), m = hand, holder[m] = Wait
        PROVE  Reason(m)'
    <3>1. queueOf[m] = WaitQueue
      BY <2>1, <2>2 DEF Queued, Wait, Trigger, Shovel
    <3>2. PICK w \in Waiters : w \in Waiters /\ box'[w] = m
      <4> DEFINE first == SelectInSeq(waiters, LAMBDA v : v \in wanting)
                 A == {i \in 1..Len(waiters) : waiters[i] \in wanting}
      <4>1. first = IF A # {} THEN Min(A) ELSE 0
        BY DEF SelectInSeq
      <4>2. A \in SUBSET Nat /\ \A i \in A : waiters[i] \in Waiters
        BY DEF WaitTypes
      <4>3. \/ first # 0 /\ RouteTo(waiters[first], m)
            \/ Nack(m, Wait)
        BY <2>2 DEF Route
      <4> HIDE DEF first, A
      <4>4. ~Nack(m, Wait)
        BY <1>3, SettledFacts DEF Nack
      <4>5. first \in A
        BY <4>1, <4>2, <4>3, <4>4, SmallestNumber
      <4>6. PICK w \in Waiters : w = waiters[first]
        BY <4>2, <4>5
      <4>7. box' = [box EXCEPT ![w] = m]
        BY <4>3, <4>4, <4>6 DEF RouteTo
      <4> QED
        BY <4>7 DEF WaitTypes
    <3> QED
      BY <1>1, <3>1, <3>2 DEF Reason, Holds
  <2>3. CASE Acknowledge /\ m = trigger /\ holder[m] = Trigger
    <3>1. queueOf[m] # WaitQueue
      BY <2>1, <2>3 DEF Queued, Wait, Trigger, WaitQueue, TriggerQueue
    <3>2. ~scn.ackOnSuccess /\ trigger' = trigger
      BY <2>3 DEF Acknowledge, AckEarly
    <3> QED
      BY <1>1, <2>3, <3>1, <3>2 DEF Reason
  <2>4. ASSUME NEW e \in Ids, OnComplete(e), exec[e].src = m,
               exec[e].outcome = "success", holder[m] = Trigger
        PROVE  Reason(m)'
    <3>1. queueOf[m] # WaitQueue
      BY <2>1, <2>4 DEF Queued, Wait, Trigger, WaitQueue, TriggerQueue
    <3>2. exec' = [exec EXCEPT ![e].phase = "over"]
      BY <2>4 DEF OnComplete
    <3>3. exec'[e].src = m /\ exec'[e].outcome = "success"
      BY <2>4, <3>2 DEF Launched, Execs
    <3> QED
      BY <1>1, <3>1, <3>3 DEF Reason
  <2>5. ASSUME NEW e \in Ids, NEW s \in Steps, Shovels(e, s, "ack"),
               step[e][s].msg = m, holder[m] = Shovel
        PROVE  Reason(m)'
    <3>1. queueOf[m] # WaitQueue
      BY <2>1, <2>5 DEF Queued, Wait, Shovel, WaitQueue, TriggerQueue
    <3>2. copies[m] > 0 /\ copies[m] \in Nat
      BY <2>5 DEF Copied, Shovels
    <3>3. copies'[m] >= copies[m] /\ copies'[m] \in Nat
      BY <1>1, NextCopied DEF Queued, Copied
    <3>4. copies'[m] > 0
      BY <3>2, <3>3
    <3> QED
      BY <1>1, <3>1, <3>4 DEF Reason
  <2> QED
    BY <2>1, <2>2, <2>3, <2>4, <2>5 DEF AckedBy
<1> QED
  BY <1>2, <1>3

-----------------------------------------------------------------------------
(* The inductive invariant *)

Inv ==
    /\ Numbered /\ Keyed /\ Launched
    /\ Steady /\ Queued
    /\ WaitTypes /\ OnlyRegistered
    /\ Counted
    /\ Copied /\ Reasoned

LEMMA InitInv == Init => Inv
<1> SUFFICES ASSUME Init PROVE Inv
  OBVIOUS
<1>1. /\ scn \in Scenarios /\ Nothing \notin Items /\ Closed \notin Items
      /\ MaxIds \in Nat
  BY ItemsApart, IdsAssumption DEF Init
<1>2. Numbered /\ Keyed
  BY DEF Init, Numbered, Keyed, Reqs, ReqPhases, Proceeds
<1>3. Launched
  BY <1>1 DEF Init, Launched, Execs, ExecPhases, Outcomes, Sources, Ids
<1>4. /\ step = [e \in Ids |-> [s \in Steps |-> NewStep]]
      /\ \A s \in Steps : StepOk(s, NewStep)
  <2>1. NewStep \in StepRecs
    BY DEF NewStep, StepRecs, Phases, ShovelCount
  <2> QED
    BY <1>1, <2>1, AttemptsPositive DEF Init, NewStep, StepOk
<1>5. Steady
  <2>1. NewStep \in StepRecs
    BY DEF NewStep, StepRecs, Phases, ShovelCount
  <2> QED
    BY <1>1, <1>4, <2>1 DEF Steady
<1>6. /\ at = [m \in DOMAIN scn.messages |-> "absent"]
      /\ lost = [m \in DOMAIN scn.messages |-> 0]
      /\ Queued
  BY DEF Init, BrokerInit, Queued, States
<1>7. /\ box = [w \in Waiters |-> Nothing] /\ got = [w \in Waiters |-> Nothing]
      /\ regs = [k \in Keys |-> Nothing] /\ waiters = <<>> /\ watch = {}
      /\ consumer = FALSE /\ hand = Nothing
      /\ hook = [h \in Hooks |-> [phase |-> "new", to |-> Nothing]]
      /\ trigger \in {Nothing, Closed}
  BY DEF Init, WaitsInit, Keys, Hooks
<1>8. WaitTypes
  <2>1. box \in [Waiters -> Boxes] /\ got \in [Waiters -> Boxes \ {Closed}]
    BY <1>7, ChannelsAssumption DEF Boxes
  <2>5. regs \in [Keys -> Waiters \cup {Nothing}]
    BY <1>7
  <2>2. watch \subseteq Waiters /\ consumer \in BOOLEAN
    BY <1>7
  <2>4. waiters \in Seq(Waiters)
    BY <1>7
  <2>3. hook \in [Hooks -> HookStates]
    BY <1>7 DEF HookStates
  <2> QED
    BY <1>7, <2>1, <2>2, <2>3, <2>4, <2>5 DEF WaitTypes
<1>9. OnlyRegistered
  BY <1>7 DEF OnlyRegistered
<1>10. Counted
  <2>1. \A x \in Items : Holders(x) = {}
    BY <1>1, <1>7 DEF Holders, Holds
  <2>2. \A m \in DOMAIN scn.messages : Cardinality(Holders(m)) = 0
    BY <2>1, FS_EmptySet DEF Items
  <2>3. \A m \in DOMAIN scn.messages : Balance(m) = 0
    BY <1>1, <1>6, <1>7 DEF Balance, Bit, Items
  <2>4. \A m \in DOMAIN scn.messages : Cardinality(Holders(m)) <= Balance(m)
    <3> HIDE DEF Holders, Balance
    <3> QED
      BY <2>2, <2>3
  <2>5. \A m \in DOMAIN scn.messages : \A w \in Waiters : Holds(w, m) => Matches(w, m)
    BY <2>1 DEF Holders, Items
  <2>6. \A h \in Hooks :
            Holders(h) = IF hook[h].phase = "delivered" THEN {hook[h].to} ELSE {}
    BY <1>7, <2>1 DEF Items
  <2> QED
    BY <2>4, <2>5, <2>6 DEF Counted
<1>11. Copied /\ Reasoned
  BY <1>4, <1>6 DEF Init, Copied, Reasoned, NewStep
<1> QED
  BY <1>2, <1>3, <1>5, <1>6, <1>8, <1>9, <1>10, <1>11 DEF Inv

LEMMA NextInv == Inv /\ [Next]_vars => Inv'
<1> SUFFICES ASSUME Inv, [Next]_vars PROVE Inv'
  OBVIOUS
<1>1. DOMAIN at = DOMAIN scn.messages
  BY DEF Inv, Queued
<1>2. (Numbered /\ Keyed)'
  BY NextNumbered, NextKeyed DEF Inv
<1>3. Launched'
  BY <1>1, NextLaunched DEF Inv
<1>4. Steady' /\ Queued'
  BY <1>1, NextSteady, NextQueued DEF Inv
<1>5. (WaitTypes /\ OnlyRegistered)'
  BY NextHeld DEF Inv
<1>6. Counted'
  BY NextCounted DEF Inv
<1>7. Copied' /\ Reasoned'
  BY <1>1, NextCopied, NextReasoned DEF Inv
<1> QED
  BY <1>2, <1>3, <1>4, <1>5, <1>6, <1>7 DEF Inv

\* The inductive invariant of the agent holds for every set of scenarios that
\* ScenariosAssumption allows.
THEOREM Invariance == Spec => []Inv
  BY InitInv, NextInv, PTL DEF Spec

\* A message leaves the broker only for what it was to bring about: an
\* execution that was started for it or, with ack_on_success, succeeded; a
\* copy in the destination of the shovel; the channel of a waiter
\* (handleMessage, processMessage, deliverToWaiter).
THEOREM AckedForAReasonHolds == Spec => []AckedForAReason
<1>1. Inv => AckedForAReason
  BY DEF Inv, Queued, Reasoned, Reason, Holds, AckedForAReason, Messages
<1> QED
  BY <1>1, Invariance, PTL

\* No two steps get the same webhook, nor the same message unless a lost
\* channel brought it back; each got one that was meant for it; a webhook is
\* answered delivered exactly if it is in the channel of a step, or taken
\* (WaitRegistry.Deliver, routeMessage, deliverToWaiter).
THEOREM TakenOnceHolds == Spec => []TakenOnce
<1>1. Inv => TakenOnce
  <2> SUFFICES ASSUME Inv PROVE TakenOnce
    OBVIOUS
  <2>1. /\ Messages = DOMAIN scn.messages /\ DOMAIN hook = Hooks
        /\ scn \in Scenarios /\ hook \in [Hooks -> HookStates]
    BY DEF Inv, Queued, Steady, Messages, WaitTypes
  <2>2. ASSUME NEW m \in DOMAIN scn.messages
        PROVE  /\ Cardinality(Holders(m)) <= 1 + lost[m]
               /\ \A w \in Holders(m) : Matches(w, m)
    <3>1. IsFiniteSet(Holders(m))
      BY <2>1, WaitersFinite, FS_Subset DEF Holders
    <3>2. Cardinality(Holders(m)) \in Nat
      BY <3>1, FS_CardinalityType
    <3>3. Balance(m) \in Int /\ Balance(m) <= 1 + lost[m] /\ lost[m] \in Nat
      BY BalanceIn DEF Inv, Queued
    <3>4. Cardinality(Holders(m)) <= Balance(m)
      BY DEF Inv, Counted
    <3>5. Cardinality(Holders(m)) <= 1 + lost[m]
      <4> HIDE DEF Holders, Balance
      <4> QED
        BY <3>2, <3>3, <3>4
    <3> QED
      BY <3>5 DEF Inv, Counted, Holders
  <2>3. ASSUME NEW h \in Hooks
        PROVE  /\ Cardinality(Holders(h)) = IF hook[h].phase = "delivered" THEN 1 ELSE 0
               /\ \A w \in Holders(h) : HookKey(w) = Addressed(h)
    <3>1. Holders(h) = IF hook[h].phase = "delivered" THEN {hook[h].to} ELSE {}
      BY DEF Inv, Counted
    <3>2. Cardinality({hook[h].to}) = 1 /\ Cardinality({}) = 0
      BY FS_Singleton, FS_EmptySet
    <3>3. CASE hook[h].phase = "delivered"
      BY <3>1, <3>2, <3>3 DEF Inv, OnlyRegistered
    <3>4. CASE hook[h].phase # "delivered"
      BY <3>1, <3>2, <3>4
    <3> QED
      BY <3>3, <3>4
  <2>4. \A x : Holders(x) = {w \in Waiters : x \in {box[w], got[w]}}
    BY DEF Holders, Holds
  <2> HIDE DEF Holders
  <2> QED
    BY <2>1, <2>2, <2>3, <2>4 DEF TakenOnce, Addressed
<1> QED
  BY <1>1, Invariance, PTL

-----------------------------------------------------------------------------
(* Types *)

Words == {"started", "waiting", "completed", "failed", "over"}

Events == (Steps \cup {""}) \X Words

StoreTypes ==
    /\ head \in 0..(Capacity - 1) /\ count \in 0..Capacity
    /\ buffer \in [0..(Capacity - 1) -> Ids \cup {NoRow}]
    /\ DOMAIN rows \subseteq Ids /\ DOMAIN logs \subseteq Ids

\* What was captured has been published.
Streams ==
    /\ published \in [Ids -> Seq(Events)] /\ captured \in [Ids -> Nat]
    /\ \A e \in Ids : captured[e] <= Len(published[e])

Counters ==
    /\ timers \in Nat /\ ticks \in 0..scn.ticks /\ stage \in Up..Exited
    /\ \A r \in Requests : req[r].id \in 0..MaxIds /\ req[r].told \in 0..MaxIds

LEMMA NextHeadIn == ASSUME head \in Nat PROVE NextHead \in 0..(Capacity - 1)
  BY CapacityAssumption DEF NextHead

LEMMA AddTypes ==
    ASSUME StoreTypes, NEW e \in Ids, NEW status, Add(e, status)
    PROVE  StoreTypes'
<1>1. head' \in 0..(Capacity - 1)
  BY NextHeadIn DEF Add, StoreTypes
<1>2. count' \in 0..Capacity
  BY CapacityAssumption DEF Add, StoreTypes
<1>3. buffer' \in [0..(Capacity - 1) -> Ids \cup {NoRow}]
  BY DEF Add, StoreTypes
<1>4. DOMAIN rows' \subseteq Ids /\ DOMAIN logs' \subseteq Ids
  BY DEF Add, StoreTypes, Put, Drop, Restrict
<1>5. Ids' = Ids
  BY DEF Ids
<1> QED
  BY <1>1, <1>2, <1>3, <1>4, <1>5 DEF StoreTypes

\* The other operations of the store keep which rows there are.
LEMMA EndingStore ==
    ASSUME NEW e \in Ids, Ending(e) \/ Cancel(e)
    PROVE  /\ UNCHANGED <<buffer, head, count>>
           /\ DOMAIN rows' = DOMAIN rows
           /\ DOMAIN logs' \subseteq DOMAIN logs \cup {e}
<1>1. ASSUME NEW x, AppendEvent(e, x)
      PROVE  DOMAIN logs' \subseteq DOMAIN logs \cup {e}
  BY <1>1 DEF AppendEvent, Put
<1>2. ASSUME NEW x, UpdateExecution(e, x) PROVE DOMAIN rows' = DOMAIN rows
  BY <1>2 DEF UpdateExecution
<1>3. ASSUME NEW s, NEW x, UpdateStep(e, s, x) PROVE DOMAIN rows' = DOMAIN rows
  BY <1>3 DEF UpdateStep
<1>4. CASE Capture(e)
  BY <1>1, <1>3, <1>4 DEF Capture
<1>5. CASE Finalize(e)
  BY <1>2, <1>5 DEF Finalize, UpdateExecution
<1>6. CASE EnsureCompleted(e)
  BY <1>1, <1>6 DEF EnsureCompleted
<1>7. CASE Return(e) \/ OnComplete(e) \/ Cancel(e)
  BY <1>7 DEF Return, OnComplete, Cancel, storeVars
<1> QED
  BY <1>4, <1>5, <1>6, <1>7 DEF Ending

LEMMA NextStoreTypes ==
    ASSUME Numbered, Launched, StoreTypes, [Next]_vars
    PROVE  StoreTypes'
<1>1. Ids' = Ids
  BY DEF Ids
<1>2. ASSUME NEW e \in Ids, NEW status, Add(e, status) PROVE StoreTypes'
  BY <1>2, AddTypes
<1>3. CASE UNCHANGED storeVars
  BY <1>1, <1>3 DEF storeVars, StoreTypes
<1>4. ASSUME NEW e \in Ids, Ending(e) \/ Cancel(e) PROVE StoreTypes'
  BY <1>1, <1>4, EndingStore DEF StoreTypes
<1>5. nextId <= scn.ids => nextId \in Ids
  BY ScenariosAssumption, IdsAssumption DEF Launched, Ids
<1>6. ASSUME NEW r \in Requests, StartRequest(r) PROVE req[r].id \in Ids
  BY <1>6, IdsAssumption DEF StartRequest, Numbered, Launched, Ids
<1>7. ASSUME NEW e, NEW src, Launch(e, src), e \in Ids PROVE StoreTypes'
  BY <1>2, <1>7 DEF Launch
<1>8. CASE \E r \in Requests : Requesting(r)
  BY <1>3, <1>6, <1>7, <1>8, RequestingFrame DEF StartRequest
<1>9. CASE \E e \in Ids, s \in Steps : Stepping(e, s) \/ StepTimeout(e, s)
  BY <1>2, <1>3, <1>5, <1>9, SteppingFrame DEF Schedule, Fresh
<1>10. CASE Consuming
  BY <1>3, <1>5, <1>7, <1>10, ConsumingFrame DEF OnMessage, Fresh
<1>11. CASE Ticking
  BY <1>5, <1>7, <1>11 DEF Ticking, Tick, TimerFires, Fresh
<1> QED
  BY <1>3, <1>4, <1>8, <1>9, <1>10, <1>11, NextCases, RoutingFrame, OtherFrame DEF vars


\* An event is published at the end of what an execution has published.
Publishes(e) == \E events \in Seq(Events) : Publish(e, events)

LEMMA ShortSequences ==
    ASSUME NEW S, NEW x \in S, NEW y \in S
    PROVE  <<x>> \in Seq(S) /\ <<x, y>> \in Seq(S)
  OBVIOUS

LEMMA SteppingPublishes ==
    ASSUME NEW e \in Ids, NEW s \in Steps, Stepping(e, s) \/ StepTimeout(e, s)
    PROVE  Publishes(e) \/ UNCHANGED published
<1>0. \A x \in Words : <<s, x>> \in Events
  BY DEF Events
<1>1. \A x \in Words : <<<<s, x>>>> \in Seq(Events)
  BY <1>0, ShortSequences
<1>2. \A x, y \in Words : <<<<s, x>>, <<s, y>>>> \in Seq(Events)
  BY <1>0, ShortSequences
<1>3. <<>> \in Seq(Events)
  OBVIOUS
<1>4. {"started", "waiting", "completed", "failed"} \subseteq Words
  BY DEF Words
<1>5. ASSUME NEW ok, Attempted(e, s, ok) PROVE Publishes(e)
  BY <1>1, <1>4, <1>5 DEF Attempted, Publishes
<1>6. CASE StartStep(e, s)
  BY <1>1, <1>3, <1>4, <1>6 DEF StartStep, Publishes
<1>7. CASE RetryCancelled(e, s) \/ EmitWaiting(e, s)
  BY <1>1, <1>4, <1>7 DEF RetryCancelled, EmitWaiting, Publishes
<1>8. CASE Schedule(e, s) \/ Leave(e, s)
  BY <1>5, <1>8 DEF Schedule, Leave
<1>9. CASE RegisterStep(e, s) \/ Taken(e, s) \/ GivesUp(e, s) \/ StepTimeout(e, s)
  BY <1>9 DEF RegisterStep, Taken, GivesUp, StepTimeout
<1>10. CASE ShovelOpen(e, s) \/ ShovelEnds(e, s)
  BY <1>5, <1>10 DEF ShovelOpen, ShovelEnds
<1>11. CASE ShovelGet(e, s) \/ ShovelPublish(e, s) \/ ShovelSettles(e, s)
  BY <1>11 DEF ShovelGet, ShovelPublish, ShovelSettles
<1>12. ASSUME NEW ok, Act(e, s, ok) PROVE Publishes(e)
  BY <1>2, <1>4, <1>12 DEF Act, Publishes
<1> QED
  BY <1>6, <1>7, <1>8, <1>9, <1>10, <1>11, <1>12 DEF Stepping

LEMMA PublishStreams ==
    ASSUME Streams, UNCHANGED <<scn, captured>>, NEW e \in Ids, Publishes(e)
    PROVE  Streams'
<1>1. PICK events \in Seq(Events) : published' = [published EXCEPT ![e] = @ \o events]
  BY DEF Publishes, Publish
<1>2. published \in [Ids -> Seq(Events)] /\ captured \in [Ids -> Nat]
  BY DEF Streams
<1>3. Events' = Events /\ Ids' = Ids
  BY DEF Events, Steps, Words, Ids
<1>4. published[e] \o events \in Seq(Events)
  BY <1>2
<1>5. Len(published[e] \o events) >= Len(published[e]) /\ Len(published[e]) \in Nat
  BY <1>2
<1>6. /\ published' \in [Ids -> Seq(Events)]
      /\ \A f \in Ids : f # e => published'[f] = published[f]
      /\ published'[e] = published[e] \o events
  BY <1>1, <1>2, <1>4
<1>7. ASSUME NEW f \in Ids PROVE captured[f] <= Len(published'[f])
  <2>1. captured[f] \in Nat /\ captured[f] <= Len(published[f])
    BY <1>2 DEF Streams
  <2>2. CASE f = e
    <3>1. Len(published'[e]) \in Nat
      BY <1>6
    <3> QED
      BY <1>5, <1>6, <2>1, <2>2, <3>1
  <2> QED
    BY <1>6, <2>1, <2>2
<1> QED
  BY <1>2, <1>3, <1>6, <1>7 DEF Streams

LEMMA NextStreams ==
    ASSUME Streams, [Next]_vars
    PROVE  Streams'
<1>1. scn' = scn /\ Events' = Events /\ Ids' = Ids
  BY ScnSame DEF Events, Steps, Words, Ids
<1>2. CASE UNCHANGED <<published, captured>>
  BY <1>1, <1>2 DEF Streams
<1>3. CASE \E e \in Ids, s \in Steps : Stepping(e, s) \/ StepTimeout(e, s)
  BY <1>1, <1>2, <1>3, SteppingPublishes, SteppingFrame, PublishStreams
<1>4. ASSUME NEW e \in Ids, Ending(e) \/ Cancel(e) PROVE Streams'
  <2>1. CASE Return(e)
    <3>2. <<"", "over">> \in Events
      BY DEF Events, Words
    <3>1. <<<<"", "over">>>> \in Seq(Events)
      BY <3>2, ShortSequences
    <3> QED
      BY <1>1, <2>1, <3>1, PublishStreams DEF Return, Publishes
  <2>2. CASE Capture(e)
    <3>1. /\ captured \in [Ids -> Nat] /\ published' = published
          /\ captured[e] < Len(published[e])
          /\ captured' = [captured EXCEPT ![e] = @ + 1]
      BY <2>2 DEF Capture, Streams
    <3>2. captured' \in [Ids -> Nat]
      BY <3>1
    <3>3. Len(published[e]) \in Nat /\ captured[e] + 1 <= Len(published[e])
      BY <3>1 DEF Streams
    <3>4. \A f \in Ids : captured'[f] <= Len(published'[f])
      BY <3>1, <3>3 DEF Streams
    <3> QED
      BY <1>1, <3>1, <3>2, <3>4 DEF Streams
  <2>3. CASE Finalize(e) \/ EnsureCompleted(e) \/ OnComplete(e) \/ Cancel(e)
    BY <1>2, <2>3 DEF Finalize, EnsureCompleted, OnComplete, Cancel
  <2> QED
    BY <1>4, <2>1, <2>2, <2>3 DEF Ending
<1>5. CASE UNCHANGED vars
  BY <1>2, <1>5 DEF vars, runVars
<1> QED
  BY <1>2, <1>3, <1>4, <1>5, NextCases, RequestingFrame, RoutingFrame, ConsumingFrame,
     TickingFrame, OtherFrame


LEMMA ReqCounts ==
    ASSUME Numbered, Keyed, Launched, Counters, NEW r \in Requests, Requesting(r)
    PROVE  \A q \in Requests : req'[q].id \in 0..MaxIds /\ req'[q].told \in 0..MaxIds
<1>1. /\ req \in [Requests -> Reqs]
      /\ \A q \in Requests : req[q].id \in 0..MaxIds /\ req[q].told \in 0..MaxIds
  BY DEF Numbered, Counters
<1>2. CASE Request(r)
  <2>1. nextId \in 0..MaxIds
    BY <1>2, ScenariosAssumption, IdsAssumption DEF Request, Fresh, Launched
  <2> QED
    BY <1>1, <1>2, <2>1 DEF Request, Reqs
<1>3. CASE Claim(r)
  <2>1. ASSUME NEW k, k \in DOMAIN claims PROVE claims[k] \in 0..MaxIds
    <3>1. PICK q \in Requests : req[q].id = claims[k]
      BY <2>1 DEF Keyed, ClaimedBy
    <3> QED
      BY <1>1, <3>1
  <2>2. \/ req' = [req EXCEPT ![r].phase = "start"]
        \/ req' = [req EXCEPT ![r].phase = "answered", ![r].told = claims[scn.keys[r]]]
           /\ scn.keys[r] \in DOMAIN claims
        \/ req' = [req EXCEPT ![r].phase = "start", ![r].unclaimed = TRUE]
    BY <1>3 DEF Claim, Claimed
  <2> QED
    BY <1>1, <2>1, <2>2 DEF Reqs
<1>4. CASE StartRequest(r) \/ AnswerSync(r)
  BY <1>1, <1>4 DEF StartRequest, AnswerSync, Reqs
<1> QED
  BY <1>2, <1>3, <1>4 DEF Requesting

LEMMA NextCounters ==
    ASSUME Numbered, Keyed, Launched, Counters, [Next]_vars
    PROVE  Counters'
<1>1. scn' = scn /\ Requests' = Requests /\ scn.ticks \in Nat
  BY ScnSame, ScenariosAssumption DEF Requests, Launched
<1>2. CASE UNCHANGED <<timers, ticks, stage, req>>
  BY <1>1, <1>2 DEF Counters
<1>3. CASE \E r \in Requests : Requesting(r)
  <2>1. UNCHANGED <<timers, ticks, stage>>
    BY <1>3 DEF Requesting, Request, Claim, StartRequest, AnswerSync
  <2> QED
    BY <1>1, <1>3, <2>1, ReqCounts DEF Counters
<1>4. CASE \E e \in Ids, s \in Steps : Stepping(e, s) \/ StepTimeout(e, s)
  <2>1. ASSUME NEW e, NEW s, Schedule(e, s) PROVE timers' = timers + 1
    BY <2>1 DEF Schedule
  <2>2. timers' \in {timers, timers + 1}
    BY <1>4, <2>1, SteppingFrame
  <2> QED
    BY <1>1, <1>4, <2>2, SteppingFrame DEF Counters
<1>5. CASE Ticking
  <2>1. \/ ticks < scn.ticks /\ ticks' = ticks + 1 /\ timers' = timers
        \/ timers > 0 /\ timers' = timers - 1 /\ ticks' = ticks
    BY <1>5 DEF Ticking, Tick, TimerFires
  <2>2. UNCHANGED <<stage, req>>
    BY <1>5 DEF Ticking, Tick, TimerFires
  <2> QED
    BY <1>1, <2>1, <2>2 DEF Counters
<1>6. CASE Other
  <2>1. stage' = stage \/ (stage < Exited /\ stage' = stage + 1)
    BY <1>6 DEF Other, Shutdown, Published, ConnectionLost, LateCleanup
  <2> QED
    BY <1>1, <1>6, <2>1, OtherFrame DEF Counters, Up, Exited
<1>7. CASE UNCHANGED vars
  BY <1>2, <1>7 DEF vars, entry
<1> QED
  BY <1>2, <1>3, <1>4, <1>5, <1>6, <1>7, NextCases, EndingFrame, RoutingFrame,
     ConsumingFrame

LEMMA TypesHold == Spec => [](Inv /\ StoreTypes /\ Streams /\ Counters)
<1>1. Init => StoreTypes
  BY CapacityAssumption DEF Init, StoreInit, StoreTypes
<1>2. Init => Streams
  <2>1. <<>> \in Seq(Events) /\ Len(<<>>) = 0
    OBVIOUS
  <2> QED
    BY <2>1 DEF Init, Streams
<1>3. Init => Counters
  BY ScenariosAssumption, IdsAssumption DEF Init, Counters, Up, Exited
<1>4. Inv /\ StoreTypes /\ Streams /\ Counters /\ [Next]_vars
          => StoreTypes' /\ Streams' /\ Counters'
  BY NextStoreTypes, NextStreams, NextCounters DEF Inv
<1> QED
  BY <1>1, <1>2, <1>3, <1>4, InitInv, NextInv, PTL DEF Spec

\* Every variable has its type (the fields of Server and its services).
THEOREM TypeCorrect == Spec => []TypeOK
<1>1. Inv /\ StoreTypes /\ Streams /\ Counters => TypeOK
  <2> SUFFICES ASSUME Inv, StoreTypes, Streams, Counters PROVE TypeOK
    OBVIOUS
  <2>1. Messages = DOMAIN scn.messages /\ DOMAIN hook = Hooks
    BY DEF Inv, Queued, Messages, WaitTypes
  <2>2. nextId \in 1..(MaxIds + 1) /\ stage \in Up..Exited
    BY DEF Inv, Launched, Counters
  <2>3. timers \in Nat /\ ticks \in 0..scn.ticks
    BY DEF Counters
  <2>4. ASSUME NEW r \in Requests
        PROVE  /\ req[r].phase \in {"none", "claim", "start", "sync", "answered"}
               /\ {req[r].id, req[r].told} \subseteq 0..MaxIds
    BY DEF Inv, Numbered, Reqs, ReqPhases, Counters
  <2>5. Range(claims) \subseteq Ids
    <3> SUFFICES ASSUME NEW k \in DOMAIN claims PROVE claims[k] \in Ids
      BY DEF Range
    <3>1. PICK q \in Requests : ClaimedBy(k, q)
      BY DEF Inv, Keyed
    <3>2. claims[k] \in 1..(nextId - 1)
      BY <3>1 DEF Inv, Numbered, ClaimedBy
    <3> QED
      BY <2>2, <3>2, IdsAssumption DEF Ids
  <2>6. trigger \in Messages \cup {Nothing, Closed}
    BY <2>1 DEF Inv, WaitTypes
  <2>7. ASSUME NEW e \in Ids
        PROVE  /\ exec[e].phase \in {"none", "running", "returned",
                                     "finalized", "completed", "over"}
               /\ exec[e].src \in Requests \cup Messages \cup {Nothing, Timer}
    BY <2>1 DEF Inv, Launched, Execs, ExecPhases, Sources
  <2>8. ASSUME NEW e \in Ids PROVE captured[e] \in 0..Len(published[e])
    <3>1. captured[e] \in Nat /\ captured[e] <= Len(published[e])
      BY DEF Streams
    <3>2. Len(published[e]) \in Nat
      BY DEF Streams
    <3> QED
      BY <3>1, <3>2
  <2>9. ASSUME NEW e \in Ids, NEW s \in Steps
        PROVE  /\ step[e][s].phase \in Phases
               /\ step[e][s].attempt \in 0..scn.steps[s].attempts
               /\ step[e][s].n \in 0..ShovelCount
    <3>1. StepOk(s, step[e][s]) /\ scn.steps[s].attempts \in Nat
      BY AttemptsPositive DEF Inv, Steady
    <3> QED
      BY <3>1 DEF StepOk, StepRecs
  <2>10. watch \subseteq Waiters /\ Range(waiters) \subseteq Waiters
    BY DEF Inv, WaitTypes, Range
  <2>11. /\ Range(regs) \subseteq Waiters \cup {Nothing}
         /\ Range(box) \cup Range(got) \subseteq
               Messages \cup DOMAIN hook \cup {Nothing, Closed}
    BY <2>1 DEF Inv, WaitTypes, Range, Boxes
  <2>12. hand \in Messages \cup {Nothing} /\ consumer \in BOOLEAN
    BY <2>1 DEF Inv, WaitTypes
  <2>13. Range(at) \subseteq {"absent", "queued", "unacked", "acked"}
    BY DEF Inv, Queued, Range, States
  <2>14. /\ head \in 0..(Capacity - 1) /\ count \in 0..Capacity
         /\ Range(buffer) \subseteq Ids \cup {NoRow}
         /\ DOMAIN rows \subseteq Ids /\ DOMAIN logs \subseteq Ids
    BY DEF StoreTypes, Range
  <2> QED
    BY <2>2, <2>3, <2>4, <2>5, <2>6, <2>7, <2>8, <2>9, <2>10, <2>11, <2>12, <2>13,
       <2>14 DEF TypeOK
<1> QED
  BY <1>1, TypesHold, PTL


-----------------------------------------------------------------------------
(* The store of the newest executions *)

\* The ids in the order of their Add, each once; an id that a request has and
\* that has not been started is not among them.
Listed ==
    /\ added \in Seq(Ids) /\ Apart(added)
    /\ \A i \in 1..Len(added) : added[i] < nextId
    /\ \A r \in Requests : req[r].phase \in {"claim", "start"} =>
          \A i \in 1..Len(added) : added[i] # req[r].id
    /\ Ring(added)

Adds(e) == (\E status : Add(e, status)) /\ added' = Append(added, e)

\* A new id, or that of a request.
AddsNew ==
    /\ nextId \in Ids /\ nextId' = nextId + 1 /\ exec[nextId].phase = "none"
    /\ Adds(nextId)
    /\ UNCHANGED req

AddsFor(r) ==
    /\ req[r].phase = "start" /\ req'[r].phase \notin {"claim", "start"}
    /\ req[r].id \in Ids /\ exec[req[r].id].phase = "none"
    /\ \A q \in Requests \ {r} : req'[q] = req[q]
    /\ Adds(req[r].id)
    /\ UNCHANGED nextId

AddsNone ==
    /\ UNCHANGED <<added, buffer, head, count>>
    /\ DOMAIN rows' = DOMAIN rows
    /\ \A r \in Requests : req'[r].phase \in {"claim", "start"} =>
          \/ req[r].phase \in {"claim", "start"} /\ req'[r].id = req[r].id
          \/ req'[r].id = nextId

LEMMA AddCases ==
    ASSUME Numbered, Launched, [Next]_vars
    PROVE  AddsNew \/ (\E r \in Requests : AddsFor(r)) \/ AddsNone
<1>1. /\ nextId <= scn.ids => nextId \in Ids
      /\ nextId \in Ids => exec[nextId].phase = "none"
  BY ScenariosAssumption, IdsAssumption DEF Launched, Ids
<1>2. CASE UNCHANGED <<added, req, storeVars>>
  BY <1>2 DEF AddsNone, storeVars
<1>3. ASSUME NEW src, Fresh(nextId), Launch(nextId, src), UNCHANGED req
      PROVE  AddsNew
  BY <1>1, <1>3 DEF Fresh, Launch, AddsNew, Adds
<1>4. ASSUME NEW r \in Requests, Requesting(r)
      PROVE  AddsFor(r) \/ AddsNone
  <2>1. CASE StartRequest(r)
    <3>1. req[r].phase = "start" /\ Launch(req[r].id, r) /\ UNCHANGED nextId
      BY <2>1 DEF StartRequest
    <3>2. req[r].id \in Ids /\ exec[req[r].id].phase = "none"
      BY <3>1, IdsAssumption DEF Numbered, Launched, Ids
    <3>3. /\ \A q \in Requests \ {r} : req'[q] = req[q]
          /\ req'[r].phase \notin {"claim", "start"}
      BY <2>1 DEF StartRequest, Numbered, Reqs
    <3> QED
      BY <3>1, <3>2, <3>3 DEF Launch, AddsFor, Adds
  <2>2. CASE Request(r)
    <3>1. /\ req' = [req EXCEPT ![r].id = nextId, ![r].phase = req'[r].phase]
          /\ UNCHANGED <<added, storeVars>>
      BY <2>2 DEF Request, Numbered, Reqs
    <3>2. req'[r].id = nextId /\ \A q \in Requests \ {r} : req'[q] = req[q]
      BY <3>1 DEF Numbered, Reqs
    <3> QED
      BY <3>1, <3>2 DEF AddsNone, storeVars
  <2>3. CASE Claim(r) \/ AnswerSync(r)
    <3>1. UNCHANGED <<added, storeVars>>
      BY <2>3 DEF Claim, AnswerSync
    <3>2. \A q \in Requests \ {r} : req'[q] = req[q]
      BY <2>3 DEF Claim, AnswerSync, Numbered
    <3>3. /\ req'[r].id = req[r].id
          /\ req'[r].phase \in {"claim", "start"} => req[r].phase = "claim"
      BY <2>3 DEF Claim, AnswerSync, Numbered, Reqs
    <3> QED
      BY <3>1, <3>2, <3>3 DEF AddsNone, storeVars
  <2> QED
    BY <1>4, <2>1, <2>2, <2>3 DEF Requesting
<1>5. CASE \E e \in Ids, s \in Steps : Stepping(e, s) \/ StepTimeout(e, s)
  <2>1. PICK e \in Ids, s \in Steps : Stepping(e, s) \/ StepTimeout(e, s)
    BY <1>5
  <2>2. CASE Schedule(e, s)
    BY <1>1, <2>2 DEF Schedule, Fresh, AddsNew, Adds
  <2> QED
    BY <1>2, <2>1, <2>2, SteppingFrame
<1>6. ASSUME NEW e \in Ids, Ending(e) \/ Cancel(e) PROVE AddsNone
  BY <1>6, EndingFrame, EndingStore DEF AddsNone
<1>7. CASE Consuming
  <2>1. CASE OnMessage
    <3>1. Fresh(nextId) /\ Launch(nextId, trigger)
      BY <2>1 DEF OnMessage
    <3> QED
      BY <1>3, <1>7, <3>1, ConsumingFrame
  <2> QED
    BY <1>2, <1>7, <2>1, ConsumingFrame
<1>8. CASE Ticking
  <2>1. \E src : Fresh(nextId) /\ Launch(nextId, src)
    BY <1>8 DEF Ticking, Tick, TimerFires
  <2> QED
    BY <1>3, <1>8, <2>1, TickingFrame
<1>9. CASE UNCHANGED vars
  BY <1>2, <1>9 DEF vars, entry
<1> QED
  BY <1>2, <1>4, <1>5, <1>6, <1>7, <1>8, <1>9, NextCases, RoutingFrame, OtherFrame


\* Adding an id that has not been added.
LEMMA AddListed ==
    ASSUME added \in Seq(Ids), Apart(added), Ring(added),
           NEW e \in Ids, \A i \in 1..Len(added) : added[i] # e, Adds(e)
    PROVE  /\ (added \in Seq(Ids))' /\ Apart(added)' /\ Ring(added)'
           /\ \A i \in 1..Len(added') :
                 added'[i] = e \/ \E j \in 1..Len(added) : added'[i] = added[j]
<1>1. PICK q \in Seq(Ids) : q = added
  OBVIOUS
<1>2. PICK status : Add(e, status)
  BY DEF Adds
<1>3. NoRow \notin Ids /\ Ids' = Ids
  BY IdsAssumption DEF Ids
<1>4. added' = Append(q, e)
  BY <1>1 DEF Adds
<1>5. /\ Len(q) \in Nat /\ Append(q, e) \in Seq(Ids)
      /\ Len(Append(q, e)) = Len(q) + 1
      /\ \A i \in 1..Len(q) : Append(q, e)[i] = q[i]
      /\ Append(q, e)[Len(q) + 1] = e
  BY AppendFacts
<1>6. Recent(Append(q, e), head', count', buffer', rows')
  BY <1>1, <1>2, <1>3, AddKeepsRecent
<1>7. Apart(Append(q, e))
  <2> SUFFICES ASSUME NEW i \in 1..(Len(q) + 1), NEW j \in 1..(Len(q) + 1),
                      Append(q, e)[i] = Append(q, e)[j]
               PROVE  i = j
    BY <1>5 DEF Apart
  <2>1. \A k \in 1..(Len(q) + 1) : k = Len(q) + 1 \/ k \in 1..Len(q)
    BY <1>5
  <2> QED
    BY <1>1, <1>5, <2>1 DEF Apart
<1>8. \A i \in 1..(Len(q) + 1) : i = Len(q) + 1 \/ i \in 1..Len(q)
  BY <1>5
<1> QED
  BY <1>1, <1>3, <1>4, <1>5, <1>6, <1>7, <1>8 DEF Apart, Ring

LEMMA NextListed ==
    ASSUME Numbered, Launched, Listed, [Next]_vars
    PROVE  Listed'
<1>1. /\ added \in Seq(Ids) /\ Apart(added) /\ Ring(added) /\ Len(added) \in Nat
      /\ \A i \in 1..Len(added) : added[i] \in Nat /\ added[i] < nextId
      /\ nextId \in Nat
  <2>1. added \in Seq(Ids) /\ Apart(added) /\ Ring(added) /\ nextId \in Nat
    BY DEF Listed, Numbered
  <2>2. Ids \subseteq Nat
    BY DEF Ids
  <2>3. Len(added) \in Nat /\ \A i \in 1..Len(added) : added[i] \in Ids
    BY <2>1
  <2> QED
    BY <2>1, <2>2, <2>3 DEF Listed
<1>2. Requests' = Requests /\ Ids' = Ids
  BY ScnSame DEF Requests, Ids
<1>3. CASE AddsNone
  <2>1. added' = added /\ Ring(added)'
    <3>1. /\ head' = head /\ count' = count /\ buffer' = buffer /\ added' = added
          /\ DOMAIN rows' = DOMAIN rows
      BY <1>3 DEF AddsNone
    <3> QED
      BY <1>1, <3>1 DEF Ring, Recent
  <2>2. \A i \in 1..Len(added) : added[i] < nextId'
    BY <1>1, NextIdGrows
  <2>3. ASSUME NEW r \in Requests, req'[r].phase \in {"claim", "start"},
               NEW i \in 1..Len(added)
        PROVE  added[i] # req'[r].id
    <3>1. \/ req[r].phase \in {"claim", "start"} /\ req'[r].id = req[r].id
          \/ req'[r].id = nextId
      BY <1>3, <2>3 DEF AddsNone
    <3> QED
      BY <1>1, <3>1 DEF Listed
  <2> QED
    BY <1>1, <1>2, <2>1, <2>2, <2>3 DEF Listed, Apart
<1>4. CASE AddsNew
  <2>1. nextId \in Ids /\ nextId' = nextId + 1 /\ Adds(nextId) /\ req' = req
    BY <1>4 DEF AddsNew
  <2>2. PICK e \in Ids : e = nextId
    BY <2>1
  <2>3. \A i \in 1..Len(added) : added[i] # e
    BY <1>1, <2>2
  <2>4. /\ (added \in Seq(Ids))' /\ Apart(added)' /\ Ring(added)'
        /\ \A i \in 1..Len(added') :
              added'[i] = e \/ \E j \in 1..Len(added) : added'[i] = added[j]
    BY <1>1, <2>1, <2>2, <2>3, AddListed
  <2>5. \A i \in 1..Len(added') : added'[i] < nextId'
    BY <1>1, <2>1, <2>2, <2>4
  <2>6. ASSUME NEW r \in Requests, req[r].phase \in {"claim", "start"}
        PROVE  req[r].id # e /\ \A j \in 1..Len(added) : added[j] # req[r].id
    BY <2>2, <2>6 DEF Listed, Numbered
  <2>7. \A r \in Requests : req'[r].phase \in {"claim", "start"} =>
            \A i \in 1..Len(added') : added'[i] # req'[r].id
    BY <2>1, <2>4, <2>6
  <2> QED
    BY <1>2, <2>4, <2>5, <2>7 DEF Listed
<1>5. ASSUME NEW r \in Requests, AddsFor(r) PROVE Listed'
  <2>1. /\ req[r].phase = "start" /\ req'[r].phase \notin {"claim", "start"}
        /\ \A q \in Requests \ {r} : req'[q] = req[q]
        /\ Adds(req[r].id) /\ nextId' = nextId
    BY <1>5 DEF AddsFor
  <2>2. PICK e \in Ids : e = req[r].id
    BY <1>5 DEF AddsFor
  <2>3. e < nextId /\ \A i \in 1..Len(added) : added[i] # e
    BY <2>1, <2>2 DEF Numbered, Listed
  <2>4. /\ (added \in Seq(Ids))' /\ Apart(added)' /\ Ring(added)'
        /\ \A i \in 1..Len(added') :
              added'[i] = e \/ \E j \in 1..Len(added) : added'[i] = added[j]
    BY <1>1, <2>1, <2>2, <2>3, AddListed
  <2>5. \A i \in 1..Len(added') : added'[i] < nextId'
    BY <1>1, <2>1, <2>3, <2>4
  <2>6. ASSUME NEW q \in Requests \ {r}, req[q].phase \in {"claim", "start"}
        PROVE  req[q].id # e /\ \A j \in 1..Len(added) : added[j] # req[q].id
    BY <2>1, <2>2, <2>6 DEF Listed, Numbered
  <2>7. \A q \in Requests : req'[q].phase \in {"claim", "start"} =>
            \A i \in 1..Len(added') : added'[i] # req'[q].id
    BY <2>1, <2>4, <2>6
  <2> QED
    BY <1>2, <2>4, <2>5, <2>7 DEF Listed
<1> QED
  BY <1>3, <1>4, <1>5, AddCases


-----------------------------------------------------------------------------
(* Executions and what they have published *)

Returned == {"returned", "finalized", "completed", "over"}

Finalized == {"finalized", "completed", "over"}

Over == <<"", "over">>

\* An id that no execution runs under has no events.
Unborn(e) ==
    /\ published[e] = <<>> /\ captured[e] = 0 /\ e \notin DOMAIN logs
    /\ \A s \in Steps : step[e][s].phase = "new"

\* When Execute has returned, no step is left to publish anything.
Closed_(e) ==
    /\ \A s \in Steps : step[e][s].phase = "done"
    /\ \E i \in 1..Len(published[e]) : published[e][i] = Over

Told_(e) ==
    /\ exec[e].phase = "none" => Unborn(e)
    /\ exec[e].phase \in Returned => Closed_(e)
    /\ exec[e].phase \in Finalized => Drained(e)

Streaming == \A e \in Ids : Told_(e)

\* A step that can do anything belongs to an execution that runs.
LEMMA SteppingRuns ==
    ASSUME NEW e \in Ids, NEW s \in Steps, Launched, Streaming,
           Stepping(e, s) \/ StepTimeout(e, s)
    PROVE  exec[e].phase = "running"
<1>1. CASE StartStep(e, s) \/ \E ok \in BOOLEAN : Act(e, s, ok)
  <2>1. CanStart(e, s)
    BY <1>1 DEF StartStep, Act
  <2> QED
    BY <2>1 DEF CanStart, Streaming, Told_, Unborn, Closed_, Launched, Execs,
                ExecPhases, Returned
<1>2. ASSUME step[e][s].phase \notin {"new", "done"} PROVE exec[e].phase = "running"
  BY <1>2 DEF Streaming, Told_, Unborn, Closed_, Launched, Execs, ExecPhases, Returned
<1>3. CASE RetryCancelled(e, s) \/ Schedule(e, s) \/ RegisterStep(e, s)
           \/ EmitWaiting(e, s) \/ Taken(e, s)
  BY <1>2, <1>3 DEF RetryCancelled, Schedule, RegisterStep, EmitWaiting, Taken, Waits_
<1>4. CASE GivesUp(e, s) \/ Leave(e, s) \/ StepTimeout(e, s)
  BY <1>2, <1>4 DEF GivesUp, Leave, StepTimeout, Waits_
<1>5. CASE ShovelOpen(e, s) \/ ShovelGet(e, s) \/ ShovelEnds(e, s)
           \/ ShovelPublish(e, s) \/ ShovelSettles(e, s)
  BY <1>2, <1>5 DEF ShovelOpen, ShovelGet, ShovelEnds, ShovelPublish, ShovelSettles,
                    Shovels
<1> QED
  BY <1>1, <1>3, <1>4, <1>5 DEF Stepping

\* What is told of an execution that a step leaves alone.
LEMMA OthersTold ==
    ASSUME NEW e \in Ids, Told_(e), UNCHANGED scn, exec'[e].phase = exec[e].phase,
           published'[e] = published[e], captured'[e] = captured[e],
           step'[e] = step[e], e \in DOMAIN logs' => e \in DOMAIN logs
    PROVE  Told_(e)'
  BY DEF Told_, Unborn, Closed_, Drained, Steps

\* An Add takes logs away and brings none.
LEMMA AddLogs ==
    ASSUME NEW e, NEW status, Add(e, status)
    PROVE  DOMAIN logs' \subseteq DOMAIN logs
  BY DEF Add, Drop, Restrict

LEMMA LaunchTold ==
    ASSUME Launched, Streaming, NEW f \in Ids, NEW src, Launch(f, src)
    PROVE  Streaming'
<1>1. /\ exec' = [exec EXCEPT ![f].phase = "running", ![f].src = src]
      /\ UNCHANGED <<scn, published, captured, step>>
      /\ DOMAIN logs' \subseteq DOMAIN logs
  BY AddLogs DEF Launch
<1>2. exec \in [Ids -> Execs] /\ Ids' = Ids
  BY DEF Launched, Ids
<1>3. exec'[f].phase = "running"
  BY <1>1, <1>2 DEF Execs
<1>4. Told_(f)'
  BY <1>3 DEF Told_, Returned, Finalized
<1>5. ASSUME NEW e \in Ids, e # f PROVE Told_(e)'
  <2>1. exec'[e] = exec[e]
    BY <1>1, <1>2, <1>5
  <2> QED
    BY <1>1, <1>5, <2>1, OthersTold DEF Streaming
<1> QED
  BY <1>2, <1>4, <1>5 DEF Streaming

LEMMA SteppingTold ==
    ASSUME Launched, Steady, Streams, Streaming, DOMAIN at = DOMAIN scn.messages,
           NEW f \in Ids, NEW s \in Steps, Stepping(f, s) \/ StepTimeout(f, s)
    PROVE  Streaming'
<1>1. /\ UNCHANGED <<scn, exec, captured>> /\ Ids' = Ids
      /\ DOMAIN logs' \subseteq DOMAIN logs
  <2>1. CASE Schedule(f, s)
    BY <2>1, AddLogs, SteppingFrame DEF Schedule, Ids
  <2> QED
    BY <2>1, SteppingFrame DEF storeVars, Ids
<1>2. exec[f].phase = "running"
  BY SteppingRuns
<1>3. Told_(f)'
  BY <1>1, <1>2 DEF Told_, Returned, Finalized
<1>4. ASSUME NEW e \in Ids, e # f PROVE Told_(e)'
  <2>1. published'[e] = published[e]
    BY <1>4, SteppingPublishes DEF Publishes, Publish, Streams
  <2>2. step'[e] = step[e]
    BY <1>4, SteppingBecomes DEF Becomes, Steady
  <2> QED
    BY <1>1, <1>4, <2>1, <2>2, OthersTold DEF Streaming
<1> QED
  BY <1>1, <1>3, <1>4 DEF Streaming

\* The last of a sequence is in it.
LEMMA LastIsThere ==
    ASSUME NEW S, NEW q \in Seq(S), NEW x \in S
    PROVE  /\ Len(q \o <<x>>) = Len(q) + 1 /\ Len(q) \in Nat
           /\ (q \o <<x>>)[Len(q) + 1] = x
  OBVIOUS

LEMMA ReturnTold ==
    ASSUME Launched, Streams, Streaming, NEW e \in Ids, Return(e)
    PROVE  Told_(e)'
<1>1. /\ exec' = [exec EXCEPT ![e].phase = "returned", ![e].outcome = Outcome(e)]
      /\ \A s \in Steps : step[e][s].phase = "done"
      /\ UNCHANGED <<scn, step>>
  BY DEF Return, EndOnly
<1>2. exec'[e].phase = "returned"
  BY <1>1 DEF Launched, Execs
<1>3. published[e] \in Seq(Events) /\ Over \in Events
  BY DEF Streams, Events, Words, Over
<1>4. published'[e] = published[e] \o <<Over>>
  BY DEF Return, Publish, Over, Streams
<1>5. /\ Len(published'[e]) = Len(published[e]) + 1 /\ Len(published[e]) \in Nat
      /\ published'[e][Len(published[e]) + 1] = Over
  BY <1>3, <1>4, LastIsThere
<1>6. Closed_(e)'
  <2>1. Len(published[e]) + 1 \in 1..Len(published'[e])
    BY <1>5
  <2>2. \E i \in 1..Len(published'[e]) : published'[e][i] = Over
    BY <1>5, <2>1
  <2> QED
    BY <1>1, <2>2 DEF Closed_, Steps, Over
<1> QED
  BY <1>2, <1>6 DEF Told_, Finalized

LEMMA EndingTold ==
    ASSUME Launched, Streams, Streaming, NEW e \in Ids, Ending(e) \/ Cancel(e)
    PROVE  Streaming'
<1>1. UNCHANGED <<scn, step>> /\ Ids' = Ids /\ Steps' = Steps
  BY EndingFrame DEF Ids, Steps
<1>2. /\ exec \in [Ids -> Execs] /\ published \in [Ids -> Seq(Events)]
      /\ captured \in [Ids -> Nat]
      /\ captured[e] \in Nat /\ Len(published[e]) \in Nat
  BY DEF Launched, Streams
<1>3. Told_(e)
  BY DEF Streaming
<1>4. ASSUME NEW f \in Ids, f # e PROVE Told_(f)'
  <2>1. exec'[f] = exec[f]
    BY <1>2, <1>4 DEF Ending, Return, Capture, Finalize, EnsureCompleted, OnComplete,
                      Cancel
  <2>2. published'[f] = published[f] /\ captured'[f] = captured[f]
    BY <1>2, <1>4 DEF Ending, Return, Capture, Finalize, EnsureCompleted, OnComplete,
                      Cancel, Publish
  <2>3. f \in DOMAIN logs' => f \in DOMAIN logs
    BY <1>4, EndingStore
  <2> QED
    BY <1>1, <1>4, <2>1, <2>2, <2>3, OthersTold DEF Streaming
<1>5. ASSUME Return(e) PROVE Told_(e)'
  BY <1>5, ReturnTold
<1>6. ASSUME Capture(e) PROVE Told_(e)'
  <2>1. UNCHANGED <<exec, published>> /\ captured[e] < Len(published[e])
    BY <1>6 DEF Capture
  <2>2. exec[e].phase # "none"
    <3>1. published[e] # <<>>
      BY <1>2, <2>1
    <3> QED
      BY <1>3, <3>1 DEF Told_, Unborn
  <2>3. exec[e].phase \notin Finalized
    BY <1>2, <1>3, <2>1 DEF Told_, Drained
  <2> QED
    BY <1>1, <1>3, <2>1, <2>2, <2>3 DEF Told_, Closed_
<1>7. ASSUME UNCHANGED <<published, captured>>,
             exec[e].phase \in Returned, Drained(e),
             exec'[e].phase \in Returned
      PROVE  Told_(e)'
  BY <1>1, <1>3, <1>7 DEF Told_, Closed_, Returned, Drained
<1>8. ASSUME Finalize(e) \/ EnsureCompleted(e) \/ OnComplete(e)
      PROVE  Told_(e)'
  <2>1. UNCHANGED <<published, captured>> /\ Drained(e)
    BY <1>3, <1>8 DEF Finalize, EnsureCompleted, OnComplete, Told_, Finalized
  <2>2. exec[e].phase \in Returned /\ exec'[e].phase \in Returned
    BY <1>2, <1>8 DEF Finalize, EnsureCompleted, OnComplete, Returned, Execs
  <2> QED
    BY <1>7, <2>1, <2>2
<1>9. ASSUME Cancel(e) PROVE Told_(e)'
  <2>1. exec'[e].phase = exec[e].phase
    BY <1>2, <1>9 DEF Cancel, Execs
  <2> QED
    BY <1>1, <1>3, <1>9, <2>1, OthersTold DEF Cancel, storeVars
<1>10. Told_(e)'
  BY <1>5, <1>6, <1>8, <1>9 DEF Ending
<1> QED
  BY <1>1, <1>4, <1>10 DEF Streaming

LEMMA NextStreaming ==
    ASSUME Numbered, Launched, Steady, Streams, Streaming,
           DOMAIN at = DOMAIN scn.messages, [Next]_vars
    PROVE  Streaming'
<1>1. CASE UNCHANGED <<scn, exec, step, published, captured, storeVars>>
  BY <1>1, OthersTold DEF Streaming, storeVars, Ids
<1>2. nextId <= scn.ids => nextId \in Ids
  BY ScenariosAssumption, IdsAssumption DEF Launched, Ids
<1>3. ASSUME NEW r \in Requests, Requesting(r) PROVE Streaming'
  <2>1. CASE StartRequest(r)
    <3>1. req[r].phase = "start" /\ Launch(req[r].id, r)
      BY <2>1 DEF StartRequest
    <3>2. req[r].id \in Ids
      BY <3>1, IdsAssumption DEF Numbered, Launched, Ids
    <3> QED
      BY <3>1, <3>2, LaunchTold
  <2> QED
    BY <1>1, <1>3, <2>1, RequestingFrame
<1>4. CASE Consuming
  <2>1. CASE OnMessage
    BY <1>2, <2>1, LaunchTold DEF OnMessage, Fresh
  <2> QED
    BY <1>1, <1>4, <2>1, ConsumingFrame
<1>5. CASE Ticking
  BY <1>2, <1>5, LaunchTold DEF Ticking, Tick, TimerFires, Fresh
<1>6. CASE UNCHANGED vars
  BY <1>1, <1>6 DEF vars, runVars
<1> QED
  BY <1>1, <1>3, <1>4, <1>5, <1>6, NextCases, SteppingTold, EndingTold,
     RoutingFrame, OtherFrame

-----------------------------------------------------------------------------
(* What the store has of each execution that it knows *)

Logged_(e) ==
    /\ LogOf(e) = Told(e)
    /\ exec[e].phase \in Finalized => rows[e].status = exec[e].outcome
    /\ \E status, steps : rows[e] = [status |-> status, steps |-> steps]

Logged == \A e \in DOMAIN rows : Logged_(e)

LEMMA PrefixStays ==
    ASSUME NEW S, NEW q \in Seq(S), NEW r \in Seq(S), NEW k \in Nat, k <= Len(q)
    PROVE  SubSeq(q \o r, 1, k) = SubSeq(q, 1, k)
  OBVIOUS

LEMMA PrefixGrows ==
    ASSUME NEW S, NEW q \in Seq(S), NEW k \in Nat, k < Len(q)
    PROVE  SubSeq(q, 1, k + 1) = Append(SubSeq(q, 1, k), q[k + 1])
<1>1. /\ k + 1 <= Len(q) /\ Len(q) \in Nat
  OBVIOUS
<1>2. /\ SubSeq(q, 1, k + 1) \in Seq(S) /\ Len(SubSeq(q, 1, k + 1)) = k + 1
      /\ \A i \in 1..(k + 1) : SubSeq(q, 1, k + 1)[i] = q[i]
  BY <1>1
<1>3. /\ SubSeq(q, 1, k) \in Seq(S) /\ Len(SubSeq(q, 1, k)) = k
      /\ \A i \in 1..k : SubSeq(q, 1, k)[i] = q[i]
  BY <1>1
<1> QED
  BY <1>1, <1>2, <1>3

LEMMA PublishTold ==
    ASSUME Streams, NEW e \in Ids, Publishes(e), UNCHANGED captured
    PROVE  \A f \in Ids : Told(f)' = Told(f)
<1>1. PICK events \in Seq(Events) : published' = [published EXCEPT ![e] = @ \o events]
  BY DEF Publishes, Publish
<1>2. ASSUME NEW f \in Ids PROVE Told(f)' = Told(f)
  <2>1. /\ published[f] \in Seq(Events) /\ captured[f] \in Nat
        /\ captured[f] <= Len(published[f])
    BY DEF Streams
  <2>2. CASE f = e
    <3>1. published'[f] = published[f] \o events
      BY <1>1, <2>2 DEF Streams
    <3> QED
      BY <2>1, <3>1, PrefixStays DEF Told
  <2>3. CASE f # e
    BY <1>1, <2>3 DEF Streams, Told
  <2> QED
    BY <2>2, <2>3
<1> QED
  BY <1>2

LEMMA SameLogged ==
    ASSUME StoreTypes, Logged, UNCHANGED storeVars,
           \A e \in Ids : Told(e)' = Told(e),
           \A e \in Ids : exec'[e].phase \in Finalized =>
               exec[e].phase \in Finalized /\ exec'[e].outcome = exec[e].outcome
    PROVE  Logged'
<1> SUFFICES ASSUME NEW e \in DOMAIN rows PROVE Logged_(e)'
  BY DEF Logged, storeVars
<1>1. e \in Ids /\ Logged_(e)
  BY DEF StoreTypes, Logged
<1> QED
  BY <1>1 DEF Logged_, LogOf, storeVars

\* A row that is added has no events yet; the others keep theirs.
LEMMA AddLogged ==
    ASSUME StoreTypes, Streaming, Logged, NEW e \in Ids, NEW status, Add(e, status),
           exec[e].phase = "none", exec'[e].phase \notin Finalized,
           \A f \in Ids \ {e} : exec'[f] = exec[f],
           \A f \in Ids : Told(f)' = Told(f)
    PROVE  Logged'
<1>1. /\ rows' = Put(Drop(rows, Evicted), e, [status |-> status, steps |-> <<>>])
      /\ logs' = Drop(logs, Evicted)
  BY DEF Add
<1>2. e \in DOMAIN rows' /\ rows'[e] = [status |-> status, steps |-> <<>>]
  BY <1>1 DEF Put
<1>3. e \notin DOMAIN logs' /\ Told(e) = <<>>
  <2>1. published[e] = <<>> /\ captured[e] = 0 /\ e \notin DOMAIN logs
    BY DEF Streaming, Told_, Unborn
  <2>2. SubSeq(<<>>, 1, 0) = <<>>
    OBVIOUS
  <2> QED
    BY <1>1, <2>1, <2>2 DEF Told, Drop, Restrict
<1>4. Logged_(e)'
  BY <1>2, <1>3 DEF Logged_, LogOf
<1>5. ASSUME NEW f \in DOMAIN rows', f # e PROVE Logged_(f)'
  <2>1. f \in DOMAIN rows /\ f # Evicted /\ rows'[f] = rows[f]
    BY <1>1, <1>5 DEF Put, Drop, Restrict
  <2>2. LogOf(f)' = LogOf(f)
    BY <1>1, <2>1 DEF LogOf, Drop, Restrict
  <2>3. f \in Ids /\ Logged_(f)
    BY <2>1 DEF StoreTypes, Logged
  <2> QED
    BY <1>5, <2>1, <2>2, <2>3 DEF Logged_
<1> QED
  BY <1>4, <1>5 DEF Logged

\* What is written of e leaves the others alone.
LEMMA OthersLogged ==
    ASSUME StoreTypes, Logged, NEW e \in Ids, DOMAIN rows' = DOMAIN rows,
           \A f \in DOMAIN rows \ {e} :
               rows'[f] = rows[f] /\ exec'[f] = exec[f] /\ LogOf(f)' = LogOf(f)
                   /\ Told(f)' = Told(f),
           e \in DOMAIN rows => Logged_(e)'
    PROVE  Logged'
<1>1. ASSUME NEW f \in DOMAIN rows \ {e} PROVE Logged_(f)'
  <2>1. Logged_(f)
    BY DEF Logged
  <2> QED
    BY <2>1 DEF Logged_
<1> QED
  BY <1>1 DEF Logged

LEMMA CaptureLogged ==
    ASSUME StoreTypes, Launched, Streams, Streaming, Logged, NEW e \in Ids, Capture(e)
    PROVE  Logged'
<1>1. /\ UNCHANGED <<exec, published>> /\ captured[e] < Len(published[e])
      /\ captured' = [captured EXCEPT ![e] = @ + 1]
      /\ logs' = Put(logs, e, Append(LogOf(e), NextEvent(e)))
  BY DEF Capture, AppendEvent
<1>2. /\ published[e] \in Seq(Events) /\ captured[e] \in Nat
      /\ captured \in [Ids -> Nat]
  BY DEF Streams
<1>3. exec[e].phase \notin Finalized
  <2>1. Len(published[e]) \in Nat
    BY <1>2
  <2> QED
    BY <1>1, <1>2, <2>1 DEF Streaming, Told_, Drained
<1>4. Told(e)' = Append(Told(e), NextEvent(e))
  BY <1>1, <1>2, PrefixGrows DEF Told, NextEvent
<1>5. LogOf(e)' = Append(LogOf(e), NextEvent(e))
  BY <1>1 DEF LogOf, Put
<1>6. \/ UNCHANGED rows
      \/ e \in DOMAIN rows /\ \E status, steps :
            rows' = [rows EXCEPT ![e] = [status |-> status, steps |-> steps]]
  <2>1. ASSUME NEW s, NEW st, UpdateStep(e, s, st), e \in DOMAIN rows
        PROVE  \E status, steps :
                  rows' = [rows EXCEPT ![e] = [status |-> status, steps |-> steps]]
    BY <2>1 DEF UpdateStep
  <2>2. ASSUME NEW s, NEW st, UpdateStep(e, s, st), e \notin DOMAIN rows
        PROVE  UNCHANGED rows
    BY <2>2 DEF UpdateStep
  <2> QED
    BY <2>1, <2>2 DEF Capture
<1>7. ASSUME e \in DOMAIN rows PROVE Logged_(e)'
  <2>1. Logged_(e)
    BY <1>7 DEF Logged
  <2>2. \E status, steps : rows'[e] = [status |-> status, steps |-> steps]
    <3>1. CASE UNCHANGED rows
      BY <2>1, <3>1 DEF Logged_
    <3>2. CASE \E status, steps :
                  rows' = [rows EXCEPT ![e] = [status |-> status, steps |-> steps]]
      BY <1>7, <3>2
    <3> QED
      BY <1>6, <3>1, <3>2
  <2> QED
    BY <1>1, <1>3, <1>4, <1>5, <2>1, <2>2 DEF Logged_
<1>8. ASSUME NEW f \in DOMAIN rows \ {e}
      PROVE  rows'[f] = rows[f] /\ LogOf(f)' = LogOf(f) /\ Told(f)' = Told(f)
  <2>1. f \in Ids
    BY DEF StoreTypes
  <2>2. rows'[f] = rows[f]
    BY <1>6
  <2>3. LogOf(f)' = LogOf(f)
    BY <1>1 DEF LogOf, Put
  <2> QED
    BY <1>1, <1>2, <2>1, <2>2, <2>3 DEF Told
<1>9. DOMAIN rows' = DOMAIN rows
  BY EndingStore DEF Ending
<1> QED
  BY <1>1, <1>7, <1>8, <1>9, OthersLogged

LEMMA FinalizeLogged ==
    ASSUME StoreTypes, Launched, Logged, NEW e \in Ids, Finalize(e)
    PROVE  Logged'
<1>1. /\ exec' = [exec EXCEPT ![e].phase = "finalized"]
      /\ rows' = IF e \in DOMAIN rows THEN [rows EXCEPT ![e].status = exec[e].outcome]
                 ELSE rows
      /\ UNCHANGED <<published, captured, logs>>
  BY DEF Finalize, UpdateExecution
<1>2. exec'[e].outcome = exec[e].outcome /\ \A f \in Ids \ {e} : exec'[f] = exec[f]
  BY <1>1 DEF Launched, Execs
<1>3. \A f : LogOf(f)' = LogOf(f) /\ Told(f)' = Told(f)
  BY <1>1 DEF LogOf, Told
<1>4. ASSUME e \in DOMAIN rows PROVE Logged_(e)'
  <2>1. Logged_(e)
    BY <1>4 DEF Logged
  <2>2. PICK status, steps : rows[e] = [status |-> status, steps |-> steps]
    BY <2>1 DEF Logged_
  <2>3. rows'[e] = [status |-> exec[e].outcome, steps |-> steps]
    BY <1>1, <1>4, <2>2
  <2>4. \E x, y : rows'[e] = [status |-> x, steps |-> y]
    BY <2>3
  <2>5. LogOf(e)' = Told(e)'
    BY <1>3, <2>1 DEF Logged_
  <2>6. rows'[e].status = exec'[e].outcome
    BY <1>2, <2>3
  <2> QED
    BY <2>4, <2>5, <2>6 DEF Logged_
<1>5. \A f \in DOMAIN rows \ {e} : rows'[f] = rows[f] /\ exec'[f] = exec[f]
  BY <1>1, <1>2 DEF StoreTypes
<1>6. DOMAIN rows' = DOMAIN rows
  BY <1>1
<1> QED
  BY <1>3, <1>4, <1>5, <1>6, OthersLogged

\* A row that is still there has the end of its execution in its log.
LEMMA EnsureLogged ==
    ASSUME StoreTypes, Launched, Streams, Streaming, Logged, NEW e \in Ids,
           EnsureCompleted(e)
    PROVE  Logged'
<1>1. /\ exec[e].phase = "finalized"
      /\ exec' = [exec EXCEPT ![e].phase = "completed"]
      /\ IF Over \in Range(LogOf(e)) THEN UNCHANGED logs ELSE AppendEvent(e, Over)
      /\ UNCHANGED <<published, captured, rows>>
  BY DEF EnsureCompleted, Over
<1>2. exec'[e].outcome = exec[e].outcome /\ \A f \in Ids \ {e} : exec'[f] = exec[f]
  BY <1>1 DEF Launched, Execs
<1>3. \A f : Told(f)' = Told(f)
  BY <1>1 DEF Told
<1>4. ASSUME e \in DOMAIN rows PROVE UNCHANGED logs
  <2>1. /\ LogOf(e) = Told(e)
        /\ captured[e] = Len(published[e])
        /\ published[e] \in Seq(Events)
    BY <1>1, <1>4 DEF Logged, Logged_, Streaming, Told_, Finalized, Drained, Streams
  <2>2. PICK i \in 1..Len(published[e]) : published[e][i] = Over
    BY <1>1 DEF Streaming, Told_, Closed_, Returned
  <2>3. LogOf(e) = published[e]
    BY <2>1 DEF Told
  <2>4. Over \in Range(LogOf(e))
    BY <2>1, <2>2, <2>3 DEF Range
  <2> QED
    BY <1>1, <2>4
<1>5. ASSUME e \in DOMAIN rows PROVE Logged_(e)'
  BY <1>1, <1>2, <1>3, <1>4, <1>5 DEF Logged, Logged_, LogOf, Finalized
<1>6. \A f \in DOMAIN rows \ {e} : LogOf(f)' = LogOf(f) /\ exec'[f] = exec[f]
  BY <1>1, <1>2 DEF StoreTypes, AppendEvent, LogOf, Put
<1> QED
  BY <1>1, <1>3, <1>5, <1>6, OthersLogged

LEMMA EndingLogged ==
    ASSUME StoreTypes, Launched, Streams, Streaming, Logged, NEW e \in Ids,
           Ending(e) \/ Cancel(e)
    PROVE  Logged'
<1>1. CASE Return(e)
  <2>1. /\ exec' = [exec EXCEPT ![e].phase = "returned", ![e].outcome = Outcome(e)]
        /\ exec[e].phase = "running"
        /\ Publish(e, <<Over>>) /\ UNCHANGED <<captured, storeVars>>
    BY <1>1 DEF Return, Over
  <2>2. Over \in Events
    BY DEF Over, Events, Words
  <2>3. Publishes(e)
    BY <2>1, <2>2, ShortSequences DEF Publishes
  <2>4. \A f \in Ids : exec'[f].phase \in Finalized =>
            exec[f].phase \in Finalized /\ exec'[f].outcome = exec[f].outcome
    BY <2>1 DEF Launched, Execs, Finalized
  <2> QED
    BY <2>1, <2>3, <2>4, PublishTold, SameLogged
<1>2. CASE OnComplete(e) \/ Cancel(e)
  <2>1. UNCHANGED <<published, captured, storeVars>>
    BY <1>2 DEF OnComplete, Cancel
  <2>2. \A f \in Ids : exec'[f].phase \in Finalized =>
            exec[f].phase \in Finalized /\ exec'[f].outcome = exec[f].outcome
    <3>1. CASE OnComplete(e)
      BY <3>1 DEF OnComplete, Launched, Execs, Finalized
    <3>2. CASE Cancel(e)
      BY <3>2 DEF Cancel, Launched, Execs, Finalized
    <3> QED
      BY <1>2, <3>1, <3>2
  <2>3. \A f \in Ids : Told(f)' = Told(f)
    BY <2>1 DEF Told
  <2> QED
    BY <2>1, <2>2, <2>3, SameLogged
<1> QED
  BY <1>1, <1>2, CaptureLogged, FinalizeLogged, EnsureLogged DEF Ending

LEMMA LaunchLogged ==
    ASSUME StoreTypes, Launched, Streaming, Logged, NEW e \in Ids, NEW src,
           Launch(e, src), exec[e].phase = "none"
    PROVE  Logged'
<1>1. /\ Add(e, "running")
      /\ exec' = [exec EXCEPT ![e].phase = "running", ![e].src = src]
      /\ UNCHANGED <<published, captured>>
  BY DEF Launch
<1>2. exec'[e].phase \notin Finalized /\ \A f \in Ids \ {e} : exec'[f] = exec[f]
  BY <1>1 DEF Launched, Execs, Finalized
<1>3. \A f \in Ids : Told(f)' = Told(f)
  BY <1>1 DEF Told
<1> QED
  BY <1>1, <1>2, <1>3, AddLogged

LEMMA NextLogged ==
    ASSUME Numbered, Launched, StoreTypes, Streams, Streaming, Logged, [Next]_vars
    PROVE  Logged'
<1>1. CASE UNCHANGED <<exec, published, captured, storeVars>>
  BY <1>1, SameLogged DEF Told
<1>2. /\ nextId <= scn.ids => nextId \in Ids
      /\ nextId \in Ids => exec[nextId].phase = "none"
  BY ScenariosAssumption, IdsAssumption DEF Launched, Ids
<1>3. ASSUME NEW src, Fresh(nextId), Launch(nextId, src) PROVE Logged'
  BY <1>2, <1>3, LaunchLogged DEF Fresh
<1>4. ASSUME NEW r \in Requests, Requesting(r) PROVE Logged'
  <2>1. CASE StartRequest(r)
    <3>1. req[r].phase = "start" /\ Launch(req[r].id, r)
      BY <2>1 DEF StartRequest
    <3>2. req[r].id \in Ids /\ exec[req[r].id].phase = "none"
      BY <3>1, IdsAssumption DEF Numbered, Launched, Ids
    <3> QED
      BY <3>1, <3>2, LaunchLogged
  <2> QED
    BY <1>1, <1>4, <2>1, RequestingFrame
<1>5. CASE Consuming
  <2>1. CASE OnMessage
    BY <1>3, <2>1 DEF OnMessage
  <2> QED
    BY <1>1, <1>5, <2>1, ConsumingFrame
<1>6. CASE Ticking
  BY <1>3, <1>6 DEF Ticking, Tick, TimerFires
<1>7. ASSUME NEW e \in Ids, NEW s \in Steps, Stepping(e, s) \/ StepTimeout(e, s)
      PROVE  Logged'
  <2>1. \A f \in Ids : Told(f)' = Told(f)
    <3>1. CASE Publishes(e)
      BY <1>7, <3>1, PublishTold, SteppingFrame
    <3>2. CASE UNCHANGED published
      BY <1>7, <3>2, SteppingFrame DEF Told
    <3> QED
      BY <1>7, <3>1, <3>2, SteppingPublishes
  <2>2. UNCHANGED exec
    BY <1>7, SteppingFrame
  <2>3. CASE Schedule(e, s)
    <3>1. Add(nextId, "scheduled") /\ nextId \in Ids
      BY <1>2, <2>3 DEF Schedule, Fresh
    <3> QED
      BY <1>2, <2>1, <2>2, <3>1, AddLogged DEF Finalized
  <2>4. CASE UNCHANGED storeVars
    BY <2>1, <2>2, <2>4, SameLogged
  <2> QED
    BY <1>7, <2>3, <2>4, SteppingFrame
<1>8. CASE UNCHANGED vars
  BY <1>1, <1>8 DEF vars, runVars
<1> QED
  BY <1>1, <1>4, <1>5, <1>6, <1>7, <1>8, NextCases, EndingLogged, RoutingFrame,
     OtherFrame

Store == Listed /\ Streaming /\ Logged

LEMMA InitStore == Init => Store
<1> SUFFICES ASSUME Init PROVE Store
  OBVIOUS
<1>1. /\ added = <<>> /\ rows = <<>> /\ logs = <<>> /\ head = 0 /\ count = 0
      /\ buffer = [i \in 0..(Capacity - 1) |-> NoRow]
      /\ \A r \in Requests : req[r].phase = "none"
      /\ \A e \in Ids : /\ exec[e].phase = "none"
                        /\ published[e] = <<>> /\ captured[e] = 0
                        /\ \A s \in Steps : step[e][s].phase = "new"
  BY DEF Init, StoreInit, NewStep
<1>2. <<>> \in Seq(Ids) /\ Len(<<>>) = 0 /\ DOMAIN <<>> = {}
  OBVIOUS
<1>3. Ring(added)
  <2>1. 1..0 = {}
    OBVIOUS
  <2> QED
    BY <1>1, <1>2, <2>1, CapacityAssumption DEF Ring, Recent
<1>4. Listed
  BY <1>1, <1>2, <1>3 DEF Listed, Apart
<1>5. Streaming
  BY <1>1, <1>2 DEF Streaming, Told_, Unborn, Returned, Finalized
<1>6. Logged
  BY <1>1, <1>2 DEF Logged
<1> QED
  BY <1>4, <1>5, <1>6 DEF Store

LEMMA StoreHolds == Spec => [](Inv /\ StoreTypes /\ Streams /\ Store)
<1>1. Inv /\ StoreTypes /\ Streams /\ Store /\ [Next]_vars => Store'
  BY NextListed, NextStreaming, NextLogged DEF Inv, Store, Queued
<1> QED
  BY <1>1, InitStore, TypesHold, PTL DEF Spec

LEMMA LastPart ==
    ASSUME NEW S, NEW q \in Seq(S), NEW k \in Nat, k <= Len(q)
    PROVE  /\ Len(SubSeq(q, Len(q) - k + 1, Len(q))) = k
           /\ \A i \in 1..k :
                 SubSeq(q, Len(q) - k + 1, Len(q))[i] = q[Len(q) - k + i]
<1>1. PICK m \in 1..(Len(q) + 1) : m = Len(q) - k + 1
  OBVIOUS
<1>2. /\ Len(SubSeq(q, m, Len(q))) = Len(q) - m + 1
      /\ \A i \in 1..(Len(q) - m + 1) : SubSeq(q, m, Len(q))[i] = q[m + i - 1]
  OBVIOUS
<1>3. Len(q) - m + 1 = k /\ \A i \in 1..k : m + i - 1 = Len(q) - k + i
  BY <1>1
<1> QED
  BY <1>1, <1>2, <1>3

\* Newest is the sequence of the count newest ids, the newest of all first.
LEMMA NewestIsRecent ==
    ASSUME added \in Seq(Ids), count \in Nat, count <= Len(added)
    PROVE  Newest = [i \in 1..count |-> Newer(added, i)]
<1> DEFINE n == Len(added)
           q == SubSeq(added, n - count + 1, n)
<1>1. n \in Nat /\ n - count + 1 \in 1..(n + 1)
  OBVIOUS
<1>2. Len(q) = count /\ \A i \in 1..count : q[i] = added[n - count + i]
  BY <1>1, LastPart
<1>3. Newest = [i \in 1..Len(q) |-> q[(Len(q) - i) + 1]]
  BY DEF Newest, Reverse
<1>4. ASSUME NEW i \in 1..count PROVE q[(count - i) + 1] = Newer(added, i)
  <2> HIDE DEF q
  <2>1. (count - i) + 1 \in 1..count /\ n - count + ((count - i) + 1) = n + 1 - i
    BY <1>1
  <2> QED
    BY <1>2, <2>1 DEF Newer
<1> HIDE DEF q
<1> QED
  BY <1>2, <1>3, <1>4

LEMMA MinOfTwo ==
    ASSUME NEW a \in Nat, NEW b \in Nat
    PROVE  Min({a, b}) = IF a < b THEN a ELSE b
  BY DEF Min

\* The store knows the newest executions and no others, each with all its
\* events so far and, once it is over, with the status its run ended with,
\* however executions overlap and push each other out of the ring (Add, List,
\* captureEvents, finalizeExecution, ensureWorkflowCompleted).
THEOREM RingTellsHolds == Spec => []RingTells
<1>1. Inv /\ StoreTypes /\ Streams /\ Store => RingTells
  <2> SUFFICES ASSUME Inv, StoreTypes, Streams, Store PROVE RingTells
    OBVIOUS
  <2>1. /\ added \in Seq(Ids) /\ Ring(added) /\ Len(added) \in Nat
        /\ Capacity \in Nat \ {0}
    BY CapacityAssumption DEF Store, Listed
  <2>2. count = IF Len(added) < Capacity THEN Len(added) ELSE Capacity
    BY <2>1 DEF Ring, Recent
  <2>3. count = Min({Len(added), Capacity})
    BY <2>1, <2>2, MinOfTwo
  <2>4. count \in Nat /\ count <= Len(added)
    BY <2>1, <2>2
  <2>5. Newest = [i \in 1..count |-> Newer(added, i)]
    BY <2>1, <2>4, NewestIsRecent
  <2>6. List = Newest
    BY <2>1, <2>5, ListsNewest
  <2>7. DOMAIN rows = Range(Newest)
    BY <2>1, <2>5 DEF Ring, Recent, Range
  <2>8. ASSUME NEW e \in DOMAIN rows
        PROVE  /\ LogOf(e) = Told(e)
               /\ exec[e].phase = "over" =>
                     rows[e].status = exec[e].outcome /\ Drained(e)
    <3>1. e \in Ids /\ Logged_(e) /\ Told_(e)
      BY DEF StoreTypes, Store, Logged, Streaming
    <3> QED
      BY <3>1 DEF Logged_, Told_, Finalized
  <2> QED
    BY <2>3, <2>6, <2>7, <2>8 DEF RingTells
<1> QED
  BY <1>1, StoreHolds, PTL

\* Counting up from 0 one meets every number up to m.
LEMMA CountingUp ==
    ASSUME NEW m \in Nat, NEW T, 0 \in T,
           \A n \in 0..(m - 1) : n \in T => n + 1 \in T
    PROVE  \A n \in 0..m : n \in T
<1> SUFFICES ASSUME NEW n \in 0..m, n \notin T PROVE FALSE
  OBVIOUS
<1> DEFINE A == {x \in 0..n : x \in T}
           f == [x \in A |-> x + 1]
<1>1. IsFiniteSet(A)
  BY FS_Interval, FS_Subset, 0 \in Int, n \in Int
<1>2. f \in [A -> A]
  <2> SUFFICES ASSUME NEW x \in A PROVE x + 1 \in A
    OBVIOUS
  <2>1. x # n /\ x \in 0..n
    OBVIOUS
  <2>2. x \in 0..(m - 1) /\ x + 1 \in 0..n
    BY <2>1
  <2> QED
    BY <2>2
<1>3. f \in Injection(A, A)
  <2>1. \A x, y \in A : f[x] = f[y] => x = y
    OBVIOUS
  <2> QED
    BY <1>2, <2>1 DEF Injection, IsInjective
<1>4. f \in Surjection(A, A)
  BY <1>1, <1>3, FS_Injection
<1>5. 0 \in A
  OBVIOUS
<1>6. PICK x \in A : f[x] = 0
  BY <1>4, <1>5 DEF Surjection
<1> QED
  BY <1>6

-----------------------------------------------------------------------------
(* What Only keeps *)

\* g is the function Only is defined by, on 0..k.
Keeping(g, q, S, k) ==
    g = [n \in 0..k |-> IF n = 0 THEN <<>>
                        ELSE IF q[n] \in S THEN Append(g[n - 1], q[n])
                        ELSE g[n - 1]]

LEMMA KeepingExists ==
    ASSUME NEW m \in Nat, NEW q, NEW S
    PROVE  \E g : Keeping(g, q, S, m)
<1> DEFINE T == {k \in 0..m : \E g : Keeping(g, q, S, k)}
<1>1. 0 \in T
  <2> DEFINE h == [n \in 0..0 |-> <<>>]
  <2>1. Keeping(h, q, S, 0)
    BY DEF Keeping
  <2> QED
    BY <2>1
<1>2. ASSUME NEW k \in 0..(m - 1), k \in T PROVE k + 1 \in T
  <2>1. PICK g : Keeping(g, q, S, k)
    BY <1>2
  <2> DEFINE h == [n \in 0..(k + 1) |->
                      IF n \in 0..k THEN g[n]
                      ELSE IF q[n] \in S THEN Append(g[n - 1], q[n]) ELSE g[n - 1]]
  <2>2. \A n \in 0..k : h[n] = g[n]
    OBVIOUS
  <2>3. ASSUME NEW n \in 0..(k + 1)
        PROVE  h[n] = IF n = 0 THEN <<>>
                      ELSE IF q[n] \in S THEN Append(h[n - 1], q[n]) ELSE h[n - 1]
    <3>1. CASE n = 0
      <4>1. g[0] = <<>>
        BY <2>1 DEF Keeping
      <4> QED
        BY <2>2, <3>1, <4>1
    <3>2. CASE n \in 0..k /\ n # 0
      <4>1. g[n] = IF q[n] \in S THEN Append(g[n - 1], q[n]) ELSE g[n - 1]
        BY <2>1, <3>2 DEF Keeping
      <4>2. n - 1 \in 0..k
        BY <3>2
      <4> QED
        BY <2>2, <3>2, <4>1, <4>2
    <3>3. CASE n \notin 0..k
      <4>1. n - 1 \in 0..k /\ n # 0
        BY <3>3
      <4>2. h[n - 1] = g[n - 1]
        BY <2>2, <4>1
      <4>3. h[n] = IF q[n] \in S THEN Append(g[n - 1], q[n]) ELSE g[n - 1]
        BY <3>3
      <4> QED
        BY <4>1, <4>2, <4>3
    <3> QED
      BY <3>1, <3>2, <3>3
  <2>4. Keeping(h, q, S, k + 1)
    <3> HIDE DEF h
    <3>1. DOMAIN h = 0..(k + 1) /\ h = [n \in 0..(k + 1) |-> h[n]]
      BY DEF h
    <3> QED
      BY <2>3, <3>1 DEF Keeping
  <2>5. k + 1 \in 0..m
    OBVIOUS
  <2> QED
    BY <2>4, <2>5
<1>3. m \in T
  <2> HIDE DEF T
  <2> QED
    BY <1>1, <1>2, CountingUp, m \in 0..m
<1> QED
  BY <1>3

LEMMA OnlyIs ==
    ASSUME NEW q, Len(q) \in Nat, NEW S
    PROVE  \E g : Keeping(g, q, S, Len(q)) /\ Only(q, S) = g[Len(q)]
<1> DEFINE g == CHOOSE h : Keeping(h, q, S, Len(q))
<1>1. Keeping(g, q, S, Len(q))
  BY KeepingExists
<1>2. Only(q, S) = g[Len(q)]
  BY DEF Only, Keeping
<1> QED
  BY <1>1, <1>2

\* The entries of q up to n that are in S.
Upto(q, S, n) == {q[i] : i \in {j \in 1..n : q[j] \in S}}

Entries(q) == {q[i] : i \in 1..Len(q)}

LEMMA OneMore ==
    ASSUME NEW X, NEW p \in Seq(X), NEW x \in X
    PROVE  /\ Append(p, x) \in Seq(X) /\ Len(p) \in Nat
           /\ Len(Append(p, x)) = Len(p) + 1
           /\ Append(p, x)[Len(p) + 1] = x
           /\ \A i \in 1..Len(p) : Append(p, x)[i] = p[i]
           /\ Entries(Append(p, x)) = Entries(p) \cup {x}
<1> DEFINE n == Len(p)
           r == Append(p, x)
<1>1. /\ r \in Seq(X) /\ n \in Nat
      /\ Len(r) = n + 1
      /\ r[n + 1] = x
      /\ \A i \in 1..n : r[i] = p[i]
  OBVIOUS
<1>2. 1..(n + 1) = (1..n) \cup {n + 1}
  BY <1>1
<1>3. Entries(r) = Entries(p) \cup {x}
  <2> HIDE DEF r
  <2>1. Entries(r) = {r[i] : i \in (1..n) \cup {n + 1}}
    BY <1>1, <1>2 DEF Entries
  <2>2. Entries(p) = {p[i] : i \in 1..n}
    BY DEF Entries
  <2> HIDE DEF n
  <2> QED
    BY <1>1, <2>1, <2>2
<1> QED
  BY <1>1, <1>3

\* Only(q, S) has the entries of q that are in S, each once if q has each once.
LEMMA OnlyKeeps ==
    ASSUME NEW X, NEW q \in Seq(X), NEW S
    PROVE  /\ Only(q, S) \in Seq(X)
           /\ Entries(Only(q, S)) = Entries(q) \cap S
           /\ Apart(q) => Apart(Only(q, S))
<1> DEFINE m == Len(q)
<1>1. m \in Nat /\ \A i \in 1..m : q[i] \in X
  OBVIOUS
<1>2. PICK g : Keeping(g, q, S, m) /\ Only(q, S) = g[m]
  BY <1>1, OnlyIs
<1>3. /\ g[0] = <<>>
      /\ \A n \in 0..(m - 1) : g[n + 1] =
            IF q[n + 1] \in S THEN Append(g[n], q[n + 1]) ELSE g[n]
  <2>1. \A n \in 0..m : g[n] = IF n = 0 THEN <<>>
                               ELSE IF q[n] \in S THEN Append(g[n - 1], q[n])
                               ELSE g[n - 1]
    BY <1>2 DEF Keeping
  <2>2. \A n \in 0..(m - 1) : n + 1 \in 0..m /\ n + 1 # 0 /\ (n + 1) - 1 = n
    BY <1>1
  <2>3. 0 \in 0..m
    BY <1>1
  <2> HIDE DEF m
  <2> QED
    BY <2>1, <2>2, <2>3
<1> DEFINE Right(n) == /\ g[n] \in Seq(X)
                       /\ Entries(g[n]) = Upto(q, S, n)
                       /\ Apart(q) => Apart(g[n])
           T == {n \in 0..m : Right(n)}
<1>4. 0 \in T
  <2>1. <<>> \in Seq(X) /\ Len(<<>>) = 0 /\ 1..0 = {}
    OBVIOUS
  <2>2. Upto(q, S, 0) = {} /\ Entries(<<>>) = {} /\ Apart(<<>>)
    BY <2>1 DEF Entries, Upto, Apart
  <2>3. Right(0)
    BY <1>3, <2>1, <2>2
  <2> QED
    BY <1>1, <2>3
<1>5. ASSUME NEW n \in 0..(m - 1), n \in T PROVE n + 1 \in T
  <2>1. n + 1 \in 1..m /\ n + 1 \in 0..m /\ q[n + 1] \in X
    BY <1>1
  <2>2. g[n] \in Seq(X) /\ Entries(g[n]) = Upto(q, S, n)
        /\ (Apart(q) => Apart(g[n]))
    BY <1>5
  <2>3. 1..(n + 1) = (1..n) \cup {n + 1}
    OBVIOUS
  <2>4. CASE q[n + 1] \notin S
    <3>1. g[n + 1] = g[n]
      BY <1>3, <2>4
    <3>2. Upto(q, S, n + 1) = Upto(q, S, n)
      BY <2>3, <2>4 DEF Upto
    <3> QED
      BY <2>1, <2>2, <3>1, <3>2
  <2>5. CASE q[n + 1] \in S
    <3> DEFINE p == g[n]
    <3>1. g[n + 1] = Append(p, q[n + 1])
      BY <1>3, <2>5
    <3>2. Upto(q, S, n + 1) = Upto(q, S, n) \cup {q[n + 1]}
      BY <2>3, <2>5 DEF Upto
    <3>3. /\ Append(p, q[n + 1]) \in Seq(X)
          /\ Entries(Append(p, q[n + 1])) = Entries(p) \cup {q[n + 1]}
      BY <2>1, <2>2, OneMore
    <3>4. ASSUME Apart(q) PROVE Apart(Append(p, q[n + 1]))
      <4>1. q[n + 1] \notin Entries(p)
        <5>1. \A i \in 1..n : q[i] # q[n + 1]
          <6>1. \A i \in 1..n : i \in 1..m /\ i # n + 1
            BY <1>1
          <6> QED
            BY <2>1, <3>4, <6>1 DEF Apart
        <5> QED
          BY <2>2, <5>1 DEF Upto
      <4>2. /\ Len(p) \in Nat /\ Len(Append(p, q[n + 1])) = Len(p) + 1
            /\ Append(p, q[n + 1])[Len(p) + 1] = q[n + 1]
            /\ \A i \in 1..Len(p) : Append(p, q[n + 1])[i] = p[i]
        BY <2>1, <2>2, OneMore
      <4>3. Apart(p)
        BY <2>2, <3>4
      <4> HIDE DEF p
      <4>4. 1..(Len(p) + 1) = (1..Len(p)) \cup {Len(p) + 1}
        BY <4>2
      <4> QED
        BY <4>1, <4>2, <4>3, <4>4 DEF Apart, Entries
    <3> QED
      BY <2>1, <2>2, <3>1, <3>2, <3>3, <3>4
  <2> QED
    BY <2>4, <2>5
<1>6. Right(m)
  <2>1. m \in 0..m
    BY <1>1
  <2>2. m \in T
    <3> HIDE DEF T, m
    <3> QED
      BY <1>1, <1>4, <1>5, <2>1, CountingUp
  <2> QED
    BY <2>2
<1>7. Upto(q, S, m) = Entries(q) \cap S
  BY DEF Upto, Entries
<1> QED
  BY <1>2, <1>6, <1>7

\* Only(q, S) is q if all entries of q are in S.
LEMMA OnlyAll ==
    ASSUME NEW X, NEW q \in Seq(X), NEW S, Entries(q) \subseteq S
    PROVE  Only(q, S) = q
<1> DEFINE m == Len(q)
<1>1. m \in Nat /\ \A i \in 1..m : q[i] \in X /\ q[i] \in S
  BY DEF Entries
<1>2. PICK g : Keeping(g, q, S, m) /\ Only(q, S) = g[m]
  BY <1>1, OnlyIs
<1>3. /\ g[0] = <<>>
      /\ \A n \in 0..(m - 1) : g[n + 1] = Append(g[n], q[n + 1])
  <2>1. \A n \in 0..m : g[n] = IF n = 0 THEN <<>>
                               ELSE IF q[n] \in S THEN Append(g[n - 1], q[n])
                               ELSE g[n - 1]
    BY <1>2 DEF Keeping
  <2>2. \A n \in 0..(m - 1) : n + 1 \in 0..m /\ n + 1 # 0 /\ (n + 1) - 1 = n
                              /\ q[n + 1] \in S
    BY <1>1
  <2>3. 0 \in 0..m
    BY <1>1
  <2> HIDE DEF m
  <2> QED
    BY <2>1, <2>2, <2>3
<1> DEFINE T == {n \in 0..m : g[n] = SubSeq(q, 1, n)}
<1>4. 0 \in T
  <2>1. SubSeq(q, 1, 0) = <<>> /\ 0 \in 0..m
    BY <1>1
  <2> QED
    BY <1>3, <2>1
<1>5. ASSUME NEW n \in 0..(m - 1), n \in T PROVE n + 1 \in T
  <2>1. n \in Nat /\ n < Len(q) /\ n + 1 \in 0..m
    BY <1>1
  <2>2. SubSeq(q, 1, n + 1) = Append(SubSeq(q, 1, n), q[n + 1])
    BY <2>1, PrefixGrows
  <2> QED
    BY <1>3, <1>5, <2>1, <2>2
<1>6. g[m] = SubSeq(q, 1, m)
  <2>1. m \in 0..m
    BY <1>1
  <2>2. m \in T
    <3> HIDE DEF T, m
    <3> QED
      BY <1>1, <1>4, <1>5, <2>1, CountingUp
  <2> QED
    BY <2>2
<1>7. SubSeq(q, 1, Len(q)) = q
  OBVIOUS
<1> QED
  BY <1>2, <1>6, <1>7
-----------------------------------------------------------------------------
(* Pages *)

LEMMA PartsJoin ==
    ASSUME NEW X, NEW q \in Seq(X), NEW a \in Nat, NEW b \in Nat, a <= b, b <= Len(q)
    PROVE  SubSeq(q, 1, a) \o SubSeq(q, a + 1, b) = SubSeq(q, 1, b)
<1> DEFINE l == SubSeq(q, 1, a)
           r == SubSeq(q, a + 1, b)
           w == SubSeq(q, 1, b)
<1>1. Len(q) \in Nat
  OBVIOUS
<1>2. l \in Seq(X) /\ Len(l) = a /\ \A i \in 1..a : l[i] = q[i]
  BY <1>1
<1>3. r \in Seq(X) /\ Len(r) = b - a /\ \A i \in 1..(b - a) : r[i] = q[a + i]
  <2>1. \A i \in 1..(b - a) : (a + 1) + i - 1 = a + i
    OBVIOUS
  <2>2. a + 1 \in Nat /\ b - (a + 1) + 1 = b - a
    OBVIOUS
  <2> QED
    BY <1>1, <2>1, <2>2
<1>4. w \in Seq(X) /\ Len(w) = b /\ \A i \in 1..b : w[i] = q[i]
  BY <1>1
<1> HIDE DEF l, r, w
<1>5. l \o r \in Seq(X) /\ Len(l \o r) = b
  BY <1>2, <1>3
<1>6. ASSUME NEW i \in 1..b PROVE (l \o r)[i] = w[i]
  <2>1. CASE i <= a
    BY <1>2, <1>3, <1>4, <2>1
  <2>2. CASE i > a
    <3>1. i - a \in 1..(b - a) /\ a + (i - a) = i
      BY <2>2
    <3>2. (l \o r)[i] = r[i - a]
      BY <1>2, <1>3, <2>2
    <3> QED
      BY <1>3, <1>4, <3>1, <3>2
  <2>3. i <= a \/ i > a
    OBVIOUS
  <2> QED
    BY <2>1, <2>2, <2>3
<1> QED
  BY <1>4, <1>5, <1>6

LEMMA PageIs ==
    ASSUME NEW X, NEW q \in Seq(X), NEW n \in 0..Len(q), NEW limit \in Nat
    PROVE  paginateExecutions(q, n, limit) =
              SubSeq(q, n + 1, IF n + limit < Len(q) THEN n + limit ELSE Len(q))
<1>1. Len(q) \in Nat /\ n \in Nat /\ n <= Len(q) /\ n + limit \in Nat
  OBVIOUS
<1>2. parseIntParam(n, 0) = n /\ parseIntParam(limit, 20) = limit
  BY <1>1 DEF parseIntParam
<1>3. Min({n, Len(q)}) = n
  BY <1>1, MinOfTwo
<1>4. Min({n + limit, Len(q)}) = IF n + limit < Len(q) THEN n + limit ELSE Len(q)
  BY <1>1, MinOfTwo
<1> QED
  BY <1>2, <1>3, <1>4 DEF paginateExecutions

\* The pages of a list put together are the list.
LEMMA PagesJoin ==
    ASSUME NEW X, NEW q \in Seq(X)
    PROVE  /\ paginateExecutions(q, 0, Len(q)) = q
           /\ \A n \in 0..Len(q), limit \in Nat :
                 paginateExecutions(q, 0, n) \o paginateExecutions(q, n, limit)
                    = paginateExecutions(q, 0, n + limit)
<1>1. Len(q) \in Nat /\ 0 \in 0..Len(q) /\ SubSeq(q, 1, Len(q)) = q
  OBVIOUS
<1>2. ASSUME NEW l \in Nat
      PROVE  paginateExecutions(q, 0, l) =
                SubSeq(q, 1, IF l < Len(q) THEN l ELSE Len(q))
  <2>1. paginateExecutions(q, 0, l) =
           SubSeq(q, 0 + 1, IF 0 + l < Len(q) THEN 0 + l ELSE Len(q))
    BY <1>1, PageIs
  <2>2. 0 + 1 = 1 /\ 0 + l = l
    OBVIOUS
  <2> QED
    BY <2>1, <2>2
<1>3. paginateExecutions(q, 0, Len(q)) = q
  BY <1>1, <1>2
<1>4. ASSUME NEW n \in 0..Len(q), NEW limit \in Nat
      PROVE  paginateExecutions(q, 0, n) \o paginateExecutions(q, n, limit)
                = paginateExecutions(q, 0, n + limit)
  <2> DEFINE end == IF n + limit < Len(q) THEN n + limit ELSE Len(q)
  <2>1. n \in Nat /\ n <= Len(q) /\ n + limit \in Nat
    BY <1>1
  <2>2. end \in Nat /\ n <= end /\ end <= Len(q)
    BY <1>1, <2>1
  <2>3. paginateExecutions(q, 0, n) = SubSeq(q, 1, n)
    <3>1. PICK m \in Nat : m = Len(q)
      BY <1>1
    <3>2. n < m \/ n = m
      BY <2>1, <3>1
    <3> QED
      BY <1>2, <2>1, <3>1, <3>2
  <2>4. paginateExecutions(q, n, limit) = SubSeq(q, n + 1, end)
    BY PageIs
  <2>5. paginateExecutions(q, 0, n + limit) = SubSeq(q, 1, end)
    BY <1>2, <2>1
  <2> HIDE DEF end
  <2> QED
    BY <2>1, <2>2, <2>3, <2>4, <2>5, PartsJoin
<1> QED
  BY <1>3, <1>4

LEMMA Reversed ==
    ASSUME NEW X, NEW q \in Seq(X)
    PROVE  Reverse(q) \in Seq(X) /\ Len(Reverse(q)) = Len(q)
<1>1. Len(q) \in Nat /\ \A i \in 1..Len(q) : (Len(q) - i) + 1 \in 1..Len(q)
  OBVIOUS
<1>2. Reverse(q) = [i \in 1..Len(q) |-> q[(Len(q) - i) + 1]]
  BY DEF Reverse
<1> QED
  BY <1>1, <1>2

\* Newest has each execution of the store once.
LEMMA NewestOnce ==
    ASSUME Inv, StoreTypes, Streams, Store
    PROVE  /\ Newest \in Seq(Ids) /\ List = Newest /\ Apart(Newest)
           /\ Entries(Newest) = DOMAIN rows
<1>1. /\ added \in Seq(Ids) /\ Apart(added) /\ Ring(added) /\ Len(added) \in Nat
      /\ Capacity \in Nat \ {0}
  BY CapacityAssumption DEF Store, Listed
<1>2. count \in Nat /\ count <= Len(added) /\ DOMAIN rows = {Newer(added, i) : i \in 1..count}
  BY <1>1 DEF Ring, Recent
<1>3. Newest = [i \in 1..count |-> Newer(added, i)]
  BY <1>1, <1>2, NewestIsRecent
<1>4. \A i \in 1..count : Len(added) + 1 - i \in 1..Len(added)
  BY <1>1, <1>2
<1>5. \A i \in 1..count : Newer(added, i) \in Ids
  BY <1>1, <1>4 DEF Newer
<1>6. Newest \in Seq(Ids) /\ Len(Newest) = count
  BY <1>2, <1>3, <1>5
<1>7. Apart(Newest)
  <2> SUFFICES ASSUME NEW i \in 1..count, NEW j \in 1..count,
                      Newer(added, i) = Newer(added, j)
               PROVE  i = j
    BY <1>3, <1>6 DEF Apart
  <2>1. Len(added) + 1 - i = Len(added) + 1 - j
    BY <1>1, <1>4 DEF Newer, Apart
  <2> QED
    BY <1>1, <2>1
<1>8. Entries(Newest) = DOMAIN rows
  BY <1>2, <1>3, <1>6 DEF Entries
<1>9. List = Newest
  BY <1>1, <1>3, ListsNewest
<1> QED
  BY <1>6, <1>7, <1>8, <1>9
\* A listing is what was asked for, in the order asked for.
LEMMA ListingIs ==
    ASSUME Inv, StoreTypes, Streams, Store, NEW F
    PROVE  LET all == Only(Newest, {e \in DOMAIN rows : F = {} \/ rows[e].status \in F})
           IN  /\ filterByStatus(List, F) = all /\ all \in Seq(Ids)
               /\ \A order : sortExecutions(all, order) =
                     IF order = "asc" THEN Reverse(all) ELSE all
<1> DEFINE S == {e \in DOMAIN rows : F = {} \/ rows[e].status \in F}
<1>1. /\ Newest \in Seq(Ids) /\ List = Newest /\ Entries(Newest) = DOMAIN rows
  BY NewestOnce
<1>2. Only(Newest, S) \in Seq(Ids)
  BY <1>1, OnlyKeeps
<1>3. CASE F = {}
  <2>1. S = DOMAIN rows
    BY <1>3
  <2>2. Only(Newest, S) = Newest
    BY <1>1, <2>1, OnlyAll
  <2> QED
    BY <1>1, <1>2, <1>3, <2>2 DEF filterByStatus, sortExecutions
<1>4. CASE F # {}
  <2>1. S = {e \in DOMAIN rows : rows[e].status \in F}
    BY <1>4
  <2> QED
    BY <1>1, <1>2, <1>4, <2>1 DEF filterByStatus, sortExecutions
<1> QED
  BY <1>3, <1>4

LEMMA ExecutionPages ==
    ASSUME Inv, StoreTypes, Streams, Store, NEW F
    PROVE  LET all == Only(Newest, {e \in DOMAIN rows : F = {} \/ rows[e].status \in F})
               Page(order, offset, limit) ==
                   handleListExecutions(F, order, offset, limit).items
           IN  /\ handleListExecutions(F, "desc", 0, 1).total = Len(all)
               /\ Page("desc", 0, Len(all)) = all
               /\ Page("asc", 0, Len(all)) = Reverse(all)
               /\ \A order \in {"asc", "desc"}, n \in 0..Len(all), limit \in 1..2 :
                     Page(order, 0, n) \o Page(order, n, limit) = Page(order, 0, n + limit)
<1> DEFINE all == Only(Newest, {e \in DOMAIN rows : F = {} \/ rows[e].status \in F})
           Page(order, offset, limit) ==
               handleListExecutions(F, order, offset, limit).items
<1>1. /\ filterByStatus(List, F) = all /\ all \in Seq(Ids)
      /\ \A order : sortExecutions(all, order) =
            IF order = "asc" THEN Reverse(all) ELSE all
  BY ListingIs
<1> HIDE DEF all
<1>2. Reverse(all) \in Seq(Ids) /\ Len(Reverse(all)) = Len(all)
  BY <1>1, Reversed
<1>3. \A order, offset, limit :
         Page(order, offset, limit) =
            paginateExecutions(IF order = "asc" THEN Reverse(all) ELSE all, offset, limit)
  BY <1>1 DEF handleListExecutions
<1>4. handleListExecutions(F, "desc", 0, 1).total = Len(all)
  BY <1>1 DEF handleListExecutions
<1> HIDE DEF Page
<1>5. Page("desc", 0, Len(all)) = all
  BY <1>1, <1>3, PagesJoin
<1>6. Page("asc", 0, Len(all)) = Reverse(all)
  BY <1>2, <1>3, PagesJoin
<1>7. ASSUME NEW order \in {"asc", "desc"}, NEW n \in 0..Len(all), NEW limit \in 1..2
      PROVE  Page(order, 0, n) \o Page(order, n, limit) = Page(order, 0, n + limit)
  <2>1. limit \in Nat
    OBVIOUS
  <2>2. CASE order = "asc"
    <3>1. paginateExecutions(Reverse(all), 0, n) \o paginateExecutions(Reverse(all), n, limit)
             = paginateExecutions(Reverse(all), 0, n + limit)
      BY <1>2, <2>1, PagesJoin
    <3> QED
      BY <1>3, <2>2, <3>1
  <2>3. CASE order # "asc"
    <3>1. paginateExecutions(all, 0, n) \o paginateExecutions(all, n, limit)
             = paginateExecutions(all, 0, n + limit)
      BY <1>1, <2>1, PagesJoin
    <3> QED
      BY <1>3, <2>3, <3>1
  <2> QED
    BY <2>2, <2>3
<1> QED
  BY <1>4, <1>5, <1>6, <1>7 DEF all, Page

LEMMA MaxOfTwo ==
    ASSUME NEW a \in Int, NEW b \in Int
    PROVE  Max({a, b}) = IF a < b THEN b ELSE a
  BY DEF Max

\* Entries of a log from its end: the first of each page, and whether more are left.
LEMMA EventPages ==
    ASSUME NEW X, NEW e, LogOf(e) \in Seq(X), NEW i \in 1..Len(LogOf(e))
    PROVE  LET page == handleListEvents(e, i - 1, 2)
           IN  /\ page.events[1] = LogOf(e)[Len(LogOf(e)) + 1 - i]
               /\ page.hasMore <=> i - 1 + Len(page.events) < Len(LogOf(e))
<1> DEFINE page == handleListEvents(e, i - 1, 2)
           log == LogOf(e)
<1>1. PICK n \in Nat : n = Len(log)
  OBVIOUS
<1>2. i \in 1..n
  BY <1>1
<1>3. Max({i - 1, 0}) = i - 1
  BY <1>2, MaxOfTwo
<1> DEFINE start == IF n - (i - 1) - 2 < 0 THEN 0 ELSE n - (i - 1) - 2
<1>4. Max({n - (i - 1) - 2, 0}) = start
  BY <1>2, MaxOfTwo
<1>5. Max({n - (i - 1), 0}) = n + 1 - i
  BY <1>2, MaxOfTwo
<1>6. /\ page.events = Reverse(SubSeq(log, start + 1, n + 1 - i))
      /\ page.hasMore <=> (i - 1) + 2 < n
  BY <1>1, <1>3, <1>4, <1>5, 2 \in 1..200 DEF handleListEvents
<1>7. start \in Nat /\ start + 1 \in 1..n /\ n + 1 - i \in 1..n /\ start < n + 1 - i
  BY <1>2
<1> DEFINE part == SubSeq(log, start + 1, n + 1 - i)
<1>8. /\ Len(part) = (n + 1 - i) - start
      /\ part[(n + 1 - i) - start] = log[n + 1 - i]
  <2> HIDE DEF start
  <2>1. PICK a \in 1..n, b \in 1..n : a = start + 1 /\ b = n + 1 - i
    BY <1>7
  <2>2. a <= b /\ b <= Len(log)
    BY <1>1, <1>7, <2>1
  <2>3. /\ Len(SubSeq(log, a, b)) = b - a + 1
        /\ \A j \in 1..(b - a + 1) : SubSeq(log, a, b)[j] = log[a + j - 1]
    BY <2>2
  <2>4. b - a + 1 = (n + 1 - i) - start /\ b - a + 1 \in 1..(b - a + 1) /\ a + (b - a + 1) - 1 = b
    BY <1>7, <2>1, <2>2
  <2> QED
    BY <2>1, <2>3, <2>4
<1>9. /\ Len(page.events) = (n + 1 - i) - start
      /\ page.events[1] = log[n + 1 - i]
  <2>1. page.events = [j \in 1..Len(part) |-> part[(Len(part) - j) + 1]]
    BY <1>6 DEF Reverse
  <2> HIDE DEF part, page, start
  <2>2. 1 \in 1..Len(part) /\ Len(part) \in Nat /\ (Len(part) - 1) + 1 = (n + 1 - i) - start
    BY <1>7, <1>8
  <2> QED
    BY <1>8, <2>1, <2>2
<1>10. page.hasMore <=> (i - 1) + Len(page.events) < n
  <2>1. (i - 1) + 2 < n <=> (i - 1) + ((n + 1 - i) - start) < n
    BY <1>2
  <2> HIDE DEF page, start
  <2> QED
    BY <1>6, <1>9, <2>1
<1> QED
  BY <1>1, <1>9, <1>10

LEMMA PagesHold ==
    ASSUME Inv, StoreTypes, Streams, Store
    PROVE  PagesTell
<1>1. ASSUME NEW e \in DOMAIN rows
      PROVE  \A i \in 1..captured[e] :
                LET page == handleListEvents(e, i - 1, 2)
                IN  /\ page.events[1] = Told(e)[captured[e] + 1 - i]
                    /\ page.hasMore <=> i - 1 + Len(page.events) < captured[e]
  <2>1. e \in Ids /\ LogOf(e) = Told(e)
    BY DEF StoreTypes, Store, Logged, Logged_
  <2>2. /\ published[e] \in Seq(Events) /\ captured[e] \in Nat
        /\ captured[e] <= Len(published[e])
    BY <2>1 DEF Streams
  <2>3. Told(e) \in Seq(Events) /\ Len(Told(e)) = captured[e]
    BY <2>2 DEF Told
  <2> QED
    BY <2>1, <2>3, EventPages
<1> QED
  BY <1>1, ExecutionPages DEF PagesTell
-----------------------------------------------------------------------------
(* What a row says of its steps *)

\* The events about s in the log q.
EventsIn(q, s) == {i \in 1..Len(q) : q[i][1] = s}

\* Each step has the status its last captured event says, and is not there
\* before its first.
Stepped_(e) ==
    \A s \in Steps :
        LET those == EventsIn(Told(e), s)
        IN  /\ s \in DOMAIN rows[e].steps <=> those # {}
            /\ those # {} => \E i \in those :
                  /\ \A j \in those : j <= i
                  /\ rows[e].steps[s] = StatusOf[Told(e)[i][2]]

Stepped == \A e \in DOMAIN rows : Stepped_(e)

LEMMA KeepsStepped ==
    ASSUME Stepped, UNCHANGED scn,
           \A f \in DOMAIN rows' :
               /\ f \in DOMAIN rows /\ rows'[f].steps = rows[f].steps
               /\ Told(f)' = Told(f)
    PROVE  Stepped'
<1> SUFFICES ASSUME NEW f \in DOMAIN rows' PROVE Stepped_(f)'
  BY DEF Stepped
<1>1. /\ f \in DOMAIN rows /\ rows'[f].steps = rows[f].steps
      /\ Told(f)' = Told(f) /\ Steps' = Steps /\ StatusOf' = StatusOf
  BY DEF Steps, StatusOf
<1>2. Stepped_(f)
  BY <1>1 DEF Stepped
<1>3. \A s : EventsIn(Told(f), s)' = EventsIn(Told(f), s)
  BY <1>1 DEF EventsIn
<1> QED
  BY <1>1, <1>2, <1>3 DEF Stepped_

\* A row that is added has no steps, and its execution has told nothing.
LEMMA AddStepped ==
    ASSUME StoreTypes, Streaming, Stepped, UNCHANGED scn,
           NEW e \in Ids, NEW status, Add(e, status), exec[e].phase = "none",
           \A f \in Ids : Told(f)' = Told(f)
    PROVE  Stepped'
<1>1. rows' = Put(Drop(rows, Evicted), e, [status |-> status, steps |-> <<>>])
  BY DEF Add
<1>2. rows'[e].steps = <<>> /\ DOMAIN <<>> = {}
  BY <1>1 DEF Put
<1>3. Told(e)' = <<>>
  <2>1. published[e] = <<>> /\ captured[e] = 0
    BY DEF Streaming, Told_, Unborn
  <2>2. SubSeq(<<>>, 1, 0) = <<>>
    OBVIOUS
  <2> QED
    BY <2>1, <2>2 DEF Told
<1>4. \A s : EventsIn(<<>>, s) = {}
  BY DEF EventsIn
<1>5. Stepped_(e)'
  BY <1>2, <1>3, <1>4 DEF Stepped_, EventsIn
<1>6. ASSUME NEW f \in DOMAIN rows', f # e PROVE Stepped_(f)'
  <2>1. f \in DOMAIN rows /\ rows'[f] = rows[f]
    BY <1>1, <1>6 DEF Put, Drop, Restrict
  <2>2. f \in Ids /\ Stepped_(f)
    BY <2>1 DEF StoreTypes, Stepped
  <2>3. Told(f)' = Told(f) /\ Steps' = Steps /\ StatusOf' = StatusOf
    BY <2>2 DEF Steps, StatusOf
  <2>4. \A s : EventsIn(Told(f), s)' = EventsIn(Told(f), s)
    BY <2>3 DEF EventsIn
  <2> QED
    BY <2>1, <2>2, <2>3, <2>4 DEF Stepped_
<1> QED
  BY <1>5, <1>6 DEF Stepped

\* One more event is about its step, and is the last one about it.
LEMMA EventsOneMore ==
    ASSUME NEW X, NEW q \in Seq(X), NEW x \in X, NEW s
    PROVE  LET n == Len(q) + 1
           IN  /\ \A i \in 1..Len(q) : Append(q, x)[i] = q[i]
               /\ Append(q, x)[n] = x
               /\ EventsIn(Append(q, x), s) =
                     EventsIn(q, s) \cup (IF x[1] = s THEN {n} ELSE {})
               /\ \A i \in EventsIn(q, s) : i \in 1..Len(q) /\ i <= n
               /\ n \in Nat
<1> DEFINE n == Len(q) + 1
           r == Append(q, x)
<1>1. /\ Len(q) \in Nat /\ Len(r) = n /\ r[n] = x
      /\ \A i \in 1..Len(q) : r[i] = q[i]
  BY OneMore
<1>2. 1..n = (1..Len(q)) \cup {n} /\ n \notin 1..Len(q)
  BY <1>1
<1>3. EventsIn(r, s) = EventsIn(q, s) \cup (IF x[1] = s THEN {n} ELSE {})
  <2>1. EventsIn(r, s) = {i \in (1..Len(q)) \cup {n} : r[i][1] = s}
    BY <1>1, <1>2 DEF EventsIn
  <2> HIDE DEF n, r
  <2> QED
    BY <1>1, <2>1 DEF EventsIn
<1>4. \A i \in EventsIn(q, s) : i \in 1..Len(q) /\ i <= n
  BY <1>1 DEF EventsIn
<1> QED
  BY <1>1, <1>3, <1>4

LEMMA CaptureStepped ==
    ASSUME scn \in Scenarios, StoreTypes, Streams, Stepped, UNCHANGED scn,
           NEW e \in Ids, Capture(e)
    PROVE  Stepped'
<1> DEFINE x == NextEvent(e)
           q == Told(e)
<1>1. /\ UNCHANGED published /\ captured[e] < Len(published[e])
      /\ captured' = [captured EXCEPT ![e] = @ + 1]
      /\ IF x[1] = "" THEN UNCHANGED rows ELSE UpdateStep(e, x[1], StatusOf[x[2]])
  BY DEF Capture
<1>2. /\ published[e] \in Seq(Events) /\ captured[e] \in Nat
      /\ captured \in [Ids -> Nat]
  BY DEF Streams
<1>3. Told(e)' = Append(q, x)
  BY <1>1, <1>2, PrefixGrows DEF Told, NextEvent
<1>4. q \in Seq(Events) /\ x \in Events
  <2>1. PICK k \in Nat : k = captured[e]
    BY <1>2
  <2>2. k < Len(published[e])
    BY <1>1, <2>1
  <2>3. SubSeq(published[e], 1, k) \in Seq(Events)
    BY <1>2, <2>2
  <2>4. published[e][k + 1] \in Events
    BY <1>2, <2>2
  <2> QED
    BY <2>1, <2>3, <2>4 DEF Told, NextEvent
<1>5. DOMAIN rows' = DOMAIN rows
  BY EndingStore DEF Ending
<1>6. ASSUME NEW f \in DOMAIN rows, f # e
      PROVE  rows'[f] = rows[f] /\ Told(f)' = Told(f)
  <2>1. f \in Ids
    BY DEF StoreTypes
  <2> QED
    BY <1>1, <1>2, <1>6, <2>1 DEF Told, UpdateStep
<1>7. Steps' = Steps /\ StatusOf' = StatusOf /\ "" \notin Steps
  BY StepIdsAssumption DEF Steps, StatusOf
<1>8. ASSUME e \in DOMAIN rows PROVE Stepped_(e)'
  <2> DEFINE n == Len(q) + 1
  <2> HIDE DEF q, x
  <2>1. Stepped_(e)
    BY <1>8 DEF Stepped
  <2>2. IF x[1] = "" THEN rows'[e].steps = rows[e].steps
        ELSE rows'[e].steps = Put(rows[e].steps, x[1], StatusOf[x[2]])
    <3>1. CASE x[1] = ""
      BY <1>1, <3>1
    <3>2. CASE x[1] # ""
      <4>1. PICK st : rows' = [rows EXCEPT ![e] =
                         [status |-> st, steps |-> Put(rows[e].steps, x[1], StatusOf[x[2]])]]
        BY <1>1, <1>8, <3>2 DEF UpdateStep
      <4>2. rows'[e] = [status |-> st, steps |-> Put(rows[e].steps, x[1], StatusOf[x[2]])]
        BY <1>8, <4>1
      <4>3. rows'[e].steps = Put(rows[e].steps, x[1], StatusOf[x[2]])
        BY <4>2
      <4> QED
        BY <3>2, <4>3
    <3> QED
      BY <3>1, <3>2
  <2>3. ASSUME NEW s \in Steps
        PROVE  LET those == EventsIn(Append(q, x), s)
               IN  /\ s \in DOMAIN rows'[e].steps <=> those # {}
                   /\ those # {} => \E i \in those :
                         /\ \A j \in those : j <= i
                         /\ rows'[e].steps[s] = StatusOf[Append(q, x)[i][2]]
    <3> DEFINE old == EventsIn(q, s)
               those == EventsIn(Append(q, x), s)
               p == Append(q, x)
    <3>1. /\ \A i \in 1..Len(q) : p[i] = q[i]
          /\ p[n] = x
          /\ those = old \cup (IF x[1] = s THEN {n} ELSE {})
          /\ \A i \in old : i \in 1..Len(q) /\ i <= n
          /\ n \in Nat
      BY <1>4, EventsOneMore
    <3>2. /\ s \in DOMAIN rows[e].steps <=> old # {}
          /\ old # {} => \E i \in old :
                /\ \A j \in old : j <= i
                /\ rows[e].steps[s] = StatusOf[q[i][2]]
      BY <2>1 DEF Stepped_, q
    <3> HIDE DEF those, old, n, p
    <3>3. CASE x[1] = s
      <4>1. /\ s \in DOMAIN rows'[e].steps
            /\ rows'[e].steps[s] = StatusOf[x[2]]
        BY <1>7, <2>2, <3>3 DEF Put
      <4>2. n \in those /\ \A j \in those : j <= n
        BY <3>1, <3>3
      <4> QED
        BY <3>1, <4>1, <4>2 DEF those, p
    <3>4. CASE x[1] # s
      <4>1. those = old
        BY <3>1, <3>4
      <4>2. /\ s \in DOMAIN rows'[e].steps <=> s \in DOMAIN rows[e].steps
            /\ s \in DOMAIN rows[e].steps => rows'[e].steps[s] = rows[e].steps[s]
        BY <2>2, <3>4 DEF Put
      <4> QED
        BY <3>1, <3>2, <4>1, <4>2 DEF those, p
    <3> QED
      BY <3>3, <3>4
  <2> QED
    BY <1>3, <1>7, <2>3 DEF Stepped_, q
<1>9. ASSUME NEW f \in DOMAIN rows, f # e PROVE Stepped_(f)'
  <2>1. Stepped_(f)
    BY DEF Stepped
  <2>2. rows'[f].steps = rows[f].steps /\ Told(f)' = Told(f)
    BY <1>6, <1>9
  <2>3. \A s : EventsIn(Told(f), s)' = EventsIn(Told(f), s)
    BY <2>2 DEF EventsIn
  <2> QED
    BY <1>7, <2>1, <2>2, <2>3 DEF Stepped_
<1> QED
  BY <1>5, <1>8, <1>9 DEF Stepped

LEMMA EndingStepped ==
    ASSUME scn \in Scenarios, StoreTypes, Streams, Logged, Stepped, NEW e \in Ids,
           Ending(e) \/ Cancel(e)
    PROVE  Stepped'
<1>1. UNCHANGED scn
  BY EndingFrame
<1>2. CASE Return(e)
  <2>1. Publish(e, <<Over>>) /\ UNCHANGED <<captured, rows>>
    BY <1>2 DEF Return, Over, storeVars
  <2>2. Over \in Events
    BY DEF Over, Events, Words
  <2>3. Publishes(e)
    BY <2>1, <2>2, ShortSequences DEF Publishes
  <2>4. \A f \in DOMAIN rows : Told(f)' = Told(f)
    BY <2>1, <2>3, PublishTold DEF StoreTypes
  <2> QED
    BY <1>1, <2>1, <2>4, KeepsStepped
<1>3. CASE OnComplete(e) \/ Cancel(e) \/ EnsureCompleted(e)
  <2>1. UNCHANGED <<published, captured, rows>>
    BY <1>3 DEF OnComplete, Cancel, EnsureCompleted, storeVars
  <2>2. \A f : Told(f)' = Told(f)
    BY <2>1 DEF Told
  <2> QED
    BY <1>1, <2>1, <2>2, KeepsStepped
<1>4. CASE Finalize(e)
  <2>1. /\ rows' = IF e \in DOMAIN rows
                   THEN [rows EXCEPT ![e].status = exec[e].outcome] ELSE rows
        /\ UNCHANGED <<published, captured>>
    BY <1>4 DEF Finalize, UpdateExecution
  <2>2. \A f : Told(f)' = Told(f)
    BY <2>1 DEF Told
  <2>3. DOMAIN rows' = DOMAIN rows
    BY <2>1
  <2>4. ASSUME NEW f \in DOMAIN rows PROVE rows'[f].steps = rows[f].steps
    <3>1. PICK status, steps : rows[f] = [status |-> status, steps |-> steps]
      BY DEF Logged, Logged_
    <3>2. rows'[f] = rows[f] \/ rows'[f] = [rows[f] EXCEPT !.status = exec[e].outcome]
      BY <2>1
    <3> QED
      BY <3>1, <3>2
  <2> QED
    BY <1>1, <2>2, <2>3, <2>4, KeepsStepped
<1> QED
  BY <1>1, <1>2, <1>3, <1>4, CaptureStepped DEF Ending

LEMMA LaunchStepped ==
    ASSUME StoreTypes, Streaming, Stepped, NEW e \in Ids, NEW src,
           Launch(e, src), exec[e].phase = "none"
    PROVE  Stepped'
<1>1. Add(e, "running") /\ UNCHANGED <<scn, published, captured>>
  BY DEF Launch
<1>2. \A f : Told(f)' = Told(f)
  BY <1>1 DEF Told
<1> QED
  BY <1>1, <1>2, AddStepped

LEMMA NextStepped ==
    ASSUME Numbered, Launched, StoreTypes, Streams, Streaming, Logged, Stepped,
           [Next]_vars
    PROVE  Stepped'
<1>1. CASE UNCHANGED <<scn, published, captured, storeVars>>
  <2>1. \A f : Told(f)' = Told(f)
    BY <1>1 DEF Told
  <2> QED
    BY <1>1, <2>1, KeepsStepped DEF storeVars
<1>2. /\ nextId <= scn.ids => nextId \in Ids
      /\ nextId \in Ids => exec[nextId].phase = "none"
  BY ScenariosAssumption, IdsAssumption DEF Launched, Ids
<1>3. ASSUME NEW src, Fresh(nextId), Launch(nextId, src) PROVE Stepped'
  BY <1>2, <1>3, LaunchStepped DEF Fresh
<1>4. ASSUME NEW r \in Requests, Requesting(r) PROVE Stepped'
  <2>1. CASE StartRequest(r)
    <3>1. req[r].phase = "start" /\ Launch(req[r].id, r)
      BY <2>1 DEF StartRequest
    <3>2. req[r].id \in Ids /\ exec[req[r].id].phase = "none"
      BY <3>1, IdsAssumption DEF Numbered, Launched, Ids
    <3> QED
      BY <3>1, <3>2, LaunchStepped
  <2> QED
    BY <1>1, <1>4, <2>1, RequestingFrame
<1>5. CASE Consuming
  <2>1. CASE OnMessage
    BY <1>3, <2>1 DEF OnMessage
  <2> QED
    BY <1>1, <1>5, <2>1, ConsumingFrame
<1>6. CASE Ticking
  BY <1>3, <1>6 DEF Ticking, Tick, TimerFires
<1>7. ASSUME NEW e \in Ids, NEW s \in Steps, Stepping(e, s) \/ StepTimeout(e, s)
      PROVE  Stepped'
  <2>1. \A f \in Ids : Told(f)' = Told(f)
    <3>1. CASE Publishes(e)
      BY <1>7, <3>1, PublishTold, SteppingFrame
    <3>2. CASE UNCHANGED published
      BY <1>7, <3>2, SteppingFrame DEF Told
    <3> QED
      BY <1>7, <3>1, <3>2, SteppingPublishes
  <2>2. UNCHANGED scn
    BY <1>7, SteppingFrame
  <2>3. CASE Schedule(e, s)
    <3>1. Add(nextId, "scheduled") /\ nextId \in Ids
      BY <1>2, <2>3 DEF Schedule, Fresh
    <3> QED
      BY <1>2, <2>1, <2>2, <3>1, AddStepped
  <2>4. CASE UNCHANGED storeVars
    BY <2>1, <2>2, <2>4, KeepsStepped DEF storeVars, StoreTypes
  <2> QED
    BY <1>7, <2>3, <2>4, SteppingFrame
<1>8. CASE UNCHANGED vars
  BY <1>1, <1>8 DEF vars, runVars
<1> QED
  BY <1>1, <1>4, <1>5, <1>6, <1>7, <1>8, NextCases, EndingStepped, RoutingFrame,
     OtherFrame DEF Launched

LEMMA SteppedHolds == Spec => []Stepped
<1>1. Init => Stepped
  <2>1. Init => rows = <<>> /\ DOMAIN <<>> = {}
    BY DEF Init, StoreInit
  <2> QED
    BY <2>1 DEF Stepped
<1>2. Inv /\ StoreTypes /\ Streams /\ Store /\ Stepped /\ [Next]_vars => Stepped'
  BY NextStepped DEF Inv, Store
<1> QED
  BY <1>1, <1>2, StoreHolds, PTL DEF Spec

\* The greatest of a set that has one.
LEMMA MaxIs ==
    ASSUME NEW S, S \subseteq Nat, NEW m \in S, \A j \in S : j <= m
    PROVE  Max(S) = m
<1>1. \E x \in S : \A y \in S : x >= y
  <2>1. \A y \in S : m >= y
    OBVIOUS
  <2> QED
    BY <2>1
<1>2. Max(S) \in S /\ \A y \in S : Max(S) >= y
  BY <1>1 DEF Max
<1>3. Max(S) <= m /\ Max(S) >= m
  BY <1>2
<1>4. Max(S) \in Nat /\ m \in Nat
  BY <1>2
<1> QED
  BY <1>3, <1>4

\* Of a list without repetitions, as many places hold what is in P as there are
\* entries in P.
LEMMA PlacesAndEntries ==
    ASSUME NEW X, NEW q \in Seq(X), Apart(q), NEW P
    PROVE  Cardinality({i \in 1..Len(q) : q[i] \in P}) = Cardinality(Entries(q) \cap P)
<1> DEFINE I == {i \in 1..Len(q) : q[i] \in P}
           E == Entries(q) \cap P
           f == [i \in I |-> q[i]]
<1>1. Len(q) \in Nat
  OBVIOUS
<1>2. IsFiniteSet(I)
  <2>1. IsFiniteSet(1..Len(q))
    BY <1>1, FS_Interval
  <2> QED
    BY <2>1, FS_Subset
<1>3. f \in [I -> E]
  BY DEF Entries
<1>4. \A i, j \in I : f[i] = f[j] => i = j
  BY DEF Apart
<1>5. \A x \in E : \E i \in I : f[i] = x
  BY DEF Entries
<1>6. f \in Bijection(I, E)
  <2> HIDE DEF f, I, E
  <2> QED
    BY <1>3, <1>4, <1>5 DEF Bijection, Injection, Surjection, IsInjective
<1> HIDE DEF f, I, E
<1>7. Cardinality(I) = Cardinality(E)
  BY <1>2, <1>6, FS_Bijection DEF ExistsBijection
<1> QED
  BY <1>7 DEF I, E

\* What the events of e that are captured say of s is what its row has.
LEMMA RowTells ==
    ASSUME StoreTypes, Streams, Stepped, NEW e \in DOMAIN rows, NEW s \in Steps
    PROVE  /\ s \in DOMAIN rows[e].steps <=> EventsOf(e, s) # {}
           /\ EventsOf(e, s) # {} => rows[e].steps[s] = LastOf(e, s)
<1>1. e \in Ids /\ Stepped_(e)
  BY DEF StoreTypes, Stepped
<1>2. PICK c \in Nat : c = captured[e] /\ c <= Len(published[e])
  BY <1>1 DEF Streams
<1>3. published[e] \in Seq(Events)
  BY <1>1 DEF Streams
<1>4. Len(Told(e)) = c /\ \A i \in 1..c : Told(e)[i] = published[e][i]
  BY <1>2, <1>3 DEF Told
<1>5. EventsIn(Told(e), s) = EventsOf(e, s)
  BY <1>2, <1>4 DEF EventsIn, EventsOf
<1>6. ASSUME EventsOf(e, s) # {}
      PROVE  rows[e].steps[s] = LastOf(e, s)
  <2>1. PICK i \in EventsOf(e, s) :
            /\ \A j \in EventsOf(e, s) : j <= i
            /\ rows[e].steps[s] = StatusOf[Told(e)[i][2]]
    BY <1>1, <1>5, <1>6 DEF Stepped_
  <2>2. EventsOf(e, s) \subseteq 1..c
    BY <1>2 DEF EventsOf
  <2>3. Max(EventsOf(e, s)) = i
    BY <2>1, <2>2, MaxIs, 1..c \subseteq Nat
  <2>4. Told(e)[i] = published[e][i]
    BY <1>4, <2>1, <2>2
  <2> QED
    BY <2>1, <2>3, <2>4 DEF LastOf
<1> QED
  BY <1>1, <1>5, <1>6 DEF Stepped_

LEMMA HistoryHolds ==
    ASSUME Inv, StoreTypes, Streams, Store, Stepped
    PROVE  HistoryTells
<1> SUFFICES ASSUME NEW s \in Steps
             PROVE
                LET begun  == Only(Newest, {e \in DOMAIN rows : EventsOf(e, s) # {}})
                    last   == [i \in DOMAIN begun |-> LastOf(begun[i], s)]
                    Count(status) == Cardinality({i \in DOMAIN last : last[i] = status})
                IN  /\ buildStepHistory(s) = [i \in DOMAIN begun |-> <<begun[i], last[i]>>]
                    /\ computeStepMetrics(s) = [total   |-> Len(begun),
                                                success |-> Count("success"),
                                                failed  |-> Count("failed")]
  BY DEF HistoryTells
<1> DEFINE known == {e \in DOMAIN rows : EventsOf(e, s) # {}}
           begun == Only(Newest, known)
           last  == [i \in DOMAIN begun |-> LastOf(begun[i], s)]
           In(status) == {e \in DOMAIN rows : rows[e].steps[s] = status}
<1>1. /\ Newest \in Seq(Ids) /\ List = Newest /\ Apart(Newest)
      /\ Entries(Newest) = DOMAIN rows
  BY NewestOnce
<1>2. known = {e \in DOMAIN rows : s \in DOMAIN rows[e].steps}
  BY RowTells
<1>3. begun \in Seq(Ids) /\ Apart(begun) /\ Entries(begun) = known
  <2>1. Entries(Newest) \cap known = known
    BY <1>1
  <2> HIDE DEF known
  <2> QED
    BY <1>1, <2>1, OnlyKeeps
<1>4. buildStepHistory(s) = [i \in DOMAIN begun |-> <<begun[i], rows[begun[i]].steps[s]>>]
  BY <1>1, <1>2 DEF buildStepHistory
<1>5. \A e \in known : rows[e].steps[s] = LastOf(e, s)
  BY RowTells
<1>6. {e \in ToSet(List) : s \in DOMAIN rows[e].steps} = known
  <2>1. ToSet(List) = DOMAIN rows
    <3>1. DOMAIN Newest = 1..Len(Newest)
      BY <1>1
    <3>2. ToSet(Newest) = Entries(Newest)
      BY <3>1 DEF ToSet, Entries
    <3> QED
      BY <1>1, <3>2
  <2> QED
    BY <1>2, <2>1
<1>7. computeStepMetrics(s) =
         [total   |-> Cardinality(known),
          success |-> Cardinality({e \in known : rows[e].steps[s] = "success"}),
          failed  |-> Cardinality({e \in known : rows[e].steps[s] = "failed"})]
  <2> HIDE DEF known
  <2> QED
    BY <1>6 DEF computeStepMetrics
<1> HIDE DEF begun, known
<1>8. /\ Len(begun) \in Nat /\ DOMAIN begun = 1..Len(begun)
      /\ \A i \in 1..Len(begun) : begun[i] \in known
  BY <1>3 DEF Entries
<1>9. buildStepHistory(s) = [i \in DOMAIN begun |-> <<begun[i], last[i]>>]
  BY <1>4, <1>5, <1>8
<1>10. ASSUME NEW status
       PROVE  Cardinality({i \in DOMAIN last : last[i] = status})
                 = Cardinality({e \in known : rows[e].steps[s] = status})
  <2> DEFINE P == {e \in known : rows[e].steps[s] = status}
  <2>1. {i \in DOMAIN last : last[i] = status} = {i \in 1..Len(begun) : begun[i] \in P}
    BY <1>5, <1>8
  <2>2. Entries(begun) \cap P = P
    BY <1>3
  <2> HIDE DEF P, last
  <2>3. Cardinality({i \in 1..Len(begun) : begun[i] \in P}) = Cardinality(P)
    BY <1>3, <2>2, PlacesAndEntries
  <2> QED
    BY <2>1, <2>3 DEF P
<1>11. Cardinality(known) = Len(begun)
  <2>1. {i \in 1..Len(begun) : begun[i] \in known} = 1..Len(begun)
    BY <1>8
  <2>2. Cardinality(1..Len(begun)) = Len(begun)
    BY <1>8, FS_Interval
  <2>3. Entries(begun) \cap known = known
    BY <1>3
  <2>4. Cardinality({i \in 1..Len(begun) : begun[i] \in known})
           = Cardinality(Entries(begun) \cap known)
    BY <1>3, PlacesAndEntries
  <2> QED
    BY <2>1, <2>2, <2>3, <2>4
<1>12. computeStepMetrics(s) =
          [total   |-> Len(begun),
           success |-> Cardinality({i \in DOMAIN last : last[i] = "success"}),
           failed  |-> Cardinality({i \in DOMAIN last : last[i] = "failed"})]
  <2> HIDE DEF last
  <2> QED
    BY <1>7, <1>10, <1>11
<1> QED
  BY <1>9, <1>12 DEF begun, known

\* The pages of every listing put together are what was asked for, each entry
\* once, and the history of a step is what its executions told of it, while
\* executions come, go on and leave the ring (paginateExecutions,
\* handleListEvents, buildStepHistory, RefreshStepMetrics).
THEOREM ListingsTellHolds == Spec => []ListingsTell
<1>1. Inv /\ StoreTypes /\ Streams /\ Store /\ Stepped => ListingsTell
  BY PagesHold, HistoryHolds DEF ListingsTell
<1> QED
  BY <1>1, StoreHolds, SteppedHolds, PTL
====
