# Verification of the arctic route planner (work package C)

Work package C receives hourly risk grids from work package B, searches routes
over them and shows the newest acceptable route to work package D. This
directory holds TLA+ modules translated from its Python source
(`src/arctic_route_planning/`), the TLC configurations that check them, and
proofs checked by TLAPS. Paths below are relative to
`src/arctic_route_planning/` in the repository.

## 1. Inventory

| Component | Source | State | Operations | Module |
|---|---|---|---|---|
| v2 latest-value store | `publishing/store.py`, `publishing/models.py` | `_active` token, `_cancelled`, `_current`, `_previous`, `_candidates`, one lock | `activate`, `cancel`, `publish`, `snapshot` | `RoutePlans`, `LatestStore` |
| v3 latest-value store | `publishing/layered_store.py` | the same without candidates | the same | `LatestStore`, instantiated in `LayeredPublication` |
| Coordinator | `replanning/coordinator.py` | `_active` handle, one lock; a cancel event per handle | `begin`, `cancel`, `require_current`, `publish` | `RoutePublication` |
| Switch gate | `replanning/policy.py` | none | `evaluate` | `SwitchGate` |
| v2 service | `service.py` | none of its own | `execute`, `replan_if_needed` | `RoutePublication`, `LayeredVoyages`, `ReplanTrigger` |
| v3 service | `layered.py` | none of its own | `execute`, `replan_if_needed` | `LayeredPublication`, `LayeredVoyages` |
| Replan triggers | `replanning/policy.py` | last replan time, revisions, baselines, latch | `evaluate`, `mark_replanned` | `ReplanTrigger` |
| Formal ingress | `ingress.py` | sessions per (run, scenario), generation, evaluator | `prepare`, `execute`, `replan_if_needed` and the v3 forms | `FormalIngress`, `RiskSource` |
| Risk source | `contracts/sources.py`, `contracts/windows.py` | frames, committed windows, one lock | `publish`, `commit_window`, `lease_committed_window`, `reset_to_generation` | `RiskSource` |
| Search | `planners/time_dependent_astar.py` | labels, predecessors, queue, distances of one call | `plan`, `plan_candidates` | `TimeDependentSearch`, `EdgeEvaluation` |
| Sampler | `risk/sampler.py` | a frozen window | `sample` | `RiskSampling` |
| Grid, cost, vessel, endpoints | `grid/`, `cost/`, `endpoints.py` | none | neighbours, headings, sample points, cost, bound, mapping | `EdgeEvaluation`, `RiskSampling`, `Endpoints` |
| Contract models | `contracts/models.py`, `contracts/layered.py` | immutable values | validation of a plan, and of a set of four layers | `LayeredVoyages` |
| Command line | `cli.py`, `publishing/serialization.py` | the files of an output directory | `synthetic-demo`, `legacy-plan`, `atomic_write_json` | `PlanFiles`, `Endpoints` |
| Codecs, configuration, adapters | the rest | immutable values | conversion, field validation | not modelled |

**How they interact.** A caller's thread runs `execute()` of a service. It
*begins* with the coordinator, which fences the latest-value store to the new
request's token and sets the cancel event of the request before it. It then
searches for as long as it takes, polling that event, *reviews* with the
coordinator that it is still current, reads the plan on display, passes the
switch gate if it is a replanning, and *publishes* through the coordinator,
which reviews once more and swaps the store's contents under its lock. D reads
snapshots of the store at any time. The v3 service does the same for a set of
four layers, but with a second store of its own that the coordinator does not
know. Each layer is three calls of the search, one for each objective; the
shorter layers end where the recommended full voyage is at their horizon. The
formal ingress runs either service under a lease of the risk source, in a
session that keeps the replanning triggers, and marks what was shown as their
new baseline. The command line maps a corridor's endpoints to the grid, plans
once, and writes its results into a directory.

**What is hard.** Searches of different requests overlap in any number of
threads; requests arrive after seeks (a new generation), reconfigurations (new
digests) and new data (a new input revision); a request may be cancelled at any
moment; state is read under one lock and used under another (the plan on
display, the v3 review, the formal validation, the baseline of the triggers);
two fences must agree. The search prunes labels in waters whose ice comes and
goes, and judges an edge by samples taken at times that depend on their own
result. The command line's files outlive a process that may be killed between
any two of them. The list of hazards with their lines is in `PROJECT.json`.

**What makes each component correct.**

- *Store*: a snapshot is always of one session; older inputs never replace
  newer ones.
- *Coordinator*: its fence and the store's never disagree; the newest request,
  and only it, may publish; nobody loses a result without having been cancelled
  or overtaken.
- *Switch gate*: what D is switched to without an event or an operator behind it
  is an improvement over what was really on display.
- *Services*: every request that began comes to a result; what they put together
  is never refused by the contract.
- *Triggers*: a change that calls for a replanning is never lost, neither by the
  minimum interval nor by the hysteresis.
- *Ingress and source*: a plan is computed from exactly the window that was
  committed for it; the baselines match the plan on display.
- *Search*: the route found is open water when it is sailed, and the cheapest
  that there is; a voyage that can be made is found.
- *Files*: whole or absent, and telling by their order what they belong to.

## 2. Modules

```
LatestWins           the promise to D, no mechanism
   ^ implemented by (refinement)
RoutePlans  ->  LatestStore  ->  RoutePublication  ->  LayeredPublication  ->  FormalIngress
            ->  SwitchGate   ->        |                (LatestStore again,     (with ReplanTrigger
                                       |                 as the layered store)   by INSTANCE)
PublicationProofs (of LatestStore, RoutePublication and LayeredPublication)
                                                        -> FormalIngressProofs

ReplanTrigger -> ReplanTriggerProofs
RiskSource    -> RiskSourceProofs  <- Recursion

RiskSampling -> EdgeEvaluation --------+->  Endpoints -> MCVoyages
TimeDependentSearch -> LayeredVoyages -+           \
                                      \             +->  EndpointsProofs
                                       +->  VoyagesProofs  <- Recursion

PlanFiles -> PlanFilesProofs
```

`A -> B`: B extends A; `EndpointsProofs` extends both `Endpoints` and
`VoyagesProofs`. The search takes what an edge does as a parameter, so that it can
be proved about for any; `Endpoints` says by `GridAssumption` that the edges are
those of `EdgeEvaluation`, and `MCVoyages` gives it those.

- **`RoutePlans`** — tokens, plans and the two comparisons a store makes between
  a token and the one it holds (`Older`, `ContextChanged`). A *context* is run,
  scenario, generation and the three configuration digests, which the code only
  ever compares for equality together and which are one value here. A plan keeps
  its token, its subject (corridor and vessel), and the two metrics the gate
  reads.
- **`LatestStore`** — `CDLatestStore`. Each method holds the lock throughout, so
  each is one action; a call that raises changes nothing and is absent, except
  where its refusal matters to the caller (`Refused`). `StoreSpec` lets clients
  call anything with any argument. The v2 service passes the two other
  objectives' routes as candidates; they are kept as their labels, what
  `publish()` compares.
- **`SwitchGate`** — `RouteSwitchGate.evaluate` on integers. The minimum
  improvement is in percent, and the quotient of the code is multiplied out; a
  current cost of zero is the case its `max(abs(cost), 1e-12)` guards.
- **`RoutePublication`** — a session: the coordinator, its store and any number
  of threads in `PlanningService.execute`. `pc[r]` is where request r stands:
  *idle, planning* (begun), *found, reviewed, accepted* or *rejected* (by the
  gate), and the ends *refused, failed, cancelled, declined, published*. The
  actions are the points where the code takes a lock: `Begin`, `Cancel`,
  `Review`, `ReadDisplayed`, `Decline`, `Publish`; `FindRoutes`, `StopSearch` and
  `Fail` are the outcomes of the search between them. `handle` is the
  coordinator's `_active`, `revoked` the handles whose event is set, and
  `ticket` a history variable that numbers the begins.
- **`LatestWins`** — the promise, in three variables: tickets handed out, tickets
  closed, the ticket on display. `RoutePublication` implements it under the
  mapping `Promise`.
- **`LayeredPublication`** — the v3 service in the same session. `Layered` is a
  second `LatestStore`; `ActivateLayered` and `PublishSet` are steps of their
  own, as in the code, where the coordinator's lock is not held over them. A set
  of four layers is computed into local values and published by one assignment,
  so it is one plan here, standing for its recommended full-voyage route, the
  one the gate looks at.
- **`ReplanTrigger`** — `ReplanTriggerEvaluator` and the loop it serves. The
  evaluator's state is `baseline` (what `_last_*` and `_baseline_*` remember, or
  `NoBaseline`) and `latched`. The rest is the voyage it observes: time passes
  (`Tick`), data arrives and changes the risk of the displayed route
  (`NewData`), events come and go (`NewEvent`). `ReplanIfNeeded` evaluates an
  observation and, if the answer is to replan and the plan is published, commits
  it; that the planner may be cancelled or turned down by the gate is the
  alternative that leaves the evaluator alone. `PlanInitially` is the baseline
  that the ingress marks for an initial plan. `Answer` names the four outcomes
  of `evaluate()`, the two exceptions among them.
- **`FormalIngress`** — a call of `RiskSourcePlanningIngress` for either service,
  from the lease to the mark, among other calls of the same session. `stage[r]`
  is where `_with_private_planner()` stands: *out, entered* (lease held, session
  moved to the generation), *validated*, *triggered*, *serving* (inside
  `execute()`, whose steps are those of `LayeredPublication`), and how it left.
  The evaluator is `ReplanTrigger`'s, by INSTANCE, without the voyage it watches
  there. `slots` is how many leases the source grants at a time, one for
  `InMemoryRiskSource`, more where the protocol `CommittedRiskSource` is served
  by a source that lets plannings run side by side. Publishing and marking are
  two steps, and the second may raise.
- **`RiskSource`** — `InMemoryRiskSource` among its callers. A method that holds
  the lock throughout is one action, `commit_window()` is two (`ReadWindow`,
  `StoreWindow`), and a lease is a lock kept over steps: `holder` is the thread in
  it, and every other action waits for `Unlocked`. `task[t]` is what a thread
  carries from one of its steps to the next, the query and the window it has read
  or prepared. The selection loop of `get_window()` is a recursive function of the
  number of frames it has seen, in the order of the dictionary. A window is a function from its hours to frames,
  equal exactly when the code's content digests are. The lock is reentrant, but a
  planning does not call the source it holds, so a holder only leaves.
- **`RiskSampling`** — `RiskSampler.sample` as an operator: the frames on both
  sides of a time, the cells around a point, the worst or the weighted mean of
  them, and every error in the order in which the code notices it. All numbers
  are whole: points are counted in parts of a cell, risks in parts of their unit,
  and a speed factor is kept as its reciprocal.
- **`EdgeEvaluation`** — `_evaluate_edge`: the two refinements, what forbids an
  edge, its arrival and its cost with all the terms of `CostModel`, in one
  denominator; the grid's neighbours and headings; the lower bound.
- **`TimeDependentSearch`** — `TimeDependentAStar.plan`, one action for an entry
  that leaves the queue: `Discard` (stale), `Expand`, `Arrive`, `Abort` (unknown
  risk), `Overrun` (the limit of expansions), and `GiveUp`, `Cancel`. A label is
  kept for each node, bucket of time and heading. Entries that tie leave in any
  order; the code breaks ties by age. `Sailed` is the reference the answers are
  compared with: all voyages that a request allows, by the time they arrive.
- **`LayeredVoyages`** — what both services ask of one planner: three objectives,
  and in v3 three shorter voyages whose goals are the anchors of the recommended
  full voyage. An anchor is an index into that voyage, since a grid cell may be
  passed twice. `Plans` are the results as the contract sees them, and `ValidPlan`
  and `ValidSet` the contract's own computation of the same anchors and windows.
- **`Endpoints`** — the mapping of a corridor to two cells of the first frame, by
  region, distance and connected component, and `_plan_frames()`, which plans
  between them with what is left of the window as the time limit. `corridor` and
  `mapping` say what the command line was asked for and what came of it before the
  service was called: *outside* the window, *unmapped*, *refused* (no time is left,
  which the request does not accept) or *mapped*. `Orders` are what the services are
  asked for directly, without the command line.
- **`PlanFiles`** — invocations of the command line in one output directory.
  `atomic_write_json()` makes what is missing of the output directory's path, one
  directory at a time (`MakeDirectory`), and then is four steps (`CreateTemporary`,
  `FillTemporary`, `ReplaceTarget`, `SyncDirectory`), each of which may fail
  (`FailWrite`), as may the removal of the temporary file where `unlinks` is false;
  an invocation may be killed anywhere, and the power lost. Of the file system the
  model keeps that a rename is atomic and that what was not synchronised, contents
  and entries apart, may be lost. The directories of the path are entries too: of
  the `made` ones the first `anchored` are safe, being there at the outset or having
  survived a loss, and no step of the program adds to these. The mapping is the
  first file, so that the `mkdir()` of `cli.py:395` finds the directory made.

Definitions whose comment begins with "Faulty variant" are plausible bugs. No
specification uses them; they exist to show that each property notices a bug of
its kind.


## 3. What is checked

| Run | Instance | Question and answer |
|---|---|---|
| `session` | 2 v2 requests, 3 contexts of one run (a seek, a reconfiguration), 2 revisions, costs 9 and 10, risks 0 to 2; fair | All that the coordinator, the store and the gate guarantee. `FencesAgree`: one admits a request exactly when the other does. `CancelledForAReason`, `PublishedInInputOrder`, `PreviousIsEarlier`, `SnapshotCoherent`, `InputsAdvance`: who may be shown, and in which order. `GateSawWhatItReplaced`, `SwitchIsAnImprovement`: what D is switched to. `LatestWinsSpec`: the session implements the promise. `ServedUnlessRevoked`: everybody comes to a result. Holds. |
| `layered` | 2 v3 requests and a v2 one, 2 contexts, 2 revisions | What the second fence still gives: sets never go back (`SetsAdvance`), a displaced set is the one the gate saw (`SetGateSawWhatItReplaced`), only superseded requests are refused (`RefusedAfterBeingSuperseded`), v2 requests are undisturbed (`V2CancelledForAReason`). Holds. |
| `triggers` | 3 hours, 2 data revisions, 2 risk commits, 3 risks, 1 event; fair | Alarms are raised (`AlarmsRaised`), what was replanned for stays quiet (`QuietAfterReplan`), replannings are spaced unless urgent (`Spaced`), a suppressed reason is served or gone before the caller gives up (`SuppressedIsServed`). Holds. |
| `source` | 2 threads, 5 frames (2 hours, 2 versions, 2 generations, a foreign corridor), 3 queries | Windows have every hour of their query, both ends included, with exact and newest frames (`WindowsExact`, `NewestKnown`), never change (`WindowsFixed`) and are stable under a lease (`LeaseStable`). Holds. |
| `voyages` | a 2 x 4 grid, 12 waters, 9 orders with buckets of 1, 4 and 8, v2 and v3, 4 corridors, one of which departs with the last frame; fair | The answer is the cheapest voyage (`CheapestRoute`) and none is missed (`NoRouteIsMissed`) where a bucket holds one moment, the route read back is the one that was judged (`ChainConsistent`), its waypoints are open when they are reached (`WaypointsNavigable`), states are not opened again (`SettledForGood`); the results satisfy the contract (`ContractKept`), the shorter layers follow the recommended voyage (`ShorterLayersFollow`), the endpoint mapping refuses no corridor the search could serve (`MappingMatchesSearch`), and executions end (`ExecutionEnds`). Holds. |
| `ingress` | 3 formal calls, 2 v2 and 1 v3, initial plans and replannings, 3 revisions, one seek, leases for one and for three; fair | The baseline of the triggers follows the display (`BaselineFollowsDisplay`) and is of a plan that was shown (`BaselineWasShown`), a call that was turned away shows nothing (`NothingIsShown`), newer data replaces older (`ReplacesOlder`), leases end (`LeasesEnd`). Holds, each in the form its comment gives: `BaselineFollowsDisplay` names the two ways in which the code lets them part. |
| `files` | 2 invocations, the second with legacy data, 1 objective, 2 losses of power, an output directory of which 0, 1 or 2 levels are there | Files are whole (`FilesWhole`), those of two invocations are left in an order that shows it (`NewerFirst`), a success is durable, up to the loss of a directory made on the way with all that is in it (`ExitIsDurable`), and a failed write cleans up where it can (`TemporaryIsRemoved`). Holds. |
| `late_commit` | as `source` | "Atomically freeze an exact query result." **Violated** (finding 3). |
| `late_set` | 3 v3 requests | "A cancelled or late task must not write latest". **Violated** (finding 1). |
| `lost_set` | 3 v3 requests | A v3 request that reports a cancellation was cancelled or overtaken. **Violated** (finding 2). |
| `late_goal` | 2 x 3 grid, one freezing water | The goal is open water when it is reached. **Violated** (finding 4). |
| `missed_route` | 2 x 4 grid, a strait that closes, buckets of an hour | "No route" means that there is none. **Violated** (finding 5). |

**Bounds.** *Sessions.* A request begins at most once, so the number of requests
bounds the behaviours. In `session` there are two: one in flight or on display
and one that overtakes it; what needs a third (one on display, one in flight and
one that overtakes both) is covered by `layered` and `ingress`, and the theorems
of section 4 hold for any number. Contexts cover each way two tokens can differ
within a run: generation and digest; one scenario is enough since scenario and
run are compared alike except in `Older`, which does not look at the scenario.
One subject is enough for all but one part of `SwitchIsAnImprovement`, that a switch
never changes the vessel or the corridor, which the theorem `SwitchesImprove` shows
for any subjects. Costs 9 and 10 with a minimum of 10 percent meet the threshold exactly or miss
it, risks 0, 1, 2 with a hysteresis of 1 lie at, within and beyond it. Sessions
do stop when all requests have ended, but they never deadlock, because anyone may
cancel an ended request again, which the code allows; deadlock checking stays on.

*Triggers.* Time and data revisions are bounded by `MaxTime` and `MaxRevision`;
three hours hold a replanning, the minimum interval of two hours and a replanning
after it. Risks 5, 7 and 10 lie at the clear threshold, in the band and at the
alarm threshold, and differ by less than, exactly and more than the change
threshold of 3.

*Source.* One hour has an older version that was generated later, so that the two
orders of the tuple disagree, and two queries differ only in `as_of`. Two threads
are one that commits or prepares and one that plans; frames and resets come from
outside at any time.

*Voyages.* The hour of a frame is four units of time, eight and two in the runs of
the findings, so that samples fall on frames and between them; an edge takes 4 to 18 units, and a window has 7
frames. Two rows are enough for a detour, four columns for two decisions one
after the other. The waters hold every verdict an edge can get: hard at the end
and under way, too slow, too risky, of too little confidence, unknown, outside
the window, too late for the limit. The weights are those of `default.toml` in
hundredths. The reference (`Sailed`) enumerates all voyages in the order of
their arrival, up to `LastTime`, the end of the window and what an edge can add
to it, and keeps of those that are at one node, with one heading, at one
moment the cheapest, which is exact because nothing that follows depends on how
they got there. `Limit` is small enough for some searches to overrun,
`MaxExecutions` is one execution per behaviour, since executions share nothing,
and `MaxCalls` (12, all the calls of a v3 execution) only numbers them.

*Ingress.* Three calls give every order of publish and mark of two calls around a
third. The candidates for calls include two with the same contents and different
revisions, one that starts later, and one of the generation after the seek.

*Files.* `MaxRuns` is 2: an invocation before and one after, or two that overlap;
`MaxLosses` is 2, so that a directory can survive one loss and be there to stay at
the next, and `Depth` is 2, the output directory and one above it. One objective, in
two forms, stands for three, written in the same loop: no property relates the files
of two objectives. When all invocations have ended nothing
happens any more, so this run does not check deadlock.

**Fairness.** `ServedUnlessRevoked` assumes weak fairness of each thread's next
step inside `execute()`: searches are bounded by `max_expansions`, no lock is held
while waiting for another thread, and a thread that was scheduled once stays
scheduled. `ExecutionEnds` assumes the same of the one thread that searches, and
`LeasesEnd` of each call in the ingress (`Continue(r)`); entering the lease is not
assumed to succeed. Nobody is obliged to begin or to cancel a request.
`SuppressedIsServed` assumes that time passes and that the caller keeps observing,
which is how `replan_if_needed` is meant to be used (it returns `retry_at` for
that purpose); it does not assume that any replanning is published.

### Findings

1. `late_set`: `layered.py:248` reviews with the coordinator and `layered.py:250`
   publishes to the layered store, which only knows its own fence. A request
   that begins between the two steps does not keep the overtaken one from
   writing the layered latest, against `docs/ARCHITECTURE_AND_DECISIONS.md:90`.
   The run `layered` shows the limits of the damage: sets never go back and
   every displaced set is the one the gate saw.
2. `lost_set`: `layered.py:100` begins and `layered.py:109` activates the
   layered store. If a superseded request of the same revision activates after
   its successor, the store is fenced to the superseded token; the successor's
   publication is rejected and reported as a cancellation that nobody asked for,
   and neither request publishes.
3. `late_commit`: `sources.py:89` reads the frames and `sources.py:102` stores the
   window under a second acquisition of the lock. A reset in between discards the
   frames and the windows of their generation, after which the commit stores one
   of them again and `prepare()` accepts it, against `sources.py:87` and `:224`. The
   source is the in-memory one for tests and demonstrations; a formal store has
   to satisfy `CommittedRiskSource`.
4. `late_goal`: an edge is sampled twice, and its arrival is computed from the
   speed of the second samples, at a time at which it was not sampled
   (`planners/time_dependent_astar.py:438`). The edge that leaves a waypoint looks
   at it again at its own time, which `WaypointsNavigable` confirms; nothing looks
   at the goal. A route is answered, with a published count of hard violations of
   0, whose goal is hard at its ETA, against `docs/COST_MODEL.md:37`.
5. `missed_route`: of the labels of one node, bucket and heading the cheaper is
   kept, which may be the later (`planners/time_dependent_astar.py:338`). Behind a
   closing strait no route is found although the dearer, earlier label had one.
   `docs/DECISIONS.md:36` limits the algorithm to costs that do not favour late
   arrival, which waters that close by the hour do not satisfy. With buckets of
   one moment `NoRouteIsMissed` holds.

One limit is not among these, since no document of the repository promises more
than that writes are "crash-safe" and "same-directory"
(`publishing/serialization.py:1`): `atomic_write_json()` synchronises the directory
it writes in (`:258`) but not the one above, in which `mkdir()` may have made it
(`:238`). A loss of power after an exit status of 0 can take such a directory away.
`ExitIsDurable` says what remains: it goes as a whole, never in part, and only if it
was not there at the outset.

The first three come from the same shape: a check and the act it guards under two
acquisitions of a lock. The v2 path does both under the coordinator's lock, and
the same properties hold for it (`CancelledForAReason`, `LatestWinsSpec`).

## 4. What is proved

Nothing is assumed but the named assumptions on constants, which TLC evaluates for
every instance it runs.

**The session.** The proofs hold for any sets of requests, contexts, revisions,
costs and risks that satisfy `PlanAssumption`, `GateAssumption` and
`RequestAssumption`: generations, revisions, costs and risks are naturals, and the
values for "none" are none of the others.

- **The store** (`PublicationProofs`): `StoreTypeCorrect`, `StoreCoherent`,
  `StoreInputsAdvance`, for clients that call anything. Coherence is inductive
  together with types; the argument for `activate` is that a kept plan's revision
  is at most the old fence's, and the new fence is not older within the same
  context (`NotOlderInContext`).
- **The v2 service**: the inductive invariant `Inv` is
  `TypeOK /\ FencesAgree /\ RequestsConsistent`, where `RequestsConsistent` is
  `Numbered` (begins are numbered without gaps), `Tagged` (plans carry the token
  of the request that found them) and `SeenIsDisplayed`. No part is inductive
  alone: that a new request does not already hold the fence needs the numbering,
  that a cancel reaches only its own request needs the tags (tokens of different
  requests differ), and that nothing slips between the gate and the swap needs
  the fences. From `Inv` follow
  `CancelledOnlyForAReason`, `NothingSlipsIn`, and `SessionUsesStore`: a session
  implements `StoreSpec`, so that what is proved of the store with arbitrary
  clients holds in every session (`SessionSnapshotCoherent`).
- **The end of a request**: `RequestsRunOut` counts what a request that began has
  left, six steps at most; the steps of others leave that count alone, and at zero
  it has a result unless it was revoked. `ServedUnlessRevoked` is this and fairness.
- **The order of results**: `SessionImplementsLatestWins`, step by step
  (`Begin` is `Issue` because it revokes exactly those that began before;
  `Cancel` is `Close`; an admitted `Publish` is `Show` because tickets are
  injective; all else stutters). `ResultsInInputOrder` strengthens the property to
  all requests that began and uses transitivity of "not older" within a run.
  `PreviousAlwaysEarlier` adds that displayed plans belong to ended requests.
  `SwitchesImprove` adds that a request about to publish was let through.
- **The v3 service beside it**: the same session with v3 requests, for any number
  of requests of either service. `SharedInv` is what both services rely on: types,
  that the active request is the newest (`Newest`), tags (`Carried`) and
  `FencesAgree`, which v3 steps do not touch; hence `V2Undisturbed`. The layered store
  is fenced a step later than the coordinator and checked a step later than the
  final review, and the argument for what it still guarantees is the same twice:
  only a request's own activation fences the store to its token, and only before it
  is searched for, so that a store still fenced to it has not changed since
  (`SeenIsShown`, hence `NoSetSlipsIn`) and shows nothing later than it
  (`ClearedIsLater`, hence `SetsNeverGoBack`). A request that was overtaken finds the
  store fenced to another and is turned away, or publishes late but in order, which
  is finding 1. `RefusedOnlyWhenSuperseded` adds that the store is fenced to a
  request of the session and the newest is older than none of them
  (`FencedInOrder`). `SetsUseStore` and `SetSnapshotsCoherent` carry the store's own
  guarantees over.

**The triggers and the source.**

- **`ReplanTriggerProofs`**: for every policy with a positive change threshold
  and a clear threshold not above the alarm threshold (`PolicyAssumption`), and
  every number of revisions, risks and events. `TriggerInv` is
  `TriggerTypeOK /\ LatchAgrees`; `NoAlarmIsHidden` and `ReplannedIsQuiet` need the
  latch's relation to the baseline, without which a set latch could hide an alarm
  that no plan was made for. `ReplannedIsQuiet` is where the positive threshold is
  used. `ReplanningsAreSpaced` is the action property `Spaced` from the same
  invariant.
- **`RiskSourceProofs`**: for any frames, queries and threads. `LeaseAlwaysStable`
  and `CommitsAreFinal` rest on `LeaseInv`, which adds to `LeaseStable` that
  exactly the holder plans; that makes every action that could change a window
  wait. `WindowsAreExact` and `NewestIsSelected` are about what the selection loop
  of `get_window()` computes: after any number of frames (`SelectedFrom`) every
  hour that is kept has a frame the query may use, and none seen so far is newer.
  `ContentsInv` carries that from the read to the commit and through a lease.

**Recursion.** The selection loop, the enumeration of voyages, the cost of a route
and its reading back from the predecessors are recursive functions.
`Recursion.tla` has what their proofs share: a set that holds 0 and, with a number,
its successor holds every natural (`EveryNatural`, from the least number outside
it), and a function defined step by step on 0..n exists and satisfies its
equations (`StepsExist`). An induction is then the set of the lengths for which
the statement is true.

**The ingress and the files.**

- **`FormalIngressProofs`**: for any number of calls of either service, revisions,
  observations and policies. `FormalImplementsLayered` says that a formal session
  makes only the steps of a layered one, so that all that is proved of it
  holds; it needs that the switch gate always hears a reason it knows
  (`CallAssumption`, which `MCIngress` meets with `AnyReasons`). The invariant
  `FormalInv` relates four histories: leases and stages (`CallTypes`, `Asked`),
  the generations a session has seen (`Entered`), whose plans are on display
  (`Display`) and whose observation is the baseline (`BaselineIsMarked`, hence
  `BaselinesWereShown`). With exclusive leases the call under way is the newest
  request (`NewestIsServed`) and what it was validated against is still there when
  it publishes (`Validated`, hence `ReplansReplaceOlder`), so that the last marked
  call and the baseline can part only where a mark raised or was of an earlier
  start (`BaselineFollows`, hence `BaselinesFollowDisplay`). `NothingMeansShown`
  adds that a call which finds nothing to do found a baseline of its own data.
  `LeasesRunOut` counts the steps of a call as `RequestsRunOut` does: a lease is held
  exactly while there are any, at most ten. `LatchFollowsBaseline` shows that what
  `TriggerInv` says of the latch holds in a session too, where generations end and
  the calls of both services overlap.
- **`PlanFilesProofs`**: for any number of objectives, invocations, kills and losses
  of power. `FileTypes` says that what is found under a name, in the cache or on
  the disk, is a whole document that belongs there (`FilesAreWhole`);
  `TemporaryOfWrite` that a temporary file is that of a write under way or of a
  killed one, or one that could not be removed (`NoTemporaryIsLeft`). `InTurn` is the invariant of invocations that
  did not overlap: what any of them has written so far is in the directory *and* on
  the disk (`Progress`), and both, in any mixture, are ordered (`BothOrdered`).
  The mixture is needed because a loss of power takes any of the unsynchronised
  entries. `NewerComesFirst` and `ExitsAreDurable` follow; the latter for a path of
  any depth, where what was `found` at the outset bounds what may be lost
  (`PathTypes`), and a directory that is lost takes all documents with it (`Gone`).

**The search.** `VoyagesProofs`, first part: for any grid, windows, requests, times
and edges that satisfy three assumptions. `SearchAssumption`: arrivals are whole
numbers up to some last one. `EdgeBoundAssumption`: a sailable edge arrives later
than it departs and costs no less than it lowers the bound, which is what
`CostModel.heuristic` is built for. `InspectionAssumption`: an edge's first sample
is the node it leaves. That the code's edges are such is proved below; TLC
evaluates the assumptions on its instance.

- *Settled states.* `SearchInv` says that the queue, the labels, the predecessors
  and the kept distances are those of one call (`CacheExact`, `QueueSound`,
  `PredecessorsSettled`), and that a settled state, one without a current entry in
  the queue, lies below every entry (`SettledIsLow`). The last is the heart of it:
  an entry leaves the queue only as its least, and what an expansion adds is no
  less than it, because the bound is consistent. Hence an improvement is never for
  a settled state (`NoReopening`), and the label a predecessor had when a state was
  reached is the one it has at the end (`ChainsConsistent`).
- *The route.* `TreeInv` adds that the predecessors form a tree rooted at the start
  (`Rooted`, `Adjacent`), that all edges of a settled state were followed (`Closed`)
  and, with buckets of one moment, that a state has one arrival (`Timed`).
  `_build_result()` reads a route back along that tree, and the proof follows it by
  recursion on the arrival, which only grows: what is read is a voyage, at the
  cost of its edges (`RouteReads`), through open water (`WaypointsOpen`).
- *Optimality.* A voyage is `Pursued` when the state where it ends is settled at no
  greater cost, or an entry of the queue is no worse than all it can become.
  `PursuitGoesOn` is the step: an edge on from a pursued voyage is pursued. Hence
  every voyage of the enumeration is (`SailedPursued`), and when the goal leaves
  the queue, or the queue is empty, none is cheaper and none was missed
  (`AnswersAreCheapest`, `NoRouteMissed`). `NoVoyageOverlooked` says the same of
  every sequence of waypoints that is a voyage, without the enumeration, whose
  own pruning thereby loses nothing.

**The services.** `VoyagesProofs`, second part, with two more assumptions:
`AskedAssumption`, that the requests of the search include all the services ask,
and `ObjectiveAssumption`, that the objective changes what an edge costs and
nothing else (proved of the code's edges below). `ServiceInv` says that every result kept is a voyage its call asked
for (`Sound`) and that the anchors of the layers begun so far exist. The service
and the contract find an anchor by different rules, and `AnchorsAgree` shows
that on a route whose times grow they find the same one; with it every plan and
the set of twelve are valid (`ContractAlwaysKept`). For `ShorterAlwaysFollow` the
part of the recommended voyage up to an anchor is a voyage for the shorter
layer's request under each objective (`PrefixIsVoyage`), within its time limit, so
that by `NoVoyageOverlooked` 'no route' is not the answer; that the water at the
start is open is known from the full voyage (`StartIsOpen`). `ServicesUseSearch`
says that the services ask the search for nothing but its requests and never disturb
it: all that is proved of the search by itself holds in them.

**The edges.** `EndpointsProofs`, first part, shows of `_evaluate_edge()` what the search
assumes, from `SamplingAssumption` and `EdgeAssumption`: the distance is a metric,
the economic speed is not above the maximum, and weights and penalties are not
negative. For any frames and any cells in them, an edge that can be sailed arrives
later than it departs, within what the slowest admitted water takes, and costs no
less than it lowers `CostModel.lower_bound()` for any goal (`EdgesKeepTheBound`,
`EdgeBoundAssumption` of the search with `EvaluateEdge` for its `Traverse`). The
argument is that the terms the bound leaves out, turns, risk and low confidence,
are never negative (`RiskIsNat`, `AverageIsNat`, `TurnIsNat`), that ice only slows
(`SampleIs`, `PassedIs`), and the triangle inequality (`BoundSplits`).
`EdgesLeaveOpenWater` and `ObjectivesOnlyPrice` are the two other assumptions. What
stays assumed of the instance is that its sets of times and requests are large
enough. `EdgesEnterOpenWater` is what the code guarantees of an edge's end: that it is
open at the arrival that calm water gives and at the one its samples give, but not
at the one that is answered, which is finding 4.

**The endpoints and the command line.** `EndpointsProofs`, second part, for any grid,
frames and corridors that satisfy `EndpointsAssumption` and `GridAssumption`.

- *The mapping.* A wave of `ConnectedComponent` that reaches nothing new is the last,
  and before it each reaches a cell more, so there are no more of them than cells
  (`WavesEnd`); the component is the least set that holds the start and is closed
  under open neighbours (`ComponentIsReach`). `MappedEndpoints`: both endpoints are
  open cells of their regions, near enough, connected, and none such is nearer.
- *The mapping and the search.* An edge ends in a sample of the cell it enters
  (`EndsOfEdge`, `LastSample`), so that under ice that stays it never enters that ice
  and a voyage stays in the component of its start (`VoyagesStayInReach`,
  `UnmappedIsUnreachable`). A search that was turned away at its start was so by the
  water there, which in the first frame is what the mapping looked at.
  `MappingAlwaysMatches` joins the two halves.
- *Nothing new.* `CommandLineUsesServices` shows that a command line in front of the
  services makes only their steps, so that with `ServicesUseSearch`
  `CorridorSpec => VoyagesSpec => Spec`; `CommandLineKeepsAll` states what the run
  `voyages` checks of all three.

**The end of an execution.** `ExecutionsRunOut` has the measure that an execution
goes down by: the results that it lacks, where it stands between two of them, the
expansions that `max_expansions` leaves and the entries of the queue, compared in
this order, since an expansion lengthens the queue and a result starts a new count.
Every step lessens it, and until it has ended there is a next step to make. What
`ExecutionEnds` has beyond that is that the step is made, and that such a descent
ends.

The type invariants (`TypeOK`, `TriggerTypeOK`, `SearchTypeOK`, `StoreTypeOK`,
`SourceTypeOK`) and the purely auxiliary conjuncts of the inductive invariants
are proved too and are not listed as invariants of a run.

**Only model-checked.** The four liveness properties, `ServedUnlessRevoked`,
`SuppressedIsServed`, `LeasesEnd` and `ExecutionEnds`: the prover does not handle
fairness and ENABLED. The safety half of all but `SuppressedIsServed`, which depends
on the passing of time alone, is proved as above.

## 5. Not modelled

- Geometry, timestamps, identifiers, JSON forms and digests of plans and windows.
  They are conversions of immutable values in sequential code; where a property
  depends on one (the order of times, equality of contents, distances and
  headings of cells) the models keep what it distinguishes.
- Requests that fail their own validation before `begin()`, the field validation of
  the contract models, the codecs, the configuration and the argument parser.
- `inspect-legacy`, which only reads and prints, and the adapters for fixtures and
  legacy data, which build frames of the same form.
- `RouteSwitchGate`'s force flag, which neither service sets, and
  `snap_to_navigable()`, which nothing calls; the search's counters and its
  progress report.
- Of the file system, everything but what section 2 says of renames and
  synchronisation.

## 6. Plan

The digest of a window and the codecs, as far as a property needs more of them than
equality; then the field validation of the contract models.
