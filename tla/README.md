# Verification of the A2A coordination services

TLA+ modules for the services of this repository: the **Registry** (FastAPI and
SQLite), the **Gateway** (the A2A server), the **queue workers** behind RabbitMQ,
the **Manager plugin** (TypeScript, inside OpenClaw) and the **skill evolution
service**, and the **page** that shows what the Registry knows. TLC checks each module
on a small instance. TLAPS proves the safety properties and the refinements for every
number of agents, tasks, workers, leases and failures; liveness is TLC's alone.

Paths below are relative to the repository's root. `PROJECT.json` names, for
every definition, the lines it models.

## Inventory

| Component | State it keeps | Operations | Hard behaviour | What makes it correct |
|---|---|---|---|---|
| Registry execution records (`registry_service/execution_store.py`) | tables `task_executions`, `task_experiences`: state, claim token, lease, attempt, result | claim, complete; claim, complete and release an experience; cascade on deletion | leases that expire while their owner lives, repeated and late calls | a result or report is recorded once; a lease is honoured; rows go with their agent |
| Queue-backed execution (`a2a_server/queueing.py`, `worker.py`, `gateway_executor.py`) | RabbitMQ partitions, reply queue, pending futures in the Gateway, what a handler holds | dispatch, deliver, claim, execute, complete, publish, acknowledge, return | redelivery, lost connections with handlers that go on, answers lost after the call took effect, restarts | no task is executed twice at once; every answer is the recorded one; no command is lost or doubled; every command settles, for good |
| Experience collection (`worker.py`, `experience.py`) | experience partitions, experience leases, memories in MemOS | claim, reflect, write, complete, release | the same, and messages published twice | one collection at a time; nothing written after the report |
| Task events (`registry_service/task_store.py`, reports in `gateway_executor.py`, `worker.py`) | timeline `task_events`, projection `task_runs` | record an event, project it | best-effort reports, late, repeated, out of order or lost | the projection is the latest event; a finished task stays finished; Gateway and Registry agree |
| Agent registry (`registry_service/store.py`, `app.py`, `secret_store.py`; the form in `AgentEditor.vue`) | definitions with revisions, their Agent Cards, encrypted bearer tokens | upsert, delete; at every start: migrate definitions, build the cards anew, bootstrap | forms filled in from an old definition, Agent Cards fetched in between, registrations beside both, a Gateway URL that changes | a reference to a token resolves; no token outlives its agent; cards name the Gateway there is; a revision means one thing, but for what a start changes |
| Manager plugin (`manager-a2a-plugin/src/index.ts`) | in-memory maps of pending and scheduled tasks, callback token | `a2a_send`, push callback, polling, completion | one task completed from three places, awaits between test and use, restart | the Manager is woken, once |
| Skill evolution (`skill_evolution/store.py`, `service.py`, `package.py`, `skillhub.py`) | policy rows with lease and evidence hash, runs, packages on disk, versions in SkillHub | claim, run a policy, complete, fail, recover | a scheduler and commands beside it, crashes, leases that lapse | one run of a policy at a time; no update lost; recovery always possible |
| Runtime status monitor (`registry_service/status.py`) | snapshots of probes, a lock | refresh (by the loop and on request), snapshot | agents edited, endpoints failing and refreshes queueing during a refresh; a probe that raises | snapshots never get older; who asks for a refresh gets one made since; they catch up |
| Event stream and web application (`app.py`, `App.vue`, `api.ts`) | a bounded queue per browser; what the page shows, its calls, its stream and timers | publish; poll, force a refresh, stream, reconnect, enter a token | slow readers, refreshes that are dropped, answers that overtake each other, streams that end or are refused | a forced refresh is shown with statuses made since the click; the page comes to show the Registry as it is |
| Self-registration and onboarding (`onboarding.py`, `register_agent.py`) | none beyond the agent's row; adapter requests | register with a manifest, with or without a card or a probe; file a request | administrators and other registrations between probe and store, registrations repeated | as for the agent registry; registering again changes nothing |
| Agent backends, policy validation, adapter templates, scripts | none, or static data | | | not modelled, see below |

How they interact. The Manager plugin submits a task to the Gateway over A2A and
is told of its end by a push or a poll. The Gateway either calls the agent itself
or sends a command through one partition of RabbitMQ to a worker, which claims the
execution at the Registry, calls the agent, completes the execution at the
Registry, returns the result through the Gateway's reply queue, and asks for the
collection of the experience. Gateway and workers report what happens to the
Registry, which projects it for the web application and announces it on an event
stream. Agents register themselves at the Registry, administrators edit them there
through the page, and the status monitor probes them. The skill evolution service
runs beside all this on its own database.

## Modules

| Module | Models | Uses |
|---|---|---|
| `ExecutionStore` | the two lease tables; one action per operation of the class | |
| `ExecutionStoreProofs` | theorems about it | `ExecutionStore` |
| `TaskExecution` | Gateway dispatcher, one partition, command handlers, composed with the store | `INSTANCE ExecutionStore`, `INSTANCE TaskOutcome` |
| `TaskOutcome` | abstract: what a queue-backed task promises to the Gateway's clients | |
| `TaskExecutionProofs` | theorems about the composition | `TaskExecution`, the store's theorems |
| `ExperienceCollection` | experience partition, handlers, MemOS, composed with the store | `INSTANCE ExecutionStore` |
| `ExperienceCollectionProofs` | theorems about it | `ExperienceCollection`, the store's theorems |
| `TaskProjection` | `execute()` and `cancel()`, the reports, the Registry's timeline and projection | |
| `TaskProjectionProofs` | theorems about it | `TaskProjection` |
| `ManagerPush` | the plugin's event loop and the agents it talks to | |
| `ManagerPushProofs` | theorems about it | `ManagerPush` |
| `SkillEvolution` | the policy store and `run_policy` | |
| `SkillEvolutionProofs` | theorems about it | `SkillEvolution` |
| `AgentRegistry` | agents, tokens and administrators' forms | |
| `Onboarding` | agents that register themselves beside the administrators | `EXTENDS AgentRegistry` |
| `AgentRegistryProofs` | theorems about the two | `Onboarding` |
| `StatusMonitor` | the refreshes of the availability snapshots | `INSTANCE StatusPromise` |
| `StatusPromise` | abstract: what the page relies on from the monitor | |
| `Dashboard` | the page, its requests and its event stream, composed with the promise | `INSTANCE StatusPromise` |
| `PageBounds` | the limits of the page and its event stream | |
| `MonitoredPage` | the page with the monitor itself in the place of the promise | `EXTENDS StatusMonitor`, `INSTANCE Dashboard` |
| `StatusMonitorProofs` | theorems about the monitor and its promise, the page, and the two together | `MonitoredPage`, `StatusPromise` |

An `MC...`
module names a small instance of each specification (`Onboarding` and
`AgentRegistry` share `MCAgentRegistry`), and there is one `.cfg` per run, beside
`MonitoredPage.cfg`, which no run uses (see Proofs).

**Steps.** The Registry's handlers run without an `await` inside one SQLite
transaction, so each operation is one action; those that fetch a card or probe an agent
have an action for each side of the wait. Everywhere else an action is the
code between two awaits. A call between processes that changes the Registry is
one action of the caller, with a `...Fails` action beside it in which the call
raises before or after it took effect. An operation that is refused changes
nothing; which refusal the caller gets is a predicate (`Replays`, `Busy`,
`IsDuplicate`).

**Data.** A lease is the time left to it; `Tick` runs all of them down, so that
"expired" is `lease = 0` and no absolute time is kept. A missing row is the
record `NoRow`. The result of an agent call is named by the claim token of the
execution that produced it, so that two calls for the same task have different
results and a mix-up shows. Message ids of commands are the pair of agent and
task, which is what `TaskCommand.create` makes of the two. Tokens and run ids
(`uuid4`) are counted.

**The correspondence by module**

- `ExecutionStore`: `executions` and `experiences` are the tables, `issued` the
  number of tokens made. `ClaimExecution`, `CompleteExecution`,
  `ClaimExperience`, `CompleteExperience`, `ReleaseExperience` are the methods of
  `ExecutionStore`; `DeleteAgent` and `Cascade` are the foreign keys. The order of
  the checks in `complete()` (state before token) is in `IsDuplicate` and
  `MayComplete`.
- `TaskExecution`: `gateway` is the live A2A task together with its pending future,
  `commands`, `unacked`, `dead` are the broker, `handler[w].pc` is where
  `_handle_message` is. `ReturnDelivery` is `nack(requeue=True)` and a lost
  connection alike; `Requeue` counts against `x-delivery-limit`. A disconnected
  worker keeps its handler: its publications and its acknowledgement go nowhere or
  raise. `GatewayRestart` replaces the reply queue, which `PublishUnroutable` then
  meets because results are published with `mandatory=True`.
- `ExperienceCollection`: the same for `_handle_experience_message`; `memories`
  collects the claims under which MemOS was written.
- `TaskProjection`: `network` holds reports under way, `timeline` and `runs` are
  the tables, `live` is the Gateway's task, `execution` is where `execute()` is.
  Sequence numbers are those the code gives: 1 for SUBMITTED, 2 for WORKING or a
  refusal, 3 for a result, 4 for a cancellation. `queued` is whether there is a
  dispatcher.
- `ManagerPush`: `pending` and `scheduled` are the maps `pendingTasks` and
  `scheduledTasks`; a task is in `processingTasks` while `completion` is not
  `"none"` for one of the three callers of `scheduleManagerCompletion`.
- `SkillEvolution`: `policies` and `runs` are the tables, `runner[w].at` is where
  `run_policy` is, `hub` lists the versions of the Skill with the version each was
  made from and its files; `unseen` marks a run, and the version it publishes, that was
  told there is no Skill when there was one (`Fetch`); `Overlaid` is what `write_candidate_package` makes of the base
  and the candidate. `SKILL.md` is in every candidate, so only the files beside it
  (`Resource`) are kept. A search returns any `Evidence`, whatever the one before
  returned, and the outcome text of a run is left out, since nothing reads it back.
  `lapsed` remembers that some run went on without its lease.
- `AgentRegistry`: `rows` and `secrets` are the tables, `forms` what the editor
  shows each administrator, `fetches` the native registrations that wait for a
  card. `crossed` remembers agents of which a form was saved that had been overtaken,
  by another administrator or by the agent registering itself. The form sends a token
  only where the editor lets one be typed (`onTokenInput`). `gateway` is the URL the
  Registry was started with, of which the card of a managed agent is made: the model keeps
  of that card the URL only. `Restart` is a start: the three transactions of
  `_initialize`, `rebuild_public_cards` and `seed_from_file`, before which no request is
  served (`Serving`).
- `Onboarding`: `registrations` are the `POST` handlers that await a card or the probe,
  `requests` the table of adapter requests; `settled` remembers the registration that
  made an agent what it is; a start leaves it, since the agent has it still. `Kind` is the path `onboard_agent` takes for a manifest,
  `BackendAuth` the authentication it derives.
- `StatusMonitor`: `waiting` is `_refresh_lock` (asyncio's lock serves in order),
  `refresh[c]` a caller inside it with the records it listed and the results of its
  probes, `statuses.of` the dictionary `_statuses`. `epoch` counts the changes of agents
  and network and dates what is known of them: `statuses.seen` is the epoch in which the
  refresh of these snapshots began, `asked[c]` that in which a caller came, `unfit` the
  last one in which an agent whose probe raises was active.
- `Dashboard`: of agents and snapshots it keeps the epoch they are of, of task events
  their number. `calls` are invocations of `refreshData`, `statusCall` that of
  `refreshRuntimeStatuses` (guarded by `statusRefreshPending`), `stream` and `timer` are
  `eventController` and `eventReconnectTimer`, `queue` is the subscriber's queue at the
  Registry, `screen` what is shown. `calls[s].since` is the epoch in which a call was made.
- `MonitoredPage`: the callers of the monitor other than its loop are the calls of
  `refreshData`. `ForcedStep` is `refresh_agent_status` seen from both sides: the call is
  sent as it asks for the lock, and answered as its refresh ends or raises. `StatusesRead`
  is a snapshot that one of the page's requests takes. Whatever else the monitor does
  leaves the page alone, and the other way round.

## Runs

| Run | Instance | Shows |
|---|---|---|
| `execution_store` | 2 agents, 2 tasks, 2 message ids, leases to 2, 3 claims | experiences follow completed executions, deletion leaves no row, results and reports are final, no claim cuts a lease short |
| `task_execution` | 1 command, 2 handler slots, delivery limit 2, 1 Gateway restart, with fairness | who calls the agent holds a lease that outlasts the call, no overlapping executions, answers are the record, nothing is lost or in the queue twice, the experience comes after the answer, a command done with does not come back; `TaskOutcome` is implemented; every accepted command is eventually done with |
| `task_execution_sequential` | 2 commands, 2 handler slots | **violated**: "messages in one partition execute sequentially", see Findings |
| `experience_collection` | 1 task, its message published up to twice, 2 handler slots, with fairness | one collection at a time, nothing written after the report, no message lost, every message settles |
| `task_projection` | 1 task of the Gateway, 1 reported without numbers, lossy network, deletion | the projection is the latest event, finished tasks stay finished, Gateway and Registry agree when nothing was lost |
| `task_projection_follow_up` | the same, with a second message to a task that asked for input | **violated**: the Registry misses the second execution, see Findings |
| `manager_push` | 1 task with pushes, 1 polled, failures, 1 restart, with fairness | woken once, the session is kept until then, a task that ended is always about to be looked at or woken for, and woken in the end unless a call failed, a push was ignored or the poll reached its deadline |
| `manager_push_lost` | 1 task with pushes, nothing fails | **violated**: the Manager is never woken, see Findings |
| `skill_evolution` | 1 policy, 2 processes, 3 runs, 1 file beside `SKILL.md` | one run at a time, each update made from the last version and with its files, a version made from none over an existing Skill only by a run whose download was answered not-found, unchanged evidence skipped, all while leases hold; recovery possible whatever lapses |
| `agent_registry` | 1 agent that registers itself with 5 manifests, 2 administrators, 2 tokens, 3 revisions, 2 Gateway URLs, a database with a definition to migrate or none | references resolve and no token is orphaned, whoever writes; cards name the Gateway of the last start; revisions track all changes but those of a start; registering again is idle |
| `status_monitor` | 2 agents, an endpoint that can be probed and one that cannot, the loop and 1 request, 3 epochs, with fairness | `StatusPromise` is implemented: snapshots never go back, a forced refresh is made after it was asked for; snapshots as new as the last change are right; they catch up with the world |
| `dashboard` | 1 page, a queue of 1, 2 task events, 2 epochs, 2 incidents, with fairness | a call is shown with nothing older than itself; the page catches up with the Registry, whatever was dropped, overtaken or cut off |

Type invariants are proved (`TypeCorrect`, `PageTypeCorrect`); TLC evaluates one beside
that in `agent_registry` only.

**Bounds.** Every bound is a guard or a range with a name.

- `MaxClaims` (tokens) is 3 in `ExecutionStore`: a claim, its takeover, and a claim
  of another row. In the compositions it is at least the number of deliveries the
  delivery limit allows, so that it never withholds a claim.
- Two handler slots let a cut-off handler meet the one its command went to. A third
  would need a third delivery while two handlers still run; the proof of
  `NoOverlappingExecution` covers any number.
- `DeliveryLimit` is 1 or 2 instead of the code's 5: it is reached, and there is a
  return before it.
- Partitions share nothing but the Registry, whose rows they do not share either,
  so one is modelled. Two commands on it matter only for their order, which is what
  `task_execution_sequential` is about.
- `MaxEvents` is 5: the four numbered events of a task and an unnumbered one.
- `MaxRuns` 3 of `SkillEvolution`: the run that published, one in between, one that
  may publish again. Times are in ticks with lease = interval = 2 and retry 1, so that
  each can end before the others.
- `MaxRevision` 3, `MaxCard` 2 in `AgentRegistry`: created, changed, changed back. Two
  values of `Gateway`: a start with the same URL and one with another.
  `MaxFetch` and `MaxRegistration` are 1: a card fetched for the form, and a
  registration with a card or a probe, each meet the other and all that is stored at
  once. `MaxRequest` 1: the table of adapter requests touches nothing else. There is
  one manifest for every path of `onboard_agent`.
- `MaxEpoch` 3 in `StatusMonitor`: a change before a refresh and one during it. One
  request beside the loop makes each wait for the other.
- `Dashboard`: a queue of 1 with 2 events overflows; 2 epochs and 2 events make an old
  answer differ from a new one; 2 incidents are a failure and the token entered after
  it, or two failures. One call of `refreshData` is overtaken by, and overtakes, that
  of `refreshRuntimeStatuses`; with two the instance takes hours. The proof of
  `RefreshIsFresh` covers any number of calls.
- `MaxWakes` 2: once too often.

`CHECK_DEADLOCK FALSE` is said where an instance may come to rest: all tasks
finished, a bounded timeline full, all revisions used.

**Symmetry** is used for interchangeable handlers, administrators, tokens, Gateway URLs,
agents and tasks, in runs that check no liveness property. None is used in
`task_execution`, `status_monitor`, `dashboard` and the other runs with fairness.

**Fairness.** `TaskExecution` and `ExperienceCollection` assume weak fairness of
each handler's own steps (asyncio runs what is ready, each outgoing call has a
timeout and returns or raises), of delivery (the broker gives what it holds to a
free consumer) and of time. Not of failures, and not of what clients do: a command
settles even if every attempt fails, because the delivery limit counts the returns
and because a handler that finds its task BUSY waits only for the rest of a lease.
`ManagerPush` assumes that every task ends at its agent, that calls return, that
pushes arrive in order unless lost, and that the poll loop goes round; not that
anything fails, restarts or times out. `StatusMonitor` assumes that its loop goes
round (`_run` sleeps and refreshes) and that each refresh takes its next step (a probe
has a timeout, a free lock is taken); not that an administrator ever asks, nor that
anything changes. `Dashboard` assumes that requests are answered and answers taken, that
the page's timers fire, and that the monitor catches up, which is `SnapshotsCatchUp`
of `StatusMonitor`; nothing of administrators, agents and failures.

## Proofs

Every theorem holds for all constants that satisfy the assumptions in the modules.
Most of these are types. The ones with content: leases are positive
(`StoreAssumption`); `MaxExecution < WorkerLease` (`ExecutionAssumption`), which
`README.md` asks for ("Set `A2A_WORKER_LEASE_SECONDS` longer than the largest Adapter
execution timeout"); the like for reflections (`CollectionAssumption`). Two theorems
have a hypothesis of their own, named below. Bounds on counters are constants too, so a
theorem holds for each value of them.

Each proof has the same plan. The module states its inductive invariant `IInv` as a
conjunction of named parts, which TLC checked on the module's run before it was
proved; the proof has a lemma for the initial states, one for every action, and one
that puts the actions together; each property then follows from `IInv`, or from
`IInv` and one step. What several actions do alike (a handler moves, an upsert is
stored, a report is sent) is a lemma of its own.

**The store.** The inductive invariant `ExecutionStore!IInv` adds to the checked
properties three facts they need. `ClaimsCounted`: tokens in the tables are among
those issued, so a new one is new, which gives `TokensUnique`.
`OnlyRunningRowsLeased`: a finished row has no lease, which makes `Tick` leave it
alone. `NoOrphanRows` itself is what makes a claim of a deleted agent's row
impossible. There is one lemma per operation; `NextIInv` puts them together.
From it follow

- `StoreInvariant`, `TypeCorrect`, `ExperiencesFollowExecutions`,
  `TokensOpenOneRow`, `DeletionIsComplete` (invariants), and
- `ResultsArePermanent`, `ReportsArePermanent`, `LeasesAreHonoured` (action
  properties: no step replaces a result or report, no claim ends a live lease).

**The composition.** `NoOverlappingExecution` is not inductive. What keeps two
executions apart is not the queue, which redelivers while a handler runs, but the
lease: `ExecutorHoldsLease` says that whoever calls the agent owns the row's token
and that the lease outlasts the call (`row.lease > handler[w].timer`). Tick keeps
the difference, a claim by another handler needs `lease = 0`, and a completion
by another needs its token; `TokensExclusive` says no two handlers owe a completion
under the same one. Two executions of a task would then hold one token, hence be one.
`ResultsHeld` says what a handler that publishes holds is the recorded outcome,
`SubmittedFirst` that nothing happens to a command before its submission, and
`DeliveryHasHandler` that an outstanding delivery has a handler; the last two are
what the abstract specification and the typing of a returned command need. The
conjunction is `TaskExecution!IInv`. Its proof classifies steps by what they do to
handlers and rows (`...Moves` lemmas) and reuses the store's lemmas
through an instance of its theorems with the composition's tables. From it follow

- `ExecutionInvariant`, `TypeCorrect`, `ExecutorsHoldLeases`,
  `ExecutionsDoNotOverlap`, `AnswersComeFromTheRecord`;
- `KeepsThePromise`: it implements `TaskOutcome` under the mapping
  `PromisedOutcome`, in which an outcome exists once the Registry's row is terminal.
  Every step maps to one of `TaskOutcome`'s or to a stutter.

The delivery of commands adds `DeliveryInv`, proved on top of `IInv`: with the two
properties it needs `PublishedInOrder`, by which a handler that asks for the experience
has returned the result, and one that acknowledges has done all there is to do. It
gives `CommandsAreNotLost` and `ExperienceFollowsAnswer`. `QueuedOnce` is inductive given
`IInv`: `SubmittedFirst` keeps a submission from doubling a command, and the test
`unacked = w` of `ReturnDelivery` a cut-off handler from returning what another one has
(`CommandsAreQueuedOnce`). Its steps show at once that what has left the queue stays out,
`SettledStaysSettled`: the safety half of `EveryCommandSettles`. There is one lemma for
each way a step can touch the queue (`QueueUnder`): nothing, a submission, a delivery, a
return, an acknowledgement.

What the store promises its clients holds with these clients: `ResultsStay` and
`LeasesStay` carry `ResultImmutable` and `LeaseHonoured` over to the composition, from
the store's inductive invariant, which is part of the composition's.

**The experiences** (`ExperienceCollectionProofs`). `CollectorHoldsLease` is the
argument of `ExecutorHoldsLease` again: who writes to MemOS owns the row's token and a
lease that outlasts the call (`Owns`). `TokensExclusive` keeps two handlers from
sharing a token, `InOrder` and `DeliveryHasHandler` tie what a handler has done to what
it still owes the broker. Hence `CollectionsDoNotOverlap`, `ReportsAreRemembered`,
`RequestsAreNotLost`, and `WritesEndWithTheReport`: after a report is recorded no step
writes a memory. Reports are permanent and leases honoured in this composition too
(`ReportsArePermanent`, `LeasesStay`).

**The projection** (`TaskProjectionProofs`). What is hard here is that reports are
late, repeated and lost. `NumbersKept` says which number goes with each state a report
carries (`Number`), on the way or in the timeline; `LatestKept` that the row is made
from the highest number of the timeline; `ReportsInOrder`, for tasks executed once, that
nothing was reported with a higher number than the last report of `execute()`
(`LastOf`) or with the same and another state, and that this report is not gone unless
one was missed. From it follow
`LatestHasTheHighestNumber`, `FinishedTasksStayFinished` and `RegistryAgrees`:
`ASSUME ~FollowUps PROVE Spec => []AgreesWhenQuiet`. The hypothesis is needed, as the
run `task_projection_follow_up` shows (finding 2).

**The skills** (`SkillEvolutionProofs`). `LeaseHeld` is the heart: while no lease has
lapsed, whoever runs a policy has its lease, and its run is the policy's last. It rests
on `RunsCounted` and `RunsOwned` (a process works on a run of its own that has no result
yet). `VersionsOwned` and `VersionsInOrder` tie the published versions to the runs,
`HashIsLast` the policy's hash to the digest of its last run, and `BaseIsCurrent` says
that nobody publishes between a run's fetch and its publication: its base is the last
version or, for a run marked `unseen`, none. `RunningCanBeRecovered`
holds whatever lapses; `RunsDoNotOverlap`, `UnchangedIsSkipped` and `UpdatesAreKept`
state properties that say `~lapsed`. `UpdatesAreKept` has the hypothesis `OnePublisher`,
at most one policy that publishes by itself, since the code does not coordinate two.

**The agents** (`AgentRegistryProofs`, of `Onboarding`'s specification, administrators
and registrations together). `CredentialsMatch` is not inductive, because the form
sends back the reference it was read with: `FormsResolve` adds that an open form which
nobody overtook shows a reference only while the token is stored. That a restart never
registers the bootstrap agent over somebody's token is `NoOrphanSecret`.
An upsert keeps the revision only if definition, card and effective token are what they
were. A start keeps every revision; that it changes nothing when the Gateway's URL is the
one of the last start is `CardsCurrent` (`CardsAreCurrent`), which upserts keep because
they build the card for that URL. `RevisionsCount` rests on both. `AgainChangesNothing` needs `SettledKept`, which
says what the registration that settled an agent left of it (`MadeBy`), by the kind of
manifest and authentication, with the card of the Gateway there is: a start with another
URL gives the agent the card that registering again would.

**The monitor** (`StatusMonitorProofs`). `QueueKept`: who waits for the lock are those
who asked, each once, and only the holder is in a refresh. `LooksKept`: what it looks at
is newer than the snapshots it replaces and than the question of its caller, and an agent
whose probe will raise was active when the refresh began. With them every step of
`StatusMonitor` is one of `StatusPromise`'s or a stutter (`KeepsThePromise`).
`FreshIsRight` needs what a refresh under way has found so far: `LooksRight` says that a
refresh no change has overtaken holds the records as they are and, of each agent, nothing
yet or what a probe would find now (`FreshSnapshotsAreRight`).

**The page** (in `StatusMonitorProofs`). `PageInv` ties the page's calls to the promise:
exactly the forced calls that wait for statuses wait at the monitor, since they were made
(`ForcedWait`), and nothing a call has got is older than it (`CallsFresh`). Hence
`ShownIsFresh`, for the page of `Dashboard`. `MonitorServesPage` says that with the monitor
in the place of the promise the page is still that page: each step of `MonitoredPage` is
one of `Dashboard` or none. It rests on the same lemmas as `KeepsThePromise`, one per step of the
monitor. `ClickIsFresh` puts the two together: with the code's monitor behind the page,
an administrator's click is never shown with statuses from before it.

`MonitoredPage` is proved about and has no run of its own: its two halves do
(`status_monitor`, `dashboard`). `MonitoredPage.cfg` is an instance for `MCMonitoredPage`
to try it on by hand (one agent, one call beside the loop, and one event, incident or
change per behaviour; some 230,000 states, in which every action is taken and
`PageSpec` holds).

**The plugin** (`ManagerPushProofs`). `OneCall`: one call sees to a task, which is what
`processingTasks` is for. `CallsMatch`: while it asks, the task is not scheduled, and
from the wake-up on it is. `WakesKept`: after a wake-up the task is scheduled or has no
session left, so that the tests at the head of `scheduleManagerCompletion` turn every
later call away; a restart empties both maps at once. `SessionsHeld` says from
where on a session is known. Hence `OneWakeUp` and `SessionsAreKept`.

`EndNeverOverlooked` says that as long as no call failed, no push was ignored and no
poll reached its deadline, the end of a task is always about to be noticed: a call has
found it, the agent has yet to announce it or the push is on its way, or the poll goes
on. It is the safety core of `ReawakenedUnlessMissed`, and needs `WatchInv`: a scheduled
task is one being woken for (`ScheduledIsWoken`), pushes go to those who subscribed
(`PushesWanted`), nothing sees to a task before `a2a_send` has its answer
(`QuietBefore`), and from then on its end is looked for (`EndLookedFor`). Hence
`EndsAreNotOverlooked`.

**Only model-checked.** Liveness under fairness, which rests on `ENABLED`, is out of
the prover's reach: `EveryCommandSettles`, `EveryMessageSettles`,
`ReawakenedUnlessMissed`, `SnapshotsCatchUp`, `ScreenCatchesUp`. What of them is safety is
proved beside: `SettledForGood`, `EndNeverOverlooked`, `FreshIsRight`, `RefreshIsFresh`.
Every other property of a passing run is a theorem. No module uses a `RECURSIVE` operator.

## Findings

1. **A partition does not execute sequentially** (`task_execution_sequential`).
   `README.md` says "messages in one partition execute sequentially". That holds for
   deliveries. A worker whose connection is lost goes on with its agent call; its
   command is redelivered, each claim that fails is returned at once
   (`worker.py:202`), and after `x-delivery-limit` returns it is dead-lettered. The
   next command of the partition then runs beside the first.
2. **A continued task is not projected** (`task_projection_follow_up`). A task in
   INPUT_REQUIRED that gets a second message runs `execute()` again with the event
   ids of the first time; its SUBMITTED and REJECTED or WORKING events are
   answered as duplicates (`task_store.py:164-169`), so the Registry shows
   INPUT_REQUIRED for a task that was rejected.
3. **The Manager may never be woken** (`manager_push_lost`). `index.ts:432` says "the
   manager is automatically reawakened with the final artifact". If the check after
   the registration (`index.ts:498`) is answered "running", and the task ends and
   pushes before that answer is processed, the push is ignored because a call is
   under way (`index.ts:217`), the call then sees a running task (`index.ts:227`),
   and no poll follows in push mode.

Things the code does without contradicting its documents, which the properties are
therefore stated around:

- An administrator who saves an overtaken form can leave a reference to a cleared token
  (`CredentialResolves`, the first half of `CredentialsMatch`, excepts `crossed` agents).
- A run that outlasts its lease may complete after its successor (`SkillEvolution`'s
  properties under `~lapsed`; only `RunningIsRecoverable` holds in any case), and two
  policies for the same Skill are not coordinated (`Policy` has one member in the run).
  A policy with `fetchCurrentSkill` off never has a base: its candidates are all
  `CREATE` and their packages have nothing of the versions before. The models' policies
  fetch, as is the default.
- A Skill that SkillHub resolves, but whose download it answers with not-found, counts as
  no Skill (`skillhub.py:223`): a candidate for `CREATE` then passes the test of
  `service.py:173` and is published over it. `NoLostUpdate` allows a version made from
  none only to a run that was told so.
- A start with another Gateway URL moves the cards of all managed agents, and one on a
  database of an older version migrates definitions, under the revision they have
  (`store.py:435-436`). `RevisionTracksChanges` says which changes these are; who caches
  by revision does not see them.
- An endpoint whose port does not parse passes `_require_http_url` (`store.py`) and makes
  every refresh of the statuses raise for as long as its agent is active
  (`status.py:160`, outside the `try`): no agent's status changes meanwhile.
  `SnapshotsCatchUp`, `ScreenCatchesUp` and the refusals of `StatusPromise` say
  `Probeable`.
- Once a token has been entered while a stream was live, the page may abort and reopen
  its stream every three seconds from then on (`App.vue:139`: the rejection of the
  aborted stream finds a controller that is not aborted, and sets the timer again).
  Polling hides it, which is why `ScreenCatchesUp` holds; that the stream settles would
  not.
- An agent that registers again re-activates itself if an administrator had disabled it,
  keeps the token stored before if it sends none, and files an adapter request each
  time if no adapter fits it. `RegisteringAgainIsIdle` is about agents nobody else
  changed.

## Not modelled

- **Agent backends** (`backends/`): one HTTP call each and no state. Result, failure
  and duration are nondeterministic in the models.
- **The A2A SDK and the routing in `server.py`**: only as far as they start and end
  `execute()`. What the SDK does with a message to a task that is still executing is
  outside the repository.
- **Policy files and candidates** (`models.py`, `config.py`), adapter templates,
  encryption of tokens, prompts, parsing of reflections: functions of their input;
  where they can fail the models have a failure.
- **The legacy `executor.py`, deployment files and scripts**: no behaviour of their
  own; their settings are the constants.
- **The deletion of an agent in the compositions**: `ExecutionStore` has it,
  `TaskExecution` and `ExperienceCollection` keep their agents registered.
- **Parts of `onboarding.py`**: the search for a selector in the answer of a probe and
  the templates of requests are functions of their input (the model chooses the content
  they give); `AgentRegistry` does not model that an administrator disables an agent.
- **Parts of the page**: the drawer of an agent, which keeps the task events it has
  loaded, and the forms other than the agent editor's.
- **The end of the monitor's loop** when the Registry stops: nothing of it is kept.
- **Undecodable messages** are rejected into the dead letters by the workers at once
  (`worker.py:128`, `worker.py:212`); nothing the services send is one.

## Plan

Order so far: `ExecutionStore` first, since all else leases from it; `TaskExecution`
with its abstract specification; then the services around it by how much runs
concurrently in them; then the monitor, what relies on it, and the agents' own way
into the registry.

The safety properties and refinements the runs check are proved, `AgreesWhenQuiet` and
`NoLostUpdate` under the hypotheses named above. What could follow:

1. The hazard no property covers: a second message for a task that is still executing,
   which needs a model of the A2A SDK.
2. The deletion of an agent beside running commands, in `TaskExecution`.
