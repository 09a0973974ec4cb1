# Verification of On

On (`@cloud-cli/on`) is a workflow automation server. A control plane
(`src/server.ts`) receives webhooks, connector callbacks, schedules and agent
messages, turns them into jobs in one SQLite database, and hands the jobs to
runners. This directory holds TLA+ models of its core, the TLC runs that check
them on small instances, and TLAPS proofs of what matters most.

Paths below are relative to the repository.

## The system

Processes that share the database: the control plane (`start-server`), the
scheduler (`start-scheduler`), legacy workers (`start-workers-legacy`). API
runners (`start-workers`) reach it over HTTP only. One SQL statement, or one
`db.transaction`, is atomic. A handler made of several statements is not: every
other request, process and timer runs between them. This is the main source of
hard behaviour, next to crashes between two statements, leases that expire while
their holder is still working, and answers that are lost.

| Component | State | Operations | Talks to |
| --- | --- | --- | --- |
| Job queue (`queue.ts`) | `jobs` rows: status, worker, lease, fence and completion flags, concurrency key | enqueue, claim (API, legacy), renew, release, complete, cancel, restart, delete, revoke leases, sweep | runner registry (authorization inside the SQL), domain events (terminal event in the completion transaction), workspaces |
| Runner registry (`runner-registry.ts`) | `runners`, `runner_team_grants`, `runner_enrollments`, `runner_updates` | enroll, heartbeat, grant, revoke, request / report / recover an update | job queue |
| Job execution (`worker.ts`, `api-worker.ts`, `queue.ts`) | step attempts, logs, reports, stored files | start and complete an attempt, renew a lease, report, complete | job queue |
| Run admission (`workflow-run-admission-repository.ts`, `server.ts`) | run requests, their plan and admission claim | plan, claim, enqueue each variant once, finish, recover | job queue, domain events |
| Domain events (`domain-event-repository.ts`, `domain-event-delivery-repository.ts`, `domain-event-dispatcher.ts`) | events, subscriptions, deliveries, attempts | publish, fan out, claim, deliver, retry, fail | run admission, thread agents |
| Channels and threads (`channel-repository.ts`, `domain-event-repository.ts`, `ui/channels-ui.mjs`) | messages, threads, event bindings; in a browser tab the drawn items and cursors | append, bind, list by pages; refresh, load more, send | thread agents |
| Thread agents (`thread-agents.ts`, triggers of `migrations.ts`) | subscriptions, turns | consent, claim a turn, call the provider, commit the reply, disable | channels, workspaces |
| Scheduler (`scheduler.ts`) | `scheduled_runs` | claim a minute, enqueue each variant | job queue, workflows |
| Workspaces (`teams.ts`) | teams, members, invitations, deletion mark | create, invite, change a role, delete | every component with a `team_id` |
| Stored files (`queue.ts`, `file-storage.ts`) | database rows and object storage, in-memory purge sets | save, purge | workspaces, job queue |
| Workflows and recipes (`workflows.ts`, `recipes.ts`) | workflows, immutable revisions, recipe versions | save a revision, activate, publish, revoke | run admission |
| Connectors (`connector-repository.ts`, `incoming-event-repository.ts`) | registrations, incoming events | ingest once, hand to domain events | domain events |
| Identity (`oidc.ts`, `authorization.ts`, `ui/api-client.mjs`, `secret-repository.ts`) | in-memory sessions and their tokens, users, secrets; in a page the token and the sign-in dialog | sign in and out, refresh a token, authorize a request, sign in again | the identity provider, every handler |
| Live updates (`events.ts`, `push.ts`, the loops of both workers) | in-memory SSE clients, wake flags, `push_deliveries` | publish, subscribe, close, wake, push | every component, hints only |
| Pages that follow runs (`ui/dashboard.mjs`, `ui/run.mjs`, `ui/invocation-ui.mjs`) | rows shown, generations, pending refreshes | refresh, load more, select | the API |

### What is hard, and what makes each component correct

* **Job queue.** Claims race with claims, revocations, updates and the stale
  sweep; a lease may be used at any time after it died. Correct: one running job
  per concurrency group; no runner above its concurrency; withdrawn access
  reaches the jobs; a dead lease is never accepted; a published outcome is final;
  every expired lease is recovered.
* **Runner registry.** An update reserves one idle runner and only one update is
  pending at a time, while claims, failure reports, heartbeats and the 30 minute
  recovery interleave.
* **Job execution.** A job is executed at least once; its step attempts and
  report are written under the lease; a second execution meets the attempts of
  the first. Correct: no step runs twice under one attempt, the history tells what
  ran, and a stored success was earned.
* **Run admission.** Each variant of a run request is enqueued exactly once even
  if the claim of the request expires, the process dies between variants, or two
  recoveries overlap.
* **Domain events.** Each matching subscription sees an event at least once, a
  delivery is finished by its current claim only, and failures are retried a
  bounded number of times.
* **Thread agents.** A turn whose provider call may have happened is not repeated;
  a reply is stored once, and only while its turn stands; nothing is sent to a
  provider nobody consented to; every turn ends.
* **Channels.** What a tab draws belongs to the place that is open and is whole up
  to the cursor it polls from, whatever answers come late or never.
* **Scheduler and workflows.** A trigger runs once a minute across processes; a
  job is of the workspace and the revision it was made from; the draft of a
  workflow is its newest revision.
* **Connectors.** A receipt that says it is done has stored and fanned out every
  event it emits; a delivery that is posted twice leads to one event of each; a
  replay uses the definition its receipt was received under.
* **Workspaces and stored files.** Nothing remains of a workspace that is gone;
  the last administrator cannot leave; an invitation is accepted once.
* **Live updates and pages.** Nothing depends on a hint that may be lost, but a
  hint that arrives is never forgotten; a stream has the workspaces its runner is
  granted; a device is told of a run's end once; a late answer changes nothing.
* **Identity.** Requests that ask for a token at once do not cost the session,
  though the provider honours a refresh token once; a session that ended stays so;
  every request that waits for a sign-in is resumed or given up with the dialog.

## Modules

| Module | Models | Status |
| --- | --- | --- |
| `JobQueue` | the jobs table and everything that writes its rows | checked, proved |
| `MCJobQueue` | TLC instances of it | |
| `JobQueueProofs` | its inductive invariant and theorems | |
| `RunAdmission` | from a requested run to one job per variant | checked, proved |
| `RunPromise` | what admission promises of each run | abstract specification |
| `MCRunAdmission`, `RunAdmissionProofs` | instances; theorems, among them the refinement | |
| `RunnerUpdates` | the update protocol of API runners | checked, proved |
| `MCRunnerUpdates`, `RunnerUpdatesProofs` | instances; theorems | |
| `EventDelivery` | events, subscriptions, fan-out, deliveries | checked, proved |
| `MCEventDelivery`, `EventDeliveryProofs` | instances; theorems | |
| `JobExecution` | the executor of an API runner over the rows its requests write | checked, proved |
| `MCJobExecution`, `JobExecutionProofs` | instances; theorems | |
| `Workspaces` | members, overrides, invitations, files, the purge of a workspace | checked, proved |
| `MCWorkspaces`, `WorkspacesProofs` | instances; theorems | |
| `ThreadAgents` | subscriptions and turns of the agents of a thread | checked, proved |
| `ChannelView`, `MCConversations` | the page of a channel over the listings of the API; extends `ThreadAgents`, with which it shares threads and messages | checked, proved |
| `WorkflowCatalogue` | saving, publishing, moving and deleting workflows; the scheduler | checked, proved |
| `ConnectorIngress`, `MCAutomation` | connectors, receipts, replays; an instance of both | checked, proved |
| `AutomationProofs` | theorems of `ThreadAgents`, `ChannelView`, `ConnectorIngress` and `WorkflowCatalogue` | |
| `LiveUpdates` | broker, worker loops, streams of a runner, push notifications | checked, proved |
| `RunPages` | the three pages that follow runs | checked, proved |
| `SignIn`, `MCLiveUpdates` | sessions, token refresh and the page's sign-in dialog; an instance of the three | checked, proved |
| `LiveProofs` | theorems of `LiveUpdates`, `RunPages` and `SignIn` | |

How they fit together. `ConnectorIngress` ends where `EventDelivery` begins (an
event is recorded), `EventDelivery` where `RunAdmission` begins (a run is
requested), `RunAdmission` where `JobQueue` begins (a row is inserted), and
`JobExecution` is one execution under a lease of `JobQueue`, with the order of
its requests that `JobQueue` leaves open. `LiveUpdates` abstracts the queue to
the status, lease and group of a job, with every statement that changes them for
the loops and the notices, and `RunPages` a run to the statuses it passes through.
Each of these cuts is at a table that one side writes and the other reads.

### JobQueue

State. `status`, `definition` (workflow, team, concurrency key and tags),
`worker`, `lease`, `age`, `fenced` and `completed` are the columns of `jobs`.
`lease[j]` stands for the pair of lease id and token hash; `age[j]` abstracts
both clocks of a row (`lease_expires_at` of a leased row, `started_at` of an
unleased one): it counts ticks since the lease was granted or renewed, and
`Term` means that the SQL comparison with the clock succeeds. `outcome[j]` is the
type of the row's terminal domain event. `revoked`, `grants`, `reserved` and
`deleting` are the columns that authorize. `superseding`, `restarting`,
`claimPc`, `claimTeams`, `claimed`, `fencing` and `booting` are the local
variables of handlers that stand between two statements. `held` and `working`
are what API runners and legacy workers remember; nothing is removed from
`held`, because nothing stops a runner from using an old lease.

Actions. One SQL statement or transaction is one action. The claim request is
`ClaimContext` (reads teams and tags), `ClearCancelled` and `ClearStale` (the two
statements of `clearStaleJobs`), `ClaimNextForRunner` or `ClaimNothing`, then
`ClaimGranted` or `ClaimRevisionMissing`. `Enqueue` and `Supersede` are the two
statements of `enqueue`; `RestartRead`, `RestartInsert` and `RestartCancel` those
of `restartJob`; `RevokeTeamGrant` or `RevokeRunner` and then
`RevokeRunnerLeases` those of the revocation handlers. The guards are the WHERE
clauses. `Crash` forgets every request in flight, and `InitClearCancelled` and
`InitClearStale` are the sweep of `QueueManager.init` before requests are served
again. Legacy workers keep running meanwhile.

Abstractions. `created_at` order is the order of ids. A runner's concurrency and
tags do not change. `pending` rows of a job whose revision is missing are
released at the claim, as in the code; which revisions are missing is not
modelled. The hour after which an unleased job is stale, and the 90 seconds of a
lease, are the same number of ticks; ticks of different rows are independent,
which only adds behaviours. Legacy workers and the scheduler also run
`QueueManager.init` when they start: the same two statements every claim runs.

### RunAdmission

State. A request is the sequence number of its `workflow.run.requested` event;
`marker` is `workflow_run_admission_plans`, and `status`, `token`, `lapsed`,
`due` and `jobId` are the columns of `workflow_run_admissions`, whose row
`<<r, v>>` is variant `v` of request `r` (`v = -1` for a request that cannot be
planned, `-2` for one without variants). `jobs` is the sequence of dispatched
jobs, each named by its dispatch key, that is by its row; the key is injective
because step ids contain no colon. `pc` and the variables after it are what a
worker, the recovery poller or the handler of a dispatch request, keeps between
two statements.

Actions. `Poll` is a pass of `recoverWorkflowRunRequests`: planning every open
request (`Plan...`), then claiming due rows one at a time; `Dispatch` is the
handler a runner calls from a dispatch step, which plans, drives its own rows
and answers with the ids of the jobs. Both run `Process`: claim, check, the
fenced `INSERT` of `enqueueDispatch`, the reading of the job by its key, and
`finish`. The random token of a claim is the worker that made it: a worker
has one claim at a time and never uses an earlier one.

Abstractions. A lease and a retry delay are flags that say whether they have
elapsed. The check that the request's event exists always succeeds, except
after a workspace is purged, which is not modelled; neither is the deletion of
jobs. The branch of `processWorkflowRunAdmission` for row `-2` cannot be reached,
and `reclaimExpired` and `recoverCrash` have no caller. The page limits of the
poller are left out: it runs again every second. `DispatchLookup` merges the
reads of rows `-1`, `-2` and of the plan, all of which are written by one
statement each and never change back.

`RunPromise` is the contract: a job is started at most once for a run, and its
one verdict is final and agrees with whether it was started. `KeepsPromise`
maps `jobs` to `started` and terminal rows to verdicts.

### RunnerUpdates

State. An update is its id and the request that made it (`request[u]` is the
position of `requestUpdate`). `current` is `runners.current_update_id`, and
`status`, `target`, `version` and `old` are the columns of `runner_updates`.
`runners.status` and `desired_version` follow `current` and only inform. `ready`
stands for the remaining conditions of a reservation, a recent heartbeat, the
updater capability and no active job. `beats`, `reports`, `poll` and `revoking`
are handlers between two statements; `running` and `applying` are the
runner's process.

Actions. `Request` is the recovery sweep (two statements), the reservation, the
conditional `INSERT` and, if that inserts nothing, the undo. `Poll` is the
runner's `GET /update`: the same sweep and a read that offers the update;
`Install` replaces the process and `InstallFails` reports. `Heartbeat` is
answered in three statements, a report in two, a revocation in two. `Crash` loses
every handler and runs the recovery of `RunnerRegistry.init`.

Abstractions. The repair of duplicate pending updates in `init` is left out:
the unique index forbids them. `Insert` is not helped by that index either,
which makes the theorem that updates are exclusive the stronger one.

### EventDelivery

State. One workflow of one workspace and events of one type. An event is its
sequence number; a subscription is the revision it pins. `saved`, `active`,
`published` and `enabled` are the workflow, `sub` and `high` the subscriptions
with their registration boundary, `status` and `attempts` the deliveries, and
`waiting` the deliveries whose `lease_until` has not passed. `outcome` and
`counted` are the row of `domain_event_fanout_outcomes`. `invoked` says that the
`workflow.run.requested` event of a delivery exists; `RunAdmission` begins
there. `owed` is a history variable: which subscriptions were on when an event
was recorded and have not been off since.

Actions. `SaveDraft`, `Publish`, `Enable` and `Disable` are transactions of
`workflows.ts`; a subscription made by request is checked and inserted in two
steps. `PublishEvent` records and fans out in three more statements, `Record`
stands for the writers that leave the fan-out to the poller (a job's terminal
event). A poller reconciles, then gives up exhausted claims, claims, resolves,
requests the run and finishes, each in its own step. `AdmitError`,
`FinishError` and `FanoutError` are the catch blocks.

Abstractions. The order of claims (`created_at`, `id`, which is random) is
left open; the page sizes of 100 and 25 are left out, since the poller starts
again within a second. The second failure of `finish` is a statement that was
not executed.

A subscription made by request for a type that the workflow does not declare is
switched off by the next change of the workflow, and `INSERT OR IGNORE` never
switches it on again. A subscription may also be inserted after the workflow
was disabled; its deliveries then fail until an operator intervenes. Both are
behaviours of the model.

### JobExecution

State. One job: its row (`state`, `owner`, `lapsed`, `acked`), the stored report,
the two attempt tables (`starts`, `done`), and for each execution, that is for
each lease the job was granted, the place of the executor and the local variables
of `processSteps`. `view` is the executor's own report, `ran` a history of which
execution invoked a step under which key.

Actions. `Claim`, then `Execute`: `FetchSecrets`, the opening report, `SetUp`, and
the loop over steps, post steps and the steps of a called function
(`SaveStepAttemptStart`, the invocation by kind, `SaveStepAttempt`, a retry, the
report), `FillSkipped`, the stored files, `CompleteJob`. Every request is one step
whose statement is executed or not and whose answer arrives or not; `Answered` and
`Fails` say where the executor goes on. `PollCancelled` and `AbortActiveJob` are
the lease renewal that learns of a cancellation; `ClearStale` requeues the job, so
that a second execution begins while the first may still run.

Abstractions. Logs, outputs and what a step computes; a failed statement is a lost
request. A lease is alive or has lapsed. `eval` steps run in the executor and send
no request between their start and their end.

### Workspaces

State. The row of a team, the members' roles and overrides, invitations by token
(`email`) and by subject (`invited`), the runs and their files, in the tables
(`rows`) and in the external storage (`stored`). A request is a process: `pc`,
`kind`, and what it has read (`seen`, `left`).

Actions. Every request begins with the check of a capability, which is a statement
of its own (`Authorize`), and goes on with its statements: `setMemberPermissions`,
`addMember`, `removeMember` and the removal of overrides, the two kinds of
invitation and their acceptance, the deletion of a run, the mark, the purge of
files run by run and the final transaction of `deleteWorkspace`. `Abandon` ends any
request anywhere. A save looks up its workspace, then its name, then writes.

Abstractions. Names, logos, audit rows. `index.ts` runs server and legacy workers
as separate processes, each with its own `QueueManager`: the sets `purgingTeams`
and `activeStorageWrites` never hold what the other process does, and are left
out.

### ThreadAgents and ChannelView

State. `ThreadAgents` has threads with a count of messages, subscriptions
(`sub`, `home`, `agent`, `consent`), their turns (`turn`, `attempts`, `token`,
`lapsed`), and for each process its environment (`config`) and the place of its
poll. `ChannelView` adds the messages and event bindings of channels and one
browser tab: `shown`, the cursors, the pending flags, and the set of requests
under way (`asks`), each fresh as long as the generation counters would agree.

Actions. `Poll` is a pass of `processThreadAgentTurns` in its statements: the
sweep of uncertain turns, the claim, the reads, the mark `calling`, the provider,
the commit (one transaction), the second look, `finish`. `Create`, `Disable`,
`GetState` (which disables a subscription whose environment has changed),
`RemoveAgent` (the trigger on memberships) and `Restart` run between them. In the
tab, a request is asked, served by the listing's statement, and received (or
lost), each in its own step; `Got...` is what the page does with an answer.

Abstractions. Item texts; the order by creation is the order of numbers; the
opening messages of threads drawn in the timeline; the creation of channels and
threads in the tab. One provider call is one step. A page has `Limit` items (50 or
100 in the code): what fewer than `Limit` others come before, in order. One refresh
takes up to `MaxPages` (10). `blurred` and `late`
mark the cases described under "Where code and documents disagree" in which the
cursor does pass an item; `ShownIsWhole` holds outside of them.

### WorkflowCatalogue and ConnectorIngress

State. `WorkflowCatalogue` has the rows of `workflows` (`owner`, `draft`, `status`,
`on`, `active`), `workflow_revisions`, `scheduled_runs` (`claims`), the jobs the
scheduler made, and requests and ticks between their statements.
`ConnectorIngress` has the row of a connector, its revisions, the receipts and
replays with their status, and the domain events they led to.

Actions. A save, a publication and a deletion in their statements and transactions,
enabling, transfer; a tick of `Scheduler.tick` reads the triggers, claims each
minute (`INSERT OR IGNORE`), and enqueues variant after variant; a rejection of
`enqueue` ends the process, as nothing catches it. A post reads its connector, is
stored as a receipt, evaluated by what was read, and each event is published and
fanned out; `ServerDies` cuts every handler short. Connectors are
created, saved, published, enabled, rotated, deleted and installed from templates.

Abstractions. Every minute matches every trigger; validation of YAML succeeds; the
fan-out of an event finds some subscription or none. `gone` and `deleted` are
histories of deleted keys, of which the properties do not speak.

### LiveUpdates and RunPages

State. `LiveUpdates` has the jobs' rows (`status`, `claims`, `lease`, and the
constant `Group` for the concurrency key), the executions each process has under way
(`tasks`, and `wrote` for those of the worker that have written an outcome), the
restarts between two statements (`restarting`), the broker's streams (`stream`,
`scope`, `inbox`), the grants and the change of one that is under way, the two claim
loops (`loop`, `news` for `wakeVersion # observedWake`, `retry`) and push
notifications (`notice`, `saw`, `delivered`, `sent`). Three histories: `told`, the
jobs the worker heard of; `freed`, those that another process gave way to since the
worker's last claim round; `overwritten`, those whose outcome was written over.
`RunPages` has, for the list of runs, the selection,
its generation, the rows shown and the open requests; for the page of a run its
report, its one request and the flag `refreshPending`; for the page of an
invocation its open requests.

Actions. A stream is asked for and opened in two steps (the grants are read in the
first), hears, breaks, or is refused at `maxClients`; a loop claims until nothing
is left, decides to wait, and is woken by an event, a timer or the end of a job. A
job is claimed if none of its group runs and, at a runner, within its grants and
places (`Claimable`). An execution of the worker may write its outcome with
`completeJob`, over any status but `cancelled`, or refuse its job with `finishJob`,
over any status, or end without having written (its secrets were not to be had); it
does so too when the sweep has requeued the job meanwhile and another process runs
it. A restart is a read, an `INSERT` and an `UPDATE` without condition. A grant
changes in one step; in the next the leases it took away are fenced and the runner's
streams closed. A notice reads the job, claims its delivery (`push_deliveries`, ON
CONFLICT DO NOTHING) and sends. A page asks, the server reads, and the answer
arrives: three steps, in any order among the requests that are open.

Abstractions. Rendering, filters as one of several selections, tags, which devices
a person has. A wake-up's version counter is the flag whether it differs. The clock
of a lease is a choice: the sweep may find any running job stale. The processes do
not stop, so a worker that shuts down does not release the job it has just claimed;
a runner's claim whose revision is missing is requeued as the sweep does it; the route
that releases a lease, which no client in the repository calls, is left out. The step
attempts that the page of a run asks for are left out of `RunPages`.

### SignIn

State. Of the control plane: whether the provider's configuration was found
(`discovered`), the sessions of the map (`known`), the generation of the tokens each
holds (`tokens`) and its `refreshPromise`. Of the provider: which generation it
honours, and which are `aged`, that is within 30 seconds of their end. Of the
browser: the session cookie, the token the page caches, where each request stands
(`call`), and the dialog (`nonce`, `flag` in localStorage, `waiters` for the chain of
`resolveRecovery`, `checking`) with the windows that sign in. `ended` and `lost` are
histories.

Actions. `ApiFetch`, `TokenAtHand` or `AccessTokenFromCookie`, `TokenTold`, `Resolve`
and `Answered` are the awaits of `apiFetch`; a refresh is asked for, granted or refused
by the provider, and settled for all that await it (`Refreshed`, `RefreshRefused`,
`RefreshUnavailable`). A window goes from the login to the provider, the callback and
the page it lands on, whose nonce tells the dialog that it may ask for the session.

Abstractions. The provider replaces both tokens at each refresh, as providers that
rotate refresh tokens do: one that does not would make the properties easier. An
entry whose eight hours are over leaves the map at once, where the code removes it
when it is next looked up. What a request returns is not recorded. Users are not
disabled, and API tokens that a page is given by hand are left out. Three parts
share the run: `tokens` (one session, a tab, aging tokens and a restart), `late` (the
dialog with aging tokens) and `dialog` (two sessions of two users).

## Runs

`CHECK_DEADLOCK FALSE` is set only where the model stops because its bounded
jobs, leases, requests or clicks are used up.

| Run | What it shows | Bounds |
| --- | --- | --- |
| `queue_api` | leases, fencing, restarts, cancellations, updates, workspace deletion and a crash around two jobs of one group | 2 jobs, 2 leases, 1 shared runner, two requests in flight |
| `queue_legacy` | a worker without leases next to an API runner; an expired lease is recovered although the sweep only runs inside claims | 2 jobs, 1 lease, one request in flight, no updates or deletion |
| `admission` | `RunAdmission` implements `RunPromise`, repeated dispatch steps get one answer, and every request is settled | a request of 2 variants, or an empty and an unplannable one together (`Apart`); 2 handlers and the poller, two of them at a time (`TwoWorkers`); 1 fault |
| `updates` | one pending update, results that stand, every reservation ends | 2 runners, 2 updates in order and the first of a named runner (`InOrder`), 2 handlers at a time, 1 failure report |
| `events` | verdicts, attempts and invocations with two pollers, the first delivery ends; stored counts and no backfill | 1 event and 1 revision with 2 attempts, 1 retry, 1 fault; or 3 events and revisions in all that are fanned out by requests and one poller (`OneDeliveryOrFanout`) |
| `events_republished` | finding: an event owed is never delivered | 1 event, 1 revision |
| `execution` | no step runs twice under one attempt, the history is true and in order, a success is earned | 2 steps and a post step of every kind, 1 retry, 2 executions in one process, 2 faults (1 with a called function) |
| `workspaces` | an administrator remains, an invitation is accepted once, nothing remains of a workspace | 2 people, 1 run with its files and caches, 3 requests of one of three families, 2 at once, each cut short anywhere |
| `conversations` | a tab draws what belongs there, without gaps, and catches up; turns are sent once, as consented, answered once, and end | 2 channels and threads, 3 messages, pages of 2, 3 or 4 clicks, 1 lost request, one section per behaviour; 2 processes, 2 environments, 1 turn of 2 attempts, 2 restarts or removals |
| `automation` | the draft is the newest revision, jobs are of their workflow and made once; receipts and events agree, replays are faithful | 2 workflows, 2 workspaces, 3 requests; or 2 schedulers, 2 minutes and 1 request; or 2 posts and replays of 1 connector beside every edit of it |
| `automation_schedule` | finding: the trigger of a workflow made in the editor never makes a job | 2 workflows, one with a definition id that is not its key |
| `live_updates` | no wake-up is forgotten and streams follow grants (`WorkersHear`), a device is told once, of an outcome that stands or was written over by one of four statements; no event and no selection is overtaken by a late answer; sessions end for a reason, and no request is left behind by the sign-in dialog | 2 jobs of one group in 1 of 2 workspaces, each claimed twice; a worker of 2 places, a runner of 1, or both; 1 place in the broker, 2 grant changes, 1 device; 2 runs of 2 statuses, 2 open requests; 2 requests of a page, 2 sessions, 2 generations of tokens, 1 restart |

Why the bounds are enough. The hazards are races of two actors over one row, or
over one row and the next: two jobs are needed for a group, a capacity and a
restart, two leases for a lease that is replaced, two updates for a late
statement of the first, two attempts for a claim that is lost and one that is
the last (the code's limit is 12; nothing depends on its value but being the
limit). One fault is any single failure at any statement. An answer that overtakes
another needs two open requests; a page that is full and one that is not need pages
of two over three items. The families, sections and workloads of the composed runs
keep apart what shares no state: an administrator's demotion and the save of a
file, the panel of a thread and the events of a channel. Bounds on requests in
flight cut what two and three actors at once would add to the state space; every
run is exhaustive within its bounds. The theorems, which have none of these bounds,
lift the safety properties they state to every value of the constants: several
runners, teams and groups, for one, which the runs of the queue do not combine.

Fairness. `JobQueue`: enrolled runners poll (the event stream wakes them, a
timer is the fallback), the control plane answers the claims it has begun,
`init` runs to its end, and time passes; runners need never use their leases.
`RunAdmission` and `EventDelivery`: the poller's timer fires every second and a
pass, once begun, goes on; leases and delays elapse. `RunnerUpdates`: runners
poll, requests once begun go on, and time passes. `ThreadAgents`: every process
polls each second, and a lease lapses after 90. Every one of these is weak
fairness of a timer, of a request in progress or of the clock. `ChannelView`: the
timer of 15 seconds fires, the latest request is served (weak), and of the latest
requests some answer comes before the next poll makes it stale (strong): answers
that are always slower than 15 seconds do starve the list of threads. Users, faults
and what a runner does with a job are never fair. `JobExecution`, `Workspaces`,
`WorkflowCatalogue`, `ConnectorIngress`, `LiveUpdates`, `RunPages` and `SignIn` are
checked for safety only: a lost request, a closed tab or a dead process need never be
repaired by anybody.

## What is proved

With TLAPS, for every value of the constants that satisfies the named assumption
of the module (`ConstantsAssumption`, `AdmissionAssumption`, `UpdatesAssumption`,
`DeliveryAssumption`, `ExecutionAssumption`, `WorkspacesAssumption`,
`ThreadAgentsAssumption`, `ChannelViewAssumption`, `ConnectorIngressAssumption`,
`WorkflowCatalogueAssumption`, `SignInConstants`, `LiveConstants`,
`PageConstants`): bounds are naturals, threads are finitely many, a plan has at most `MaxVariants` variants,
the workflows of the start have definition ids of their own in a workspace, and
the like. TLC evaluates these in every run.

The runs restrict some modules to a part at a time (one pair of members, one page).
The theorems are about their whole next-state relations: `AgentSpec`, `ViewSpec`
(any section of the page, while the agents run), `IngressSpec`, `CatalogueSpec`,
`LiveSpec`, `PagesSpec` and `SignInSpec`.

* `JobQueueProofs`. `Inv` is the type invariant, `RowInv` (which columns of a row
  go together: a running row has a worker, a lease is in one row only, a
  published event belongs to a finished row), the bound on leases in
  circulation, `OneRunningPerGroup` and `RunningJobIsAuthorized`. None of the two
  is inductive alone: a group stays exclusive only because a claim looks at rows
  whose columns agree. From it follow `TerminalEventIsFinal` and, with the lemma
  that a dead lease stays dead, `DeadLeaseStaysDead`. `ApiInv` adds `DoneInv`,
  `OutcomeMatchesEvent`, capacity and reservations for deployments without legacy
  workers (`Workers = {}`): a legacy worker writes without looking at leases or at
  what was published, and the three properties do not hold with it.
* `RunAdmissionProofs`. `Inv` is the types, `RowInv` (a terminal row agrees with
  `jobs`; a job's row has been claimed) and `FinishInv` (what a worker about to
  finish knows of its row). `AdmissionKeepsPromise` is the refinement: `StepCases`
  shows that every step starts one run, gives one verdict, or leaves both alone.
  `AnswerInv` gives `StepHasOneResult`: an answer of child jobs names those of all
  variants, a failure a variant that failed, and because verdicts stand
  (`RowsStand`) no later answer can say another thing.
* `RunnerUpdatesProofs`. `ResInv` is five facts: a row's request was answered; a
  reservation is its target's; at most one runner is reserved; while a
  reservation awaits its `INSERT` no update is pending; at most one update is
  pending. All steps but the reservation and the `INSERT` only withdraw
  (`Withdraws`), which preserves the five at once.
* `EventDeliveryProofs`. Two lemmas summarise a step: it inserts only deliveries
  that are missing and changes nothing else about subscriptions, or it inserts
  none (`InsertsOrMoves`); a subscription that is on was on with the same
  boundary, or begins at the last event (`SubscriptionsBegin`). `Boundary` gives
  `NoBackfill`; once an event is `Fanned` it stays so, which makes the count read
  two statements earlier the right one.
* `JobExecutionProofs`. `AttemptOK` ties the place of an execution to the rows of
  the attempt it is at (it has stored the start before it invokes and nothing
  else has), `OrderOK` to those before it, `ViewOK` its own view of the steps to
  what is stored. A step of one execution is summarised for all the others by
  `Moves`: their loops stay, and the attempt tables only grow, by its own
  attempt. So the proof of each action speaks of one execution only, and
  `InvokedOnce`, `HistoryIsTrue` and `SuccessIsEarned` hold for any number of
  leases, although executions of lapsed leases go on beside the new one.
* `WorkspacesProofs`. `AlwaysAnAdmin` is inductive by the count of administrators
  that the statements make. `AcceptedOnce` needs `ClaimOK` and `ToldOK`: a token
  that was claimed bears the mark of its request, which cannot claim again.
  `GoneIsEmpty` needs `EmptyOK`, `FilesOK` and `PurgeOK`: once the workspace is
  marked, only saves that had passed their check write, and those are what
  `escaped` names.
* `AutomationProofs`, agents. A mark on a turn belongs to one process: `CallerOK`
  says that a process about to call made the mark `calling`, alone, under the
  consent of its own environment. It gives `SentOnceAsConsented` and, with
  `OriginOK`, `ReplyOfAStandingTurn`.
* `AutomationProofs`, channels. `ShownIsWhole` speaks of what is drawn and of one
  cursor, and is not inductive: an answer that is drawn was asked for with an
  earlier cursor and served while others went on writing. `ViewInv` follows it. The
  page of an answer leaves nothing out between its cursor and its items but what
  was bound late (`PageOK`), whoever asked. A request whose token is current asks
  about the open place, after a cursor up to which all is drawn, unless what was
  drawn has been cleared since (`FreshOK`); it is the only one (`OneRead`), so none
  other moves the cursors meanwhile. Every cursor is of something written
  (`CursorsOK`), since a number nobody has reached would not stay whole. What
  others write only grows, and what is bound below something bound is late
  (`Grows`), so every request and cursor stays good while they write. That a page
  is the first of its listing is proved of its definition by ranks: `PageIs`, from
  `Ranks` and `AscendingIs`.
* `AutomationProofs`, refinement of the agents. `ViewKeepsTheAgents`: whatever the
  page asks for and its server does to threads is a step of `AgentNext` or none. So
  what was proved of the agents alone holds under the page: `AgentsBeneathThePage`.
* `AutomationProofs`, connectors. `LedOK` numbers the events of a receipt without
  a gap up to the handler's place, and `HandlerOK` keeps the revision it was
  received under, which publishing another does not remove (`ConnectorsKept`). So
  `EventsFollowReceipts` holds for any number of events, posts and replays.
* `AutomationProofs`, workflows. `RowOK` (the revisions of a workflow that was
  never deleted are `1 .. n`, and the draft is the last) is what makes the newest
  revision the draft; it stands because a save inserts the number it read plus
  one, or nothing. `IdsApart` is the other half of `CatalogueAgrees`.
  `RevisionsStand` is what a step of a request leaves to schedulers: revisions that
  were read stay, and a workflow that has run is not moved. With it and the claims
  (`TickOK`: a tick that queues holds its claim alone, and has queued the
  variants before its own) `JobsFollowWorkflows` holds for any number of
  schedulers. That `Latest` is the greatest number (a `CHOOSE`) needs that a
  bounded set of numbers has one: `GreatestExists` takes the smallest interval above
  a member, which the well-foundedness of strict inclusion on finite sets gives.
* `LiveProofs`, sessions. A session holds the tokens the provider honours unless a
  refresh is under way or it is excused (`SessionOK`); a call in flight carries the
  generation it was asked with (`FlightOK`), and there is one per session
  (`PromiseOK`). So a refusal has a reason other than the control plane's own second
  refresh: `SessionsEndForAReason`. `NobodyLeftWaiting` is inductive next to it.
* `LiveProofs`, live updates. `ScopeOK` gives `StreamsFollowGrants`. `PushesOK`
  gives `ToldOnceOfTheOutcome`: of the notices of a job one inserts its row in
  `push_deliveries`. That each step leaves an outcome as it was, or notes that it was
  written over (`Stands`), is a lemma about every action; `Was` carries it from the
  reading of a notice to its push. `AwakeOK` gives `WorkersHear`, whichever kinds of
  worker are deployed: a worker about to wait, or waiting, was woken since (`news`),
  will be (`retry`), has no place, or each job it was told of that could be claimed is
  excused (`Knows`). The strengthening leaves the place out of the claimable jobs
  (`Waits`), since an execution that ends frees it, and asks that no job is heard of
  before it is queued, since `Enqueue` notes nothing in `freed`. `FreesExcuse`
  says once for all actions of others that a job which becomes claimable is noted.
* `LiveProofs`, pages. `AskOK` ties an open request to the generation it was asked
  in, `InvocationOK` says that one open request is the newest; `NoLateAnswer`, an
  action property, follows from the step and the invariant before it, and
  `EventsAreFetched` from `RunOK`: what was read for a page is as new as the last
  event it heard, or it asks again.

Only model-checked: liveness (`ExpiredLeaseIsRecovered`, `EveryRequestSettles`,
`ReservationEnds`, `FirstDeliveryEnds`, `CaughtUp`, `EveryTurnEnds`), which is out
of the prover's reach. Every other property of a passing run is stated by a theorem.

## Where code and documents disagree

Two runs state what a document says, and TLC refutes each (`PROJECT.json` quotes
the lines).

* `events_republished`: publishing a published workflow again skips events that
  were recorded while its subscription was active and are not fanned out yet.
* `automation_schedule`: `Scheduler.enqueue` passes the definition id of a workflow
  where its key is asked for. The editor gives workflows a key of their own, so
  their triggers never make a job; `enqueue` rejects after the minute was claimed,
  and the rejection ends the scheduler.

The models have the following behaviours too. Those that contradict a line of the
repository name it.

Queue and runs

* `restartJob` cancels without a condition on the status (`queue.ts:473`): a job
  that completed after it was read is cancelled although its terminal event is
  published (`queue-completion.spec.ts:29`: "does not produce a terminal event for
  cancellation").
* A cancelled job that is not acknowledged when its runner loses its access is
  fenced (`queue.ts:547`), and the sweep makes every fenced row pending: it is run
  again (`openapi.json:1209`: "Cancel an active job").
* The second statement of a failure report does not name its update
  (`runner-registry.ts:315`): it clears the reservation of the next one, whose
  runner is then offered claims and never the update (`runner-protocol-v1.md:51`).
* A stall of 30 s between the claim of a variant and its `INSERT` is recorded as
  `dispatch_ineligible`, for good (`server.ts:6648`).
* A request some of whose variants run is rejected as a whole once its workflow is
  deleted (`server.ts:6759`), and a repeated dispatch step may then be answered
  differently: this is why `StepHasOneResult` asks for the workflow.
* A delivery filtered because its workflow is disabled while the dispatcher
  admits it has an invocation that runs (`workflows.ts:818`).

Execution

* A requeued job is refused at its first step whose start is stored, and ends as
  failed: a lapsed lease does not lead to another attempt in effect
  (`v3-contracts.md:356`).
* A step whose completion is lost or refused is reported as skipped although it ran
  (`worker.ts:773`; `worker.ts:798`: "Mark unexecuted steps as skipped"). So is the
  step that runs when a user cancels the job.
* `abortActiveJob` finds an execution by its job: the failing renewal of an old
  execution stops the steps of the next one in the same process.
* A cancellation inside a called function is not reported as one, and the calling
  step is retried.

Workspaces

* A save that passed its check before the workspace was marked writes its file
  after the purge; `purgingTeams` and `activeStorageWrites` are sets of another
  process. The cache rows an API runner writes are keyed by the team and survive
  (`teams.ts:241`), and the prefix the purge of a cache asks for matches nothing.
* Two saves of one name create it twice, and a deletion removes one copy.
* The removal of a member clears its overrides in a second statement: cut short, it
  leaves them for the member's return; late, it clears what was set since.

Threads and channels

* What a person says may be sent once after the agent was disabled, between the mark
  `calling` and the call. The consent is to the notice of the process that served
  the request.
* Opening the open thread again while a request is under way cuts off what the
  request asked after.
* A page of "load more" all of whose items are drawn already, while a message of
  one's own was drawn ahead, moves the cursor past what others wrote between
  (`blurred`). An event bound late with a lower sequence than the cursor is never
  drawn (`late`). After a denied request for events, "Retry" goes on from the failed
  cursor with an empty list until the page is reloaded.

Workflows, schedules, connectors

* A save between the read and the transaction of a publication is not noticed
  (`workflows.ts:941` has the message "Workflow changed while it was being
  published; retry publication"); `publishDraft` of a connector drops the draft.
* A deletion that races with saves leaves a row whose revisions count from one
  again, while jobs name the old ones; it also looks for claims of the scheduler by
  key, which are stored by definition id.
* A scheduler that ends between the claim of a minute and the last variant loses the
  others (`scheduler.ts:145`); renaming a definition within a minute can run it
  twice.
* A delivery that is posted again is answered 422 and its receipt fails, since its
  events name another cause (`domain-event-repository.ts:274`;
  `v3-contracts.md:72`: "resolves to the original event"); one that was cut short
  between two events is never completed.
* Enabling and publishing a connector at once may answer a token that is not
  stored, or enable it without one. A replay reports the connector's present
  version though it evaluates the received one.

Live updates and pages

* A runner's stream whose request overlaps a change of its grants stays open with
  the workspaces it had until it reconnects (`overlap`).
* The list passes the event as `isSearch` to its refresh, so refreshes by event
  bypass both guards and overlap: an older answer may show an older status until the
  next one. "Load more" does not ask whether the selection changed meanwhile
  (`stray`), and a refresh by event takes `hasMore` from its own page.
* Nothing wakes a legacy worker when another process gives way to a job it was told
  of: the group's running job ends at a runner or is cancelled, or the sweep requeues
  it. The job waits for the worker's minute (`freed`).
* A device may be told of a success that is a cancellation afterwards, or is run
  again, and is not told anew (`overwritten`): four statements write over an outcome,
  the `UPDATE` of `restartJob` (`queue.ts:473`), `completeJob` (`queue.ts:331`) and
  `finishJob` (`queue.ts:320`) of an execution that was thought lost, and the sweep of
  a fenced job (`queue.ts:574`).
* The page of a run asks for step attempts once: those of a run that was opened
  while it ran stay as they were (`README.md:12`, "Follow runs, step logs, outputs,
  attempts"). This is read from the code and not modelled.
* A push notification is recorded before it is sent, so a server that stops between
  the two never sends it.

Identity

* A discovery of the provider that fails is kept (`oidc.ts:75`): every later sign-in
  of the process fails too, until it restarts (`server.ts:4712`: "Please try again
  shortly").
* A refresh whose answer is lost ends the session at the next request: the provider
  honours the lost refresh token only (`lost`).
* A session that is opened before the user or an invitation is written, and that
  write fails, stays in the map though no cookie names it.

## Plan

1. The cron fields, the matrix expansion and the fields of an event's filter as
   operators against reference definitions.
2. Enrollment of runners, secrets and their versions, versions of recipes.

## What is not modelled

Sequential data processing (YAML and recipe validation, matrix expansion,
expressions, the solar calendar, rendering), request-local checks (roles and
capabilities, API tokens, agent grants, secrets, user preferences), recipes and their
versions, enrollment, migrations, which run before requests are served, processes of
the operating system, the workflow editor, the shell of the pages and the command
line. `PROJECT.json` lists every part with its reason. The Go runner is a client:
`JobQueue` lets a runner send any request, at any time, with any lease it was ever
given.
