# Formal models of containr

TLA+ models of the parts of containr whose behaviour depends on the order of
steps: tasks that share state, handlers that save the copy of a row they read
earlier, awaits that fail, and crashes. TLC checks them on small instances;
TLAPS proves the main safety properties for every value of the constants. Paths
below are relative to `src/`; crates are under `crates/`.

## 1. Inventory

containr is one process: an axum API server, a deployment worker, a proxy
update loop, a certificate task, a cron scheduler and a pingora proxy thread,
around one SQLite database and one docker daemon.

| Part | State it keeps | Operations | Talks to |
|---|---|---|---|
| Self-update (`containr-api/src/handlers/updates.rs`) | INSTALLING, DEPLOYMENTS_PAUSED, DEPLOYMENT_RUNNING, a staged file, the binary | pause, download, verify, wait, swap, restart | the worker, through the atomics |
| Deployment requests (`containr-api/src/handlers/deployments.rs`, `webhooks.rs`, `services.rs`) | a deployment row per request, uploaded sources on disk | trigger, rollback, upload, webhook with supersede | saves the row, sends a job over an mpsc channel of 100 |
| Deployment worker (`containr-runtime/src/worker.rs`) | the row it read when the job began, containers in docker | clone, build, rollout (start_first or stop_first), mark predecessors Stopped | database, docker, proxy update channel |
| Startup task (`containr-api/src/server.rs`) | list of interrupted deployments | replay, restore missing containers | the job channel, beside a listening API |
| Proxy routes (`containr/src/main.rs`, `containr-proxy/src/routes.rs`) | domain → upstreams, in memory | refresh of one app, startup loader, removal | update channel of 64, database, docker |
| Request forwarding (`containr-proxy/src/pingora_proxy.rs`, `routes.rs`) | route states: round-robin cursor, in-flight counts, credential cache; request log | https rule, gate, password, upstream choice, completion | the route table, certificates |
| Service settings (`containr-api/src/domain/services/mod.rs`, `shared_mounts.rs`) | project rows with their services, volume directories | create, extend, update; plan, apply and undo of a volume move | database, DNS, disk, job channel |
| Service actions (`containr-api/src/domain/services/mod.rs`, `containr-runtime/src/app_service_manager.rs`) | copies of deployment rows with one row per replica | start, stop, restart, scale, delete, service list | database, docker |
| Cron (`containr-runtime/src/cron_scheduler.rs`) | schedules and running jobs, in memory | reconcile, visit, launch, prune | database, docker |
| Managed databases and queues (`containr-runtime/src/database_manager.rs`, `database_manager/pitr.rs`, `queue_manager.rs`) | a row with a status, a container, a data directory, backups | create, start, stop, restart, move, delete, back up, recover | database, docker, disk |
| Certificates (`containr/src/main.rs`, `containr-proxy/src/acme.rs`, `containr-api/src/handlers/certificates.rs`) | certificate rows, challenge tokens, the handshake's cache | request, renew, reissue, handshake | channel of 64, ACME authority |
| Accounts and sign-in (`containr-api/src/handlers/auth.rs`, `handlers/gate.rs`, `state.rs`, `containr-common/src/access_gate.rs`) | user rows, oauth states, gate tokens | register, change, link, delete, bootstrap, pass, visit | database, GitHub |
| Buckets, registries, GitHub app (`containr-api/src/handlers/`) | rows, and what the service behind them has | create, delete, refresh | database, storage service, GitHub |
| Console, volume files, system information, settings, CLI, web dashboard | none of their own, or a configuration file | one request each | docker, disk, the API |

What makes these parts hard: a database call is atomic and a handler is not,
and the runtime has several threads.
Nearly every operation reads a row, awaits docker, git, DNS or a hash, and saves
the copy it read, as an upsert. Handlers are dropped where they wait when their
client goes away. The process can die at any step, and start-up has to take over
from the rows. Bounded channels connect the tasks.

The properties that make the parts correct:

* updates: a re-exec never cuts a deployment off, one install at a time, only a
  verified binary is installed, a pause ends;
* deployments: an accepted deployment is never lost, one Running deployment
  after a rollout, a failed one leaves nothing behind, a start_first app keeps
  running, what was requested settles, deletion drains;
* routes: when things calm down each domain reaches the containers of the
  newest Running deployment and nothing else;
* settings: a masked secret never replaces the real one, changing one service
  leaves its siblings alone, names and ports stay apart, no volume is emptied;
* service actions: rows name containers that run, a request answered with
  success did what it says, and what is left over after a failure is accounted
  for;
* cron: a due job runs, once per slot, one at a time, until its own end;
* managed services: answers are true, a recovery loses no write;
* certificates: none lapses or is removed without a successor being asked for,
  tokens do not outlive their order, handshakes present what is stored;
* proxy: nobody is admitted on another route's password, counters return to
  zero, a request is logged once;
* accounts: an administrator remains, identities belong to who proved them,
  access ends when it should.

`PROJECT.json` lists every component with its status and the hazards, each with
the line where it bites and the property that covers it. A hazard that no
property covers, or only in part, carries the reason.

## 2. Plan

Written: one module per part, `ProcessLease` as the abstract specification that
`UpdateGate` implements, and `Inventory` on top of `ServiceConfig`. Every part
has an `MC…` module that names the values its configuration uses.

Next:

1. Several services in dependency order inside one rollout, with
   `topological_sort_services` as an operator checked against a reference
   definition.
2. An abstract specification of a deployment's life (requested, carried out,
   replaced) that `Deployments` implements.

## 3. Modules and the code

One action is the code between two awaits (or two atomic accesses), with every
state change it makes. Database calls are synchronous, and those between two
awaits are one step unless the outcome depends on what another thread does in
between: in `Accounts` the lookup of an owner and the save that follows it are
separate steps. A program counter per task keeps the order, and each early
return is a disjunct. Mutants (definitions whose comment begins with "Mutant")
stand before the definition they alter; no specification uses them.

### UpdateGate, ProcessLease

The state is the three atomics, the program counter of the worker in
`run`/`begin_deployment`, one program counter per install request, the staged
file of each version, the binary on disk and the version of the process.
`SwapInstalling` … `SpawnRestart` are the steps of `install_update` and
`install`; every one that can return an error has the branch that leads to
`resume_deployments`. `Disconnect` drops a handler where it awaits. `Restart` is
the exec: it clears the statics and every task. `ProcessLease` says what this is
for: the process is held by nobody, by one deployment or by one update, and only
the update's holder replaces the binary and re-execs. `ImplementsLease` maps the
two flags and program counters to that holder.

Abstractions: a version is a number, a staged file is missing, partial, other
bytes, mislabelled or good, and a job's contents are left to `Deployments`.

### Deployments

Deployments of one app, numbered by `created_at`. Rows (`status`, `kind`), the
job channel, one handler per deployment (`hpc`, with the list of stale rows it
has read), the worker (`wpc`), the containers and uploaded sources that exist,
the startup task (`bpc`) and the app's deletion (`dpc`). `SaveStatus` is
`save_deployment`, including the foreign key that refuses the row of a deleted
app. The worker's actions follow `process_job`, `deploy_services` and
`rollout_services` await by await. `Crash` clears everything but the rows, the
containers and the files.

Abstractions: one app (apps share only the channel); the replicas of a
deployment come and go together; the deletion of the rows is one step, and so is
its stop of a service with the save that follows; one deletion is tried.
A send on the job channel never fails, since the worker never drops its end.

### Routes

One app with one domain and one replica per service. `running`, `rows` and
`live` are the deployments that say Running, the containers their service rows
name and the containers docker runs; `routed` and `ups` are the RouteManager;
`chan` counts the messages of the update channel (every message is a RefreshApp
for this app, so a count is the content). The refresh is split at its database
reads and docker calls, and the loop and the startup loader run it side by side.
`Candidates` is the choice of the upstreams: the containers the newest Running
deployment names, and every listed container of the service when it names none
or nothing is Running. The worker is `deploy_services` from
`get_previous_running_deployments` on, and rolls deployments out in any order,
as replay and the channel do. `UpdateService` switches a service between public
and private. `StopRequest`, `StopDocker` and `StopPersist` are the stop of a
service, alone or inside its deletion: it clears the container id in the copy of
the deployment it has read and saves the whole copy, which may be old by then.
Any handler may be dropped where it awaits.

Two ghosts. `writer` says who wrote a route last: the loader, which runs without
a message, may overwrite what the loop wrote later. `missed` says that since the
last refresh began one was lost or incomplete, or that the deployment to route
to changed with no refresh due: a rollout that stops the newest Running
deployment after it has sent its refresh, or a stop that saves an old copy. The
code promises no retry in these cases, and the next refresh clears the ghost.

Abstractions: traffic of other apps on the channel only shows as a send that
blocks; a container that docker restarts and a database read that fails are not
included. External routes are in `Proxy`.

### ServiceConfig, Inventory

`ServiceConfig` is `build_services`: each resolver returns the set of values a
field resolves to, empty when the code answers with an error, so a refused field
empties `BuildService`. `ServiceSettings` is the way back, with secrets masked.
`Inventory` has the handlers: `LoadSettings`, `UpdateService`,
`CreateRepositoryService`, `CreateStackService`, `AddServicesToProject`, then
port check, DNS, `CheckDomains`, `PlanMounts`, `ApplyMounts`, `SaveApp` or
`SaveAppFails` with the undo, and `QueueDeployment`. The clients' views may be
arbitrarily old. `priv` and `shrd` hold the version of the data in a service's
own and in the project's shared directory; `drawn` says for which project an id
was drawn, so that an id is never drawn twice. Two ghosts: `raced` when a
handler has saved over a change it had not read, `lapped` when a project's row
was written while another handler had that project in hand.

Abstractions: one environment variable, one volume and one configuration file
per service; text checks are one value `Invalid`; the owner's `is_admin` is
constant within a behaviour. Reading the settings also saves a webhook token for
an app without one; the column is never null and a new app draws one, so there
is no such app. `Texts` stands for all strings; `ServiceRequest`
is the set of documents that deserialise, `ContainerService` the set of records
a row can hold.

### ServiceActions

One service of a project with several deployments and replicas. `RunAction`,
`UpdateReplicas` and `DeleteService` read the newest deployment with an image;
`StopReplica`, `StartReplica` and `StopExtra` are one docker await each;
`StopDone`, `StartDone`, `DeleteRuntime`, `DeleteApp` and `DeleteServiceRow` save.
A failing network, pull, mount or health check returns at once and saves
nothing; a handler may be dropped at any await, which saves nothing either; and
docker may refuse to stop or remove a container, which the code logs and
otherwise ignores. `RolloutCreate`, `RolloutCommit` and `RolloutFail` are what
the worker does to the same rows and containers, with both strategies. `Summary`
and `InventoryItems` are the service list.

Row and container come apart in three ways, and a ghost records each: `torn`
holds containers that were stopped and that a row still names, because the
request or rollout that stopped them ended without its save; `orphan` holds
containers no row names, because the request that started them ended without its
save or a stop passed them over; `refused` holds containers docker did not
remove when asked. The properties say that there is no fourth way, and that a
later successful request clears what it touches.

Deployments are numbered by creation, `1 .. MaxDeps`. A request in flight is one
record: the deployment it chose, the copy of its row and replica rows, the
number of replicas it wants and the one it is at.

### CronScheduler

One pass of `poll_once` is split at every call of docker; `snap` is what the
pass has read. Users stop, edit and delete services, `Redeploy` replaces the
deployment, jobs end and the clock moves in the middle of a pass. A schedule is
a period on a small clock. A job's container is named by the first 12 characters
of the service's name and the second it starts, as in the code: `NameOf` gives
those characters and `Covered` the services whose jobs a stop finds by prefix,
both arbitrary, so services may share them. `is_running` answers false when
docker cannot inspect a container, so a job that runs may be seen as ended; stop
and removal may fail, and the ghost `kept` names the containers docker did not
remove.

### ManagedServices

One managed database or queue. A handler works on its copy of the row; the
container has a fixed name and a fresh id. `Create`, `StartCheck`,
`RemoveContainer`, `StartDatabase`, `SaveRunning`, `SaveFailed` and their
counterparts for queues follow the handlers; `BaseBackup`, `RestorePoint` and
`RecoverBegin` … `CopyBackup` follow `pitr.rs`. The startup pass is `RestoreList`
(docker's listing, then the row), `RestoreMissing` (the start) and
`RestoreSkipped` (a listing that fails ends the pass). A stop or removal that
docker refuses is logged and ignored, a stop may end early when the proxy's
frontend cannot be stopped, and a deletion ignores what the removal answered. A
handler may end before its save: a call fails, the save fails, or the client is
gone. The contents of a data directory are a version number. Ghosts record
requests that overlapped (`overlap`, `raced`), the container left behind with no
row naming it (`stray`), and the id in a row whose container a request took away
without being able to say so (`torn`).

The functions of `pitr.rs` have no caller in the repository outside it; they are
modelled as requests because that is what their signatures are for. Exports and
the external proxy of a database are not included.

### Certificates

`queue` is the request channel, `worker` the task of `main.rs` with the order it
is in, `reissue` the reissue handler with the permits it holds. A unit of time
is one renewal interval; a certificate is the number of units it has left.
`Handshake` is `load_cert` with its cache: a cached key is remembered with the
expiry it had, whether its row's identifier still exists (`same`) and whether it
is the stored certificate (`fresh`).

Abstractions: ACME is switched on; a token is its domain; one reissue request is
in progress at a time. The order's retries are one step that may fail.

### Proxy

One app host with a route that refreshes replace, the dashboard and the storage
host. A request goes through `Filter` (token, https rule, gate), `FindRoute`,
`CheckBasicAuth`, `Verify` (the hash is awaited), `SelectUpstream`, `CountIn` and
`Complete`, each with its own look at the table; `states` keeps every route state
that was made, because a request holds on to the one it found. `Complete` writes
the log entry, except for a route without an app (an external route) and when
the append fails, which only warns; the ghost `unlogged` counts these.

### Accounts

Users, oauth states, gate tokens, buckets, registry credentials and GitHub apps,
with `Handlers` requests in progress that hold a copy of a row. A sign-in with
GitHub is one step per await and per database call that depends on another:
exchange of the code, lookup of the owner (`LinkOwner`, `LoginOwner`), decision
(`LoginDecide`) and save (`LinkSave`, `LoginSave`, `LoginCreate`), because
handlers run on several threads and nothing in the schema keeps a GitHub account
to one user; only the email address is unique. The callback that creates a
GitHub app is split at the conversion of its code, which may fail. `Abandoned`
drops a handler at an await. The ghost `blame` names the kinds of stale copies
and overlaps that have happened. Cryptography is left out: a token is what it
says. `config` selects which of the optional parts an installation has set up;
they share no state but the users.

## 4. Runs

| Run | Asks | Bounds |
|---|---|---|
| `update_install` | Does the pause keep the re-exec away from jobs, is the binary verified, does the pause end, is the lease implemented? | 2 requests, 2 jobs per life, releases around the running version, disconnects |
| `deploy_steady` | Three overlapping requests of every kind: one Running, no leaks, no gap, nothing revived, and only a webhook's list stops a deployment out of turn | 3 deployments, channel of 1, no crash |
| `deploy_faults` | A crash or the app's deletion anywhere: nothing lost, everything settles and drains | 2 deployments, channel of 1, 1 crash |
| `routes_follow` | Do the routes settle on the newest Running deployment? | 1 service, 2 deployments in any order, channel of 1, 1 request that changes, stops or deletes, both strategies |
| `config` | Do secrets, siblings, names and volume data survive stale clients and failing saves? | 2 projects, 2 clients, 2 handlers, 12 edits, 2 creations, 1 write |
| `requests` | Do rows, containers and answers agree through every sequence of actions, failures, dropped handlers and refusals of docker? | 2 deployments, 2 replicas, 2 handlers, 3 requests |
| `cron` | Does a due job run, once, alone and to its end? | 2 services with one name prefix, 2 deployments, clock to 2, 1 user step, 1 crash |
| `managed` | Are answers true, does restoration heal, does recovery keep every write? | 2 handlers, 4 requests, 1 write, 1 crash |
| `managed_overlap` | Does a start leave another one's container alone? **No.** | 2 handlers, 3 requests |
| `certificates` | Do tokens, reissues, handshakes and renewals hold up? | 2 domains, channel of 1, life 3, window 2, 3 operations, 2 failures, 1 crash |
| `proxy` | Who is admitted, and do counters and cache stay right under refreshes? | 2 requests at a time, 3 in all, 2 route states, 5 configurations (one external), cache of 1 |
| `accounts` | Do administrators, identities, access and rows stay right? | 3 users, 1 GitHub account, 2 handlers, 5 operations, clock to 4, 1 restart |

Why the bounds are enough for the interesting cases: two of the actors that
race (installers, handlers, clients, requests) make every pairwise overlap, and
one crash or restart a recovery. A channel of one place is full at once.
Two deployments make a predecessor and a successor; the third in `deploy_steady`
lets a handler block in the full channel while one job runs and another waits.
Three requests are a start, its failure half way and the request that has to
cope with what it left; four in `managed` are a creation, a backup, a restore
point and a recovery. In `requests` a state in which requests have overlapped is
checked and not explored further (`Apart`), since the properties say nothing
after it; in `managed` a crash counts as one of the requests once requests have
overlapped (`RaceOrCrash`). Life 3 with window 2 gives a certificate
two chances to be renewed before it lapses. Two route states are an old and a
new one; with three arrivals two requests overlap and a third sees what they
left. Three users are an administrator, another one and one who is deleted.
Symmetry is used where handlers, clients or users are only compared for equality.

Where several rules are one promise to the user they are one property made of
named parts: `SignInSound` (who may sign in as whom), `RowsMatchServices`,
`AnsweredIsDone`, `RequestsAccounted`, `RecoveryIsSafe`, `StatusMovesForward`,
`RowsMatchDisk`. The
type invariant of a module is a conjunct of its main invariant, or it is proved.

Deadlock is not checked: every model bounds the number of requests, so a
behaviour ends when they are used up, and that is not a fault of the system.

### What the violation shows

`managed_overlap`: the release notes say that overlapping requests for a
database return a conflict instead of deleting in-flight containers. The check
that the database is not Starting and the save of Starting are two steps of a
handler, and another handler can run between them, so two requests can both
pass, and the second removes the container the first is waiting for.

### Behaviour outside the properties

While modelling we met the following. The properties are stated so that they
exclude exactly these cases, and each condition is visible in their text
(`Abandoned`, `Undisturbed`, `NoWebhooks`, `missed`, `overlap`, `raced`, `lapped`, `torn`,
`orphan`, `refused`, `stray`, `kept`, `unlogged`, `steady`, `blame`).

* Updates: a client that disconnects during an install leaves the pause on, and
  later installs are refused, until the process is restarted.
* Deployments: two push webhooks that overlap can each mark the other's
  deployment Stopped, so neither is carried out; and a webhook's list of stale
  rows may be outdated when it saves, marking Stopped a deployment that is up
  (`StatusMovesForward` allows it to that handler only). Each crash while a
  rollout takes over can leave one more deployment Running
  (`OneRunningWhenIdle` counts them). A
  request accepted before the startup task has listed the database is queued
  twice. A crash in the middle of a rollout followed by a replay that fails
  early leaves containers of a Failed deployment. If the app is deleted between
  the creation of containers and the final save, they stay with no row. The
  checkout of a failed build stays on disk.
* Routes: a start_first rollout ("Zero downtime" in the dashboard) has a gap: the
  old containers are removed while the refresh is still queued, and the refresh
  removes the domain before it asks docker for the new addresses. An older
  deployment that is rolled out after a newer one sends its refresh while both
  are Running, which picks the newer one, whose containers are removed next, and
  no refresh follows. A stop saves the copy of the deployment it read, which can
  set a deployment back to Running or to containers that are gone. The startup
  loader can overwrite a newer route. A refresh that cannot list containers is
  not repeated. A deployment whose rows name no container, as after the stop of
  its service, leaves the domain to every container with the service's name.
  All of these are in the model; the next refresh ends them.
* Settings: unsharing a volume does not restore the shared data when the
  service's own directory is not empty. A cron service's stored form does not
  pass the checks it is sent through when a sibling is updated, so the update is
  refused (`StoredServicesSound` asks it of the other types only). Two handlers
  that overlap can save two services with one port or domain. With four
  handlers, volume data can be lost: one reads that a volume is shared and that
  the service's own directory is empty, others save, undo and share again in the
  meantime, and the copy it planned overwrites what is in the own directory by
  then (`VolumeDataKept` is stated for behaviours without `lapped`, in which no
  project changes under a handler). A value whose text is the mask itself, and
  that is not secret, is stored as it is, and stays when it is declared a secret
  (`SecretsStayReal` asks where the mask came from). A crash between
  the move of a volume and the save leaves the data in the directory the row
  does not name.
* Service actions: a start or stop that overlaps with a rollout saves a copy
  that undoes the rollout's, and can leave two Running deployments. A start that
  fails half way leaves containers that no row names; a later start of the same
  replica replaces them by name, or the deletion of the project's last service
  finds them. A stop whose handler is dropped between docker and the save leaves
  a Running row that names a dead container: the list shows it as running, and a
  start answers that it is running already. A stop or deletion that docker
  refuses is answered as done, and the container keeps running.
* Cron: a job is forgotten by a crash, and the next slot starts beside it.
  `is_running` answers false when docker cannot inspect a container, so a job
  that still runs is removed. Two services whose names share their first 12
  characters and that start in the same second have one container name: the
  second launch removes the first job; and a stop of one of them stops the jobs
  of the other. `JobsRunToEnd` names each of these and excludes everything else.
* Managed services: a crash while a database is Starting leaves that status, and
  only a stop gets out of it; the startup pass looks at Running rows only, so
  `RestoreHeals` says nothing of it. A pass that cannot list containers starts
  nothing until the next start of the process. Docker's refusal to remove a
  container is answered as success, and the container stays with no row. A
  handler that saves late brings a deleted row back.
* Proxy: authentication and the choice of the upstream look the route up
  separately, so a refresh in between lets a request in under the old rules. The
  requests of external routes, and those whose log entry could not be appended,
  are not in the log.
* Accounts: `cleanup_expired_oauth_states` drops states past half their life and
  panics on expired ones. Handlers that await a hash or GitHub save their whole
  copy of a user and can bring back a deleted user, a link or a password. Two
  first sign-ins, or two links, with one GitHub account can both find no owner
  and both save, so that two users own it; when both are first sign-ins with the
  same email address the second is refused. Two overlapping callbacks of one
  user can save their GitHub apps in the opposite order, and a refresh of the
  installations can put an older app back. Two concurrent requests can save
  credentials for one registry twice. A crash during the deletion of a bucket
  leaves its row. Two registrations at once make two first administrators, who
  can delete each other (`AdminSurvives` is about a single one).

### Fairness

* `UpdateGate`, `Deployments`: weak fairness of the worker, of each handler, of
  the startup task and of a begun deletion: tokio polls every task that is ready,
  and git, docker and downloads answer or time out. `EventuallySettled` excuses a
  deployment whose handler was dropped while the channel was full (nobody holds
  it until the next start) and an app whose deletion gave up.
* `CronScheduler`: weak fairness of each step of the poll loop, of the clock and
  of the end of a job's process, strong fairness of reading the database, which
  may fail but not for ever.
* `Certificates`: weak fairness of the task and of the interval; that the
  authority does not fail for ever is the bound `MaxFails`.

The arrival of requests, disconnects and crashes carry no fairness anywhere.

## 5. Proofs

Each proof module shows that an invariant `IInv` holds initially and is kept by
every step, action by action, and that it implies the property. TLC checked each
`IInv` before it was proved. `TaskProofs` and `ProxyProofs` are about two
components each; the self-update's and the routes' definitions of the common
names carry a prefix (`GateSpec`, `GateInv`, `RoutesSpec`, `RoutesInv`).

* `TaskProofs`, the self-update, for all requests, releases and numbers of jobs:
  `TypeOK`, `NoJobDuringSwap`, `OneInstaller`, `OnlyVerifiedBinary`,
  `PauseHolds`, and `GateImplementsLease`: every step is a step of
  `ProcessLease` or leaves its variables alone. By itself `NoJobDuringSwap` is
  not inductive: it needs that DEPLOYMENT_RUNNING covers the worker before it
  looks at the pause (`FlagCoversJob`), that the pause lasts as long as the
  install (`PauseHeld`), and for that, that nobody else can lift it
  (`OneInstaller`, `LockHeld`). `StagedVerified` carries the check of the
  download to the rename.
* `TaskProofs`, the certificates, for any finite set of domains, any capacity,
  lifetime, window shorter than the lifetime, and any number of failures and
  crashes: `ChallengesOfOpenOrder`, `ReissueFollowsUp`, `HandshakeServesStored`,
  `NoLapse`, the types. The permits are counted as places of the channel
  (`PlacesReserved`), so `permit.send` always finds one. `CacheTellsApart` says
  a cached key with the row's identifier is the row's own or has an earlier
  expiry; it is kept by a renewal because orders are made only inside the window
  (`OrdersAreDue`) and a new certificate outlives it, which is where
  `Window < Life` is needed. `NoLapse` needs that in every interval of the window the
  renewal pass comes to the domain: `AttemptsKeepUp` says that the attempts so
  far, with the one the pass still owes (`Pending`), make up for the time the
  certificate has lost.
* `DeploymentsProofs`, for any number of deployments and crashes and any
  capacity: `TypeOK`, `NoOrphan`, `SoleAfterRollout`. `OkMeansSettled` says that
  a job that will end well has already left the active statuses, which is what
  lets the worker drop it. `PreviousComplete` says that what the worker read as
  previously Running stays complete during the rollout, because nobody else
  writes Running. `Used` keeps the numbers of deployments apart, and
  `RowsNeedApp` is the foreign key. The properties exclude a deletion in
  progress, whose stop saves a copy of the row. A second invariant, `SteadyInv`,
  gives `OneRunningWhenIdle`, `RowsMatchDisk`, `KeepsServing` and
  `StatusMovesForward`. A job's row, containers and source are in step only
  because its job is run once, and that is what most of it says: a deployment is
  at one place of the pipeline (`JobsRunOnce`), only a job that has saved its
  row or is over has a Running one (`RowsSettle`), containers come with the
  rollout and stay with its row (`ContainersFollow`), and an uploaded source is
  with its handler, the channel or the worker (`SourcesOwned`). A restart breaks
  it, since replay runs a job a second time: the properties that depend on it
  are stated for an `Undisturbed` app, one with no crash, deletion or
  interrupted deployment so far. `StatusMovesForward` holds with webhooks too:
  `KindOnceUsed` keeps the lists of rows to supersede with the handlers of
  webhooks. `OneRunningWhenIdle` needs no such condition but for the deletion.
  It follows from `RunningCounted`: there is at most one Running deployment, one
  more while a rollout takes over, and one more for each crash. The steps are
  counted by cardinality (`RunningEffect`: only the worker's final save adds a
  Running row, and the rows it then marks Stopped are all the others). TLC
  checks it on the instance without crashes; the proof is for any number.
* `ProxyProofs`, the routes, for any services, deployments in any order,
  requests and capacity: `RoutesSettle`, and `RoutesTypeOK` with `ContainerInv`.
  `RolloutInv` says that a deployment is Running and names containers only after
  the worker's final save, in the row and in the copy of a stop, `ContainerInv`
  that nobody lists or routes to a container before it is created, and
  `LoopInv` that while no refresh is owed or lost, what the loop has read so far
  still agrees with the database and docker.
* `ProxyProofs`, the requests, for any finite set of requests, any
  configurations, states and cache bound: `CacheSound`, `RequestsAccounted`,
  `SteadyAdmission`. A request holds on to the state it found, so the counters
  are compared with the requests of each state that was ever made
  (`CountersExact`, `ChosenExists`), by cardinality. Evenness is not inductive;
  `Turns` says which upstreams had one turn more, the ones below the cursor.
  `ShownSoFar` records step by step what a request has shown while its route
  stays as it is. The ghost `chosen` counts the choices of an upstream. That
  every request that ended is in the log or `unlogged` is a conjunct of
  `RequestsAccounted`.
* `CronProofs`, for any services, names, prefixes, periods, edits, rollouts and
  crashes: `NothingForgotten`, `SlotsAdvance`, `JobsRunToEnd`, with no
  assumption on docker or on the names. `SlotsAhead` says a schedule's next slot
  lies after the last one attempted, also for a schedule that was read again;
  `LeftoversOld` says a container that the service has forgotten, and that
  docker did not refuse to remove, is older than that slot, so no launch of its
  own service meets its name.
* `AccountsProofs`, for any finite set of users, any identities, handlers,
  lifetimes and restarts: `SignInSound`, `AccessExpires`, `RowsMatchServices`,
  `AdminSurvives`. The point of the invariant is the copies: what a handler will
  save after an await is as sound as the rows (`CopiesSound`), except for what
  the ghost `blame` names, so every account can still sign in whichever copy is
  saved last. `DecidesAlone` says that until two sign-ins overlap, a request
  between its lookup and its save is the only one for its GitHub account, and
  what it found is still so; `OneCallback` says the same of a user's GitHub
  apps. `TokensBounded` carries the age of a pass into the session traded
  for it. The parts of an installation get one conjunct each (`GateInv`,
  `BucketInv`, `RegistryInv`, `AppInv`).
* `ServiceActionsProofs`, for any number of deployments, replicas, handlers and
  requests: `ReportIsTrue`, `AnsweredIsDone`, `OneRunningDeployment`. All three
  are about requests and rollouts that do not overlap, and `SoloInv` is what
  holds then: only the one Running deployment has rows that name containers
  (`RowsInv`); the copy of the request in flight agrees with the database from
  the replica it is at, and names exactly what runs (`CopyHeld`), although the
  rows do not while it works; after it, rows and containers agree again
  (`RestInv`), but for the containers in `torn`, `orphan` and `refused`. The
  proof has one lemma per kind of step (`SoloStopOne`, `SoloUnsaved`, …). That
  the number of containers
  shown is the number that runs is a bijection from replicas to containers.
* `InventoryProofs`, for any projects, clients, edits, requests and numbers of
  handlers: `SecretsStayReal`, `StoredServicesSound`, `NamesDisjoint`,
  `SiblingsKept`, `VolumeDataKept`. The first half is about `ServiceConfig`
  alone. `BuildServiceSound`: whatever request is applied to a record that
  `Stands` (no masked password, a host path only of an administrator), the
  result obeys every rule (`Sound`). `RoundTrip`: a record that is `Sound` and
  goes through `service_request_from_model` and `build_services` comes back as
  it was, or is refused, which happens to cron jobs only. Together they say that
  the rules are closed under partial updates. The second half has one lemma per
  action. `RowsInv` says the rules of every row, `HandlersInv` the same of the
  two rows a handler carries across its awaits, its siblings included, with the
  migration it has planned; ids belong to one project (`drawn`), which keeps
  services of two projects apart. `FreshInv` says that the checks of a handler
  still hold as long as nobody has written since; the save uses it to keep
  `NamesDisjoint` while `raced` is false. `VolumesInv` is about directories: an
  unsaved move has its data in the shared volume and nowhere else (`MovesInv`),
  a planned move finds its data or another handler that has moved it
  (`PlannedMoves`), and what a planned copy overwrites is empty, partial or
  elsewhere (`PlannedCopies`). It needs that the row a handler read is still the
  one stored, hence `lapped`.
* `ManagedProofs`, for any number of handlers, requests, writes and crashes:
  `AnswersAreTrue`, `RestoreHeals`, `RecoveryIsSafe`. `HandlersInv` says which
  operation can be at which step, `GhostsInv` that a request which was never
  beside another is alone. `Tracked` says that without overlap the container is
  the one the row names, the stray one or none; `Healed` carries that over a
  restart to the end of the startup pass. The handlers' actions are cases of a
  few kinds of step, with a lemma each: a request begins (`BeginStep`), goes on
  (`GoStep`, `ToStopStep`), ends half way (`EndStep`) or is done (`DoneStep`).
  `WritesInv` says where the latest write is at each step of a recovery: set
  aside before the directory is overwritten, or, if a stray server accepted it
  later, newer than the target, which the recovering server refuses.

The assumptions on constants (`UpdateGateAssumption`, `DeploymentsAssumption`,
`RoutesAssumption`, `CertificatesAssumption`, `ProxyAssumption`,
`CronAssumption`, `AccountsAssumption`, `ServiceActionsAssumption`,
`ConfigAssumption`, `InventoryAssumption`, `ManagedAssumption`) give types, keep
the value for "none" apart from the others, ask for capacities of at least one
and finitely many domains, users and requests, and for a renewal window shorter
than a certificate's life. `InventoryAssumption` also says that the database at
the start was written by the same handlers: its services obey the rules, have
ids of their own and share no port or domain. TLC evaluates each on the run of
its module.

Only proved, not in a run: `TypeOK` of `UpdateGate` and `Deployments`,
`RoutesTypeOK` with `ContainerInv`, `Shapes` of `Certificates`, `OneInstaller`
and `PauseHolds`. Only model-checked:

* liveness (`HeldJobRuns`, `EventuallySettled`, `DeletedDrains`, `DueRuns`,
  `ManagedGetsCertificate`): fairness and `ENABLED` are outside what the prover
  handles.

`managed_overlap` is a counterexample and has nothing to prove. Every other
invariant and action property of a passing run is proved.

## 6. Not modelled

* Container console, volume file browser: streams and file operations with no
  state of their own.
* System information, docker cleanup, disk usage, statistics, backup download,
  renaming a project: single calls or read-only queries.
* Several services in dependency order inside one rollout, the branch and path
  filters of webhooks, the deletion of a whole group: see the plan.
* Certificates with ACME switched off, exports and the external proxy of a
  managed database.
* HTTP, TLS, SQL and row decoding, encryption and signatures, the docker and
  GitHub clients, building images, unpacking archives, logging, systemd, the
  command line and the web dashboard: I/O or clients of the API; their effect on
  the modelled state is a step that succeeds or fails.
