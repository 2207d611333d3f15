---------------------------- MODULE Deployments -----------------------------
(***************************************************************************)
(* The life of the deployments of one app: the API handlers that create    *)
(* and queue them (containr-api deployments.rs), the worker that runs them *)
(* one after the other (containr-runtime worker.rs), the startup task that *)
(* replays what a restart interrupted (containr-api server.rs), the        *)
(* deletion of the app, and crashes.                                       *)
(*                                                                         *)
(* All of them share the sqlite database, whose calls are atomic one by    *)
(* one: a handler that reads a row and later saves its copy is two steps.  *)
(* Deployments are numbered in the order of created_at.  Apps share only   *)
(* the job channel, so one app is modelled.                                *)
(***************************************************************************)
EXTENDS Naturals, FiniteSets, Sequences

CONSTANTS
    N,            \* bound: deployments created
    QueueCap,     \* capacity of the job channel (100 in server.rs)
    MaxCrashes,   \* bound: crashes and restarts of the process
    Kinds,        \* what the users do, a subset of UserKinds
    NeedsSource,  \* app.requires_source_checkout()
    StartFirst,   \* the app's rollout strategy, without published host ports
    Deletable,    \* whether the app may be deleted
    ColdBoot      \* whether the startup task is still to run in Init

\* How a deployment comes about: a webhook with auto_deploy_cleanup_stale_-
\* deployments set, a manual trigger (or a webhook without it), a rollback, an
\* uploaded archive or dockerfile; "restore" is the startup task's own.
UserKinds == {"webhook", "manual", "rollback", "upload"}

ASSUME DeploymentsAssumption ==
    /\ N \in Nat
    /\ QueueCap \in Nat \ {0}
    /\ MaxCrashes \in Nat
    /\ Kinds \subseteq UserKinds
    /\ NeedsSource \in BOOLEAN
    /\ StartFirst \in BOOLEAN
    /\ Deletable \in BOOLEAN
    /\ ColdBoot \in BOOLEAN

Ids == 1..N

VARIABLES
    app,         \* the app's row exists
    status,      \* [Ids -> status of the deployment's row, "none" without row]
    kind,        \* [Ids -> how it came about]
    queue,       \* the mpsc channel of jobs
    hpc,         \* [Ids -> program counter of the handler that creates it]
    stale,       \* [Ids -> rows its handler still has to supersede]
    wpc,         \* program counter of the worker
    cur,         \* the deployment the worker processes
    previous,    \* deploy_services' previous_running
    containers,  \* deployments whose containers exist in docker
    uploads,     \* deployments whose uploaded source is on disk
    bpc,         \* program counter of the startup task
    replay,      \* the interrupted deployments it still has to replay
    listed,      \* the containers restore_missing_containers listed
    dpc,         \* program counter of the app's deletion
    copy,        \* the row the deletion's stop_app_service read
    crashes      \* crashes so far

dbVars == <<app, status, kind>>
handlerVars == <<hpc, stale>>
workerVars == <<wpc, cur, previous>>
diskVars == <<containers, uploads>>
bootVars == <<bpc, replay, listed>>
deleteVars == <<dpc, copy>>
vars == <<dbVars, queue, handlerVars, workerVars, diskVars, bootVars,
          deleteVars, crashes>>

Active == {"pending", "cloning", "building", "starting"}
Statuses == Active \cup {"running", "stopped", "failed"}

HandlerPcs == {"new", "saved", "list", "supersede", "done", "dropped", "dead"}

WorkerPcs == {"idle", "load", "setCloning", "clone", "checkClone",
              "setBuilding", "build", "checkBuild", "setStarting",
              "checkStarting", "network", "previous", "stopOld", "create",
              "health", "discard", "save", "removeOld", "markStopped",
              "cleanupOk", "cleanupErr", "failRead", "failWrite"}

BootPcs == {"collect", "replay", "fail", "list", "restore", "off"}

\* One deletion is modelled; "failed" is the end of one that gave up.
DeletePcs == {"idle", "stop", "runtime", "delete", "failed", "done"}

NoCopy == [id |-> 0, status |-> "none"]

TypeOK ==
    /\ app \in BOOLEAN
    /\ status \in [Ids -> Statuses \cup {"none"}]
    /\ kind \in [Ids -> UserKinds \cup {"restore", "none"}]
    /\ queue \in Seq(Ids)
    /\ Len(queue) <= QueueCap
    /\ hpc \in [Ids -> HandlerPcs]
    /\ stale \in [Ids -> SUBSET Ids]
    /\ wpc \in WorkerPcs
    /\ cur \in Ids \cup {0}
    /\ wpc # "idle" => cur # 0
    /\ previous \in SUBSET Ids
    /\ containers \in SUBSET Ids
    /\ uploads \in SUBSET Ids
    /\ bpc \in BootPcs
    /\ replay \in SUBSET Ids
    /\ listed \in SUBSET Ids
    /\ dpc \in DeletePcs
    /\ copy \in [id : Ids, status : Statuses \cup {"none"}] \cup {NoCopy}
    /\ dpc = "stop" => copy # NoCopy
    /\ crashes \in 0..MaxCrashes

Init ==
    /\ app = TRUE
    /\ status = [d \in Ids |-> "none"]
    /\ kind = [d \in Ids |-> "none"]
    /\ queue = <<>>
    /\ hpc = [d \in Ids |-> "new"]
    /\ stale = [d \in Ids |-> {}]
    /\ wpc = "idle"
    /\ cur = 0
    /\ previous = {}
    /\ containers = {}
    /\ uploads = {}
    /\ bpc = IF ColdBoot THEN "collect" ELSE "off"
    /\ replay = {}
    /\ listed = {}
    /\ dpc = "idle"
    /\ copy = NoCopy
    /\ crashes = 0

-----------------------------------------------------------------------------
(* The database *)

HasRow(d) == status[d] # "none"

\* db.save_deployment for a row of this app: the foreign key fails once the
\* app is gone, then nothing is written.
SaveStatus(d, s) ==
    status' = IF app THEN [status EXCEPT ![d] = s] ELSE status

-----------------------------------------------------------------------------
(* Handlers: queue_deployment and supersede_stale_deployments *)

GotoH(d, pc) == hpc' = [hpc EXCEPT ![d] = pc]

\* Deployments are created in the order of their numbers.
IsNext(d) == hpc[d] = "new" /\ \A e \in Ids : e < d => hpc[e] # "new"

\* queue_deployment up to save_deployment of the Pending row; its early
\* returns (source lookup, foreign key) change nothing.
SavePending(d, k) ==
    /\ IsNext(d)
    /\ app
    /\ status' = [status EXCEPT ![d] = "pending"]
    /\ kind' = [kind EXCEPT ![d] = k]
    /\ uploads' = IF k = "upload" THEN uploads \cup {d} ELSE uploads
    /\ GotoH(d, "saved")
    /\ UNCHANGED <<app, stale, queue, workerVars, containers, deleteVars,
                   crashes>>

\* The webhooks hand on the app's auto_deploy_cleanup_stale_deployments; one
\* without it supersedes nothing, like a manual trigger.
AutoDeployKinds == Kinds \cap {"webhook", "manual"}

\* github_webhook: a signed push to the app's repository and branch that
\* touches a watched path, with auto_deploy on; anything else changes nothing.
GithubWebhook(d) == \E k \in AutoDeployKinds : SavePending(d, k)

\* deploy_webhook of a CI system, with the app's token.
DeployWebhook(d) == \E k \in AutoDeployKinds : SavePending(d, k)

\* trigger_service_deployment
TriggerDeployment(d) == "manual" \in Kinds /\ SavePending(d, "manual")

\* rollback_service_deployment names a deployment of the app that exists.
RollbackDeployment(d) ==
    /\ "rollback" \in Kinds
    /\ \E t \in Ids : HasRow(t)
    /\ SavePending(d, "rollback")

\* deploy_upload: the archive is on disk, unpacked, before the row exists; an
\* upload that is too large or does not unpack leaves nothing.
DeployUpload(d) == "upload" \in Kinds /\ SavePending(d, "upload")

\* deploy_dockerfile writes the one file of its source directory.
DeployDockerfile(d) == "upload" \in Kinds /\ SavePending(d, "upload")

\* A user's request.
CreateDeployment(d) ==
    /\ \/ GithubWebhook(d)
       \/ DeployWebhook(d)
       \/ TriggerDeployment(d)
       \/ RollbackDeployment(d)
       \/ DeployUpload(d)
       \/ DeployDockerfile(d)
    /\ UNCHANGED bootVars

\* Mutant of SendJob: every request supersedes, whatever the app's setting.
SendJobAlwaysCleans(d) ==
    /\ hpc[d] = "saved"
    /\ Len(queue) < QueueCap
    /\ queue' = Append(queue, d)
    /\ GotoH(d, "list")
    /\ UNCHANGED <<dbVars, stale, workerVars, diskVars, bootVars,
                   deleteVars, crashes>>

\* deployment_tx.send(job).await: blocks while the channel is full.
SendJob(d) ==
    /\ hpc[d] = "saved"
    /\ Len(queue) < QueueCap
    /\ queue' = Append(queue, d)
    /\ GotoH(d, IF kind[d] = "webhook" THEN "list" ELSE "done")
    /\ UNCHANGED <<dbVars, stale, workerVars, diskVars, bootVars,
                   deleteVars, crashes>>

\* The client of a handler that is blocked in send goes away: the handler is
\* dropped, and with it an UploadDir it did not keep.
DropRequest(d) ==
    /\ hpc[d] = "saved"
    /\ kind[d] # "restore"
    /\ Len(queue) = QueueCap
    /\ GotoH(d, "dropped")
    /\ uploads' = uploads \ {d}
    /\ UNCHANGED <<dbVars, queue, stale, workerVars, containers, bootVars,
                   deleteVars, crashes>>

\* supersede_stale_deployments reads the list once ...
ListStale(d) ==
    /\ hpc[d] = "list"
    /\ stale' = [stale EXCEPT ![d] = {e \in Ids \ {d} : status[e] \in Active}]
    /\ GotoH(d, "supersede")
    /\ UNCHANGED <<dbVars, queue, workerVars, diskVars, bootVars, deleteVars,
                   crashes>>

\* ... and saves the copies with status Stopped, newest first.  A row that is
\* gone fails append_deployment_log, which ends the loop.
SupersedeOne(d) ==
    /\ hpc[d] = "supersede"
    /\ \E e \in stale[d] :
          /\ \A x \in stale[d] : x <= e
          /\ \/ /\ HasRow(e)
                /\ SaveStatus(e, "stopped")
                /\ stale' = [stale EXCEPT ![d] = @ \ {e}]
                /\ UNCHANGED hpc
             \/ /\ ~HasRow(e)
                /\ stale' = [stale EXCEPT ![d] = {}]
                /\ GotoH(d, "done")
                /\ UNCHANGED status
    /\ UNCHANGED <<app, kind, queue, workerVars, diskVars, bootVars,
                   deleteVars, crashes>>

FinishRequest(d) ==
    /\ hpc[d] = "supersede"
    /\ stale[d] = {}
    /\ GotoH(d, "done")
    /\ UNCHANGED <<dbVars, queue, stale, workerVars, diskVars, bootVars,
                   deleteVars, crashes>>

-----------------------------------------------------------------------------
(* The worker: run, process_job, deploy_services *)

Goto(pc) == wpc' = pc

\* The job is dropped; so is everything process_job held.
EndJob == wpc' = "idle" /\ cur' = 0 /\ previous' = {}

workerFrame == <<app, kind, handlerVars, bootVars, deleteVars, crashes>>

\* rx.recv(); the pause in begin_deployment is the subject of UpdateGate.
Recv ==
    /\ wpc = "idle"
    /\ queue # <<>>
    /\ cur' = Head(queue)
    /\ queue' = Tail(queue)
    /\ Goto("load")
    /\ UNCHANGED <<status, previous, diskVars, workerFrame>>

\* should_continue_deployment: false for a row that is Stopped or gone.
Superseded == status[cur] \in {"none", "stopped"}

\* Mutant of Load: a job whose row is not found waits for it.
LoadWaits ==
    /\ wpc = "load"
    /\ HasRow(cur)
    /\ IF Superseded THEN Goto("cleanupOk") ELSE Goto("setCloning")
    /\ UNCHANGED <<status, cur, queue, previous, diskVars, workerFrame>>

\* The head of process_job: get_deployment, should_continue_deployment,
\* get_app, the rollback source and its images, and the choice of the source.
Load ==
    /\ wpc = "load"
    /\ \/ /\ status[cur] = "none"
          /\ Goto("cleanupErr")
       \/ /\ status[cur] = "stopped"
          /\ Goto("cleanupOk")
       \/ /\ ~Superseded
          /\ kind[cur] = "rollback"
          /\ Goto("setStarting")
       \/ /\ ~Superseded
          /\ kind[cur] # "rollback"
          /\ Goto(IF NeedsSource \/ kind[cur] = "upload"
                  THEN "setCloning" ELSE "checkClone")
    /\ UNCHANGED <<status, cur, queue, previous, diskVars, workerFrame>>

\* update_status saves the copy of the row that Load read, with status s.
UpdateStatus(pc, s, next) ==
    /\ wpc = pc
    /\ SaveStatus(cur, s)
    /\ Goto(IF app THEN next ELSE "cleanupErr")
    /\ UNCHANGED <<cur, queue, previous, diskVars, workerFrame>>

SetCloning  == UpdateStatus("setCloning", "cloning", "clone")
SetBuilding == UpdateStatus("setBuilding", "building", "build")
SetStarting == UpdateStatus("setStarting", "starting", "checkStarting")

\* What the job awaited went well ...
Continues(pc, next) ==
    /\ wpc = pc
    /\ Goto(next)
    /\ UNCHANGED <<status, cur, queue, previous, diskVars, workerFrame>>

\* ... or not: process_job returns the error.
JobFails(pc) ==
    /\ wpc = pc
    /\ Goto("cleanupErr")
    /\ UNCHANGED <<status, cur, queue, previous, diskVars, workerFrame>>

\* resolve_rollback_service_images: a service that has come since the source
\* of the rollback has neither an image in it nor one of its own.
NoRollbackImage ==
    /\ JobFails("load")
    /\ ~Superseded
    /\ kind[cur] = "rollback"

\* An uploaded source is there already.  A commit that cannot be checked out
\* is replaced by the tip of the branch.
CloneRepo == Continues("clone", "checkClone")

\* Git::run: git is missing, or the clone fails.
CloneFails == JobFails("clone") /\ kind[cur] # "upload"

\* build_service_images: a deployment builds what has no image of its own, an
\* upload its target only.
BuildImages == Continues("build", "checkBuild")

Builds == NeedsSource \/ kind[cur] = "upload"

\* resolve_service_build_config: no such context or dockerfile.
NoBuildContext == JobFails("build") /\ NeedsSource /\ kind[cur] # "upload"

\* resolve_local_build_config
NoDockerfile == JobFails("build") /\ kind[cur] = "upload"

\* previous_service_image: the target's siblings keep the image of the latest
\* deployment that built them, if there was one.
NoSiblingImage == JobFails("build") /\ NeedsSource /\ kind[cur] = "upload"

\* build_image_config_with_logs
ImageBuildFails == JobFails("build") /\ Builds

CreateNetwork == Continues("network", "previous")
NetworkFails  == JobFails("network")

\* A superseded or deleted deployment ends Ok.  The checkout, which for an
\* upload is the uploaded directory itself, goes when the job stops here and
\* when the images are built.
ShouldContinue(pc, next, left) ==
    /\ wpc = pc
    /\ Goto(IF Superseded THEN "cleanupOk" ELSE next)
    /\ uploads' = left
    /\ UNCHANGED <<status, cur, queue, previous, containers, workerFrame>>

CheckClone ==
    ShouldContinue("checkClone", "setBuilding",
                   IF Superseded THEN uploads \ {cur} ELSE uploads)
CheckBuild == ShouldContinue("checkBuild", "setStarting", uploads \ {cur})
CheckStarting == ShouldContinue("checkStarting", "network", uploads)

\* Mutant of GetPreviousRunning: only older deployments count as previous.
GetPreviousOlder ==
    /\ wpc = "previous"
    /\ previous' = {e \in Ids : e < cur /\ status[e] = "running"}
    /\ Goto("stopOld")
    /\ UNCHANGED <<status, cur, queue, diskVars, workerFrame>>

\* topological_sort_services: the services depend on each other in a circle.
DependencyCycle == JobFails("previous")

\* get_previous_running_deployments
GetPreviousRunning ==
    /\ wpc = "previous"
    /\ previous' = {e \in Ids \ {cur} : status[e] = "running"}
    /\ Goto("stopOld")
    /\ UNCHANGED <<status, cur, queue, diskVars, workerFrame>>

\* Mutant of StopOld: the old containers go first under start_first too.
StopOldAlways ==
    /\ wpc = "stopOld"
    /\ containers' = containers \ previous
    /\ Goto("create")
    /\ UNCHANGED <<status, cur, queue, previous, uploads, workerFrame>>

\* rollout_services with stop_first removes the old containers first.
StopOld ==
    /\ wpc = "stopOld"
    /\ containers' = IF StartFirst THEN containers ELSE containers \ previous
    /\ Goto("create")
    /\ UNCHANGED <<status, cur, queue, previous, uploads, workerFrame>>

\* create_container: docker refuses a name that is taken, and the names are
\* derived from the deployment's id.  A failure before that (the image, its
\* registry, the mounts) has tracked no name yet to discard.
CreateContainers ==
    /\ wpc = "create"
    /\ \/ /\ cur \notin containers
          /\ containers' = containers \cup {cur}
          /\ Goto("health")
       \/ /\ Goto("discard") \/ Goto("cleanupErr")
          /\ UNCHANGED containers
    /\ UNCHANGED <<status, cur, queue, previous, uploads, workerFrame>>

\* wait_for_healthy
WaitHealthy ==
    /\ wpc = "health"
    /\ Goto("save") \/ Goto("discard")
    /\ UNCHANGED <<status, cur, queue, previous, diskVars, workerFrame>>

\* Mutant of DiscardNew: a failed rollout leaves its containers.
DiscardNothing ==
    /\ wpc = "discard"
    /\ Goto("cleanupErr")
    /\ UNCHANGED <<status, cur, queue, previous, diskVars, workerFrame>>

\* The error branch of deploy_services removes what the rollout named.
DiscardNew ==
    /\ wpc = "discard"
    /\ containers' = containers \ {cur}
    /\ Goto("cleanupErr")
    /\ UNCHANGED <<status, cur, queue, previous, uploads, workerFrame>>

\* restore_app_services for a rollback, and the final save_deployment.
SaveRunning == UpdateStatus("save", "running", "removeOld")

RemoveOld ==
    /\ wpc = "removeOld"
    /\ containers' = containers \ previous
    /\ Goto("markStopped")
    /\ UNCHANGED <<status, cur, queue, previous, uploads, workerFrame>>

\* mark_deployment_stopped for every previous deployment, newest first.
MarkStopped ==
    /\ wpc = "markStopped"
    /\ \E e \in previous :
          /\ \A x \in previous : x <= e
          /\ SaveStatus(e, "stopped")
          /\ previous' = previous \ {e}
          /\ Goto(IF app THEN "markStopped" ELSE "cleanupErr")
    /\ UNCHANGED <<cur, queue, diskVars, workerFrame>>

\* Mutant of FinishRollout: the rollout ends without marking everyone.
FinishRolloutEarly ==
    /\ wpc = "markStopped"
    /\ Goto("cleanupOk")
    /\ UNCHANGED <<status, cur, queue, previous, diskVars, workerFrame>>

FinishRollout ==
    /\ wpc = "markStopped"
    /\ previous = {}
    /\ Goto("cleanupOk")
    /\ UNCHANGED <<status, cur, queue, previous, diskVars, workerFrame>>

\* cleanup_uploaded_source, for Ok and Err alike.
CleanupSource ==
    /\ wpc \in {"cleanupOk", "cleanupErr"}
    /\ uploads' = uploads \ {cur}
    /\ \/ wpc = "cleanupOk" /\ EndJob
       \/ wpc = "cleanupErr" /\ Goto("failRead") /\ UNCHANGED <<cur, previous>>
    /\ UNCHANGED <<status, queue, containers, workerFrame>>

\* run's error branch: a superseded deployment keeps its status ...
FailRead ==
    /\ wpc = "failRead"
    /\ \/ /\ Superseded
          /\ EndJob
       \/ /\ ~Superseded
          /\ Goto("failWrite")
          /\ UNCHANGED <<cur, previous>>
    /\ UNCHANGED <<status, queue, diskVars, workerFrame>>

\* ... any other becomes Failed.
FailWrite ==
    /\ wpc = "failWrite"
    /\ SaveStatus(cur, "failed")
    /\ EndJob
    /\ UNCHANGED <<queue, diskVars, workerFrame>>

-----------------------------------------------------------------------------
(* The startup task: replay_interrupted_deployments, then                  *)
(* restore_missing_containers.  The API already serves requests meanwhile. *)

bootFrame == <<app, handlerVars, workerVars, deleteVars, crashes>>

\* Mutant of CollectInterrupted: a rollout in progress is not interrupted.
CollectUnstarted ==
    /\ bpc = "collect"
    /\ replay' = {d \in Ids : status[d] \in Active \ {"starting"}}
    /\ bpc' = "replay"
    /\ UNCHANGED <<status, kind, queue, diskVars, listed, bootFrame>>

\* collect_interrupted_deployments
CollectInterrupted ==
    /\ bpc = "collect"
    /\ replay' = {d \in Ids : status[d] \in Active}
    /\ bpc' = "replay"
    /\ UNCHANGED <<status, kind, queue, diskVars, listed, bootFrame>>

IsOldest(d) == d \in replay /\ \A e \in replay : d <= e

\* replay_deployment_job that queues the job again.
ReplayJob(d) ==
    /\ bpc = "replay"
    /\ IsOldest(d)
    /\ kind[d] # "upload"
    /\ HasRow(d)
    /\ Len(queue) < QueueCap
    /\ queue' = Append(queue, d)
    /\ replay' = replay \ {d}
    /\ UNCHANGED <<status, kind, diskVars, bpc, listed, bootFrame>>

\* replay_deployment_job that fails: an uploaded source, a source that cannot
\* be recovered, a row that is gone.
ReplayFails(d) ==
    /\ bpc = "replay"
    /\ IsOldest(d)
    /\ kind[d] = "upload" \/ NeedsSource \/ ~HasRow(d)
    /\ bpc' = "fail"
    /\ UNCHANGED <<status, kind, queue, diskVars, replay, listed, bootFrame>>

\* mark_replayed_deployment_failed saves Failed whatever the row says by now.
MarkReplayedFailed(d) ==
    /\ bpc = "fail"
    /\ IsOldest(d)
    /\ IF HasRow(d) THEN SaveStatus(d, "failed") ELSE UNCHANGED status
    /\ replay' = replay \ {d}
    /\ bpc' = "replay"
    /\ UNCHANGED <<kind, queue, diskVars, listed, bootFrame>>

\* restore_missing_containers lists the containers, or gives up.
ListContainers ==
    /\ bpc = "replay"
    /\ replay = {}
    /\ \/ /\ listed' = containers
          /\ bpc' = "restore"
       \/ /\ bpc' = "off"
          /\ UNCHANGED listed
    /\ UNCHANGED <<status, kind, queue, diskVars, replay, bootFrame>>

\* restore_app looks at the newest deployment only.
NewestMissing ==
    /\ listed = {}
    /\ \E d \in Ids : /\ status[d] = "running"
                      /\ \A e \in Ids : HasRow(e) => e <= d

RestoreApp ==
    /\ bpc = "restore"
    /\ bpc' = "off"
    /\ \/ /\ NewestMissing
          /\ \E d \in Ids : SavePending(d, "restore")
          /\ UNCHANGED <<replay, listed>>
       \/ UNCHANGED <<status, kind, queue, diskVars, replay, listed,
                      bootFrame>>

-----------------------------------------------------------------------------
(* Deletion of the app, and crashes *)

\* resolve_app_service_deployment: the newest Running deployment, else the
\* newest one that has an image.
Resolved(d) ==
    /\ HasRow(d)
    /\ \/ /\ status[d] = "running"
          /\ \A e \in Ids : status[e] = "running" => e <= d
       \/ \A e \in Ids : status[e] # "running"

\* delete_app_service of the last service starts with stop_app_service, which
\* reads the service's deployment.  Once a rollout has run, the deployment may
\* have service rows to stop; without one, and on an error, nothing is saved.
DeleteRead ==
    /\ Deletable
    /\ dpc = "idle"
    /\ app
    /\ \/ /\ \E d \in Ids :
                /\ Resolved(d)
                /\ status[d] \notin {"pending", "cloning", "building"}
                /\ copy' = [id |-> d, status |-> status[d]]
          /\ dpc' = "stop"
       \/ /\ dpc' = "runtime"
          /\ UNCHANGED copy
    /\ UNCHANGED <<dbVars, queue, handlerVars, workerVars, diskVars, bootVars,
                   crashes>>

\* It awaits docker and then saves the row as it was read, status included.
StopService ==
    /\ dpc = "stop"
    /\ containers' = containers \ {copy.id}
    /\ SaveStatus(copy.id, copy.status)
    /\ dpc' = "runtime"
    /\ copy' = NoCopy
    /\ UNCHANGED <<app, kind, queue, handlerVars, workerVars, uploads,
                   bootVars, crashes>>

\* delete_app_runtime removes every container of the app, then db.delete_app
\* cascades to the deployments.  A container, a network or mounts that cannot
\* be listed or removed end the request with an error, and so does a client
\* that goes away.
DeleteRuntime ==
    /\ dpc = "runtime"
    /\ containers' = {}
    /\ dpc' = "delete"
    /\ UNCHANGED <<dbVars, queue, handlerVars, workerVars, uploads, bootVars,
                   copy, crashes>>

DeleteApp ==
    /\ dpc = "delete"
    /\ app' = FALSE
    /\ status' = [d \in Ids |-> "none"]
    /\ dpc' = "done"
    /\ UNCHANGED <<kind, queue, handlerVars, workerVars, diskVars, bootVars,
                   copy, crashes>>

DeleteFails ==
    /\ dpc \in {"stop", "runtime", "delete"}
    /\ dpc' = "failed"
    /\ copy' = NoCopy
    /\ UNCHANGED <<dbVars, queue, handlerVars, workerVars, diskVars, bootVars,
                   crashes>>

\* The process dies and starts again: the channel, every task and every
\* handler are gone, the database, docker and the disk stay.
Crash ==
    /\ crashes < MaxCrashes
    /\ crashes' = crashes + 1
    /\ queue' = <<>>
    /\ hpc' = [d \in Ids |-> IF hpc[d] \in {"saved", "list", "supersede"}
                             THEN "dead" ELSE hpc[d]]
    /\ stale' = [d \in Ids |-> {}]
    /\ EndJob
    /\ bpc' = "collect"
    /\ replay' = {}
    /\ listed' = {}
    /\ dpc' = IF dpc \in {"stop", "runtime", "delete"} THEN "failed" ELSE dpc
    /\ copy' = NoCopy
    /\ UNCHANGED <<dbVars, diskVars>>

-----------------------------------------------------------------------------

Handler(d) ==
    \/ SendJob(d) \/ ListStale(d) \/ SupersedeOne(d) \/ FinishRequest(d)

Worker ==
    \/ Recv \/ Load \/ NoRollbackImage
    \/ SetCloning \/ CloneRepo \/ CloneFails \/ CheckClone
    \/ SetBuilding \/ BuildImages \/ NoBuildContext \/ NoDockerfile
    \/ NoSiblingImage \/ ImageBuildFails \/ CheckBuild
    \/ SetStarting \/ CheckStarting \/ CreateNetwork \/ NetworkFails
    \/ DependencyCycle \/ GetPreviousRunning \/ StopOld \/ CreateContainers \/ WaitHealthy
    \/ DiscardNew \/ SaveRunning \/ RemoveOld \/ MarkStopped \/ FinishRollout
    \/ CleanupSource \/ FailRead \/ FailWrite

Boot ==
    \/ CollectInterrupted
    \/ \E d \in Ids : ReplayJob(d) \/ ReplayFails(d) \/ MarkReplayedFailed(d)
    \/ ListContainers
    \/ RestoreApp

FinishDelete == StopService \/ DeleteRuntime \/ DeleteApp \/ DeleteFails

Delete == DeleteRead \/ FinishDelete

Next ==
    \/ \E d \in Ids : CreateDeployment(d) \/ DropRequest(d) \/ Handler(d)
    \/ Worker
    \/ Boot
    \/ Delete
    \/ Crash

Spec == Init /\ [][Next]_vars

\* The runtime polls every ready task, and git, docker and the network answer
\* or time out.  Users, clients that disconnect and crashes owe nothing.
FairSpec ==
    /\ Spec
    /\ WF_vars(Worker)
    /\ WF_vars(Boot)
    /\ WF_vars(FinishDelete)
    /\ \A d \in Ids : WF_vars(Handler(d))

-----------------------------------------------------------------------------
(* Properties *)

In(d, s) == \E i \in 1..Len(s) : s[i] = d
Queued(d) == In(d, queue)
Processed(d) == wpc # "idle" /\ cur = d
Running == {d \in Ids : status[d] = "running"}

\* The app is not being deleted, nor has a deletion given up half way.
NotDeleting == dpc \in {"idle", "done"}

\* No accepted deployment is lost: a row in an active status is in the
\* channel, with the worker, with a handler about to queue it, or with the
\* startup task; the one exception is a handler dropped in a full channel's
\* send.  queue_deployment, run and replay_interrupted_deployments hand it on.
\* (The deletion's stop_app_service saves a stale status: see NotDeleting.)
NoOrphan ==
    \A d \in Ids :
        NotDeleting /\ status[d] \in Active =>
            \/ Queued(d)
            \/ Processed(d)
            \/ hpc[d] \in {"saved", "dropped"}
            \/ bpc = "collect"
            \/ d \in replay

\* deploy_services: when a rollout has marked its predecessors, no other
\* deployment of the app is Running, even if a crash had left several.
SoleAfterRollout ==
    NotDeleting /\ wpc = "markStopped" /\ previous = {} =>
        Running \subseteq {cur}

\* While the worker is idle an app has at most one Running deployment, and one
\* more for every crash (one that came between the save of a deployment and the
\* marking of its predecessors), whatever webhooks, rollbacks and the startup
\* task do, unless a deletion gave up.
OneRunningWhenIdle ==
    NotDeleting /\ wpc = "idle" => Cardinality(Running) <= 1 + crashes

\* The process has not been restarted and nobody has asked to delete the app:
\* jobs come from their handlers alone, and each of them once.
Undisturbed == crashes = 0 /\ dpc = "idle" /\ ~ColdBoot

\* "don't leak containers created by this failed deployment" (worker.rs
\* deploy_services): what is in docker and on disk agrees with the rows.  With
\* start_first a Running deployment has its containers until its successor has
\* taken over, a Failed one has none, and, as long as the process does not
\* crash, an uploaded source has an owner that will remove it
\* (cleanup_uploaded_source).
RowsMatchDisk ==
    /\ Undisturbed /\ StartFirst =>
          \A d \in Running : \/ d \in containers
                             \/ wpc = "markStopped" /\ d \in previous
    /\ Undisturbed =>
          \A d \in Ids : status[d] = "failed" => d \notin containers
    /\ crashes = 0 =>
          \A d \in uploads : hpc[d] = "saved" \/ Queued(d) \/ Processed(d)

\* Some deployment is recorded Running and has containers: what
\* refresh_routes_for_app routes to.
Serving == \E d \in Running : d \in containers

\* No request so far was one that supersedes.
NoWebhooks == \A d \in Ids : kind[d] # "webhook"

\* With start_first, and until a webhook supersedes, no step takes a serving
\* app down: the successor is Running before the predecessor's containers go
\* (deploy_services).
KeepsServing ==
    [][Undisturbed /\ StartFirst /\ NoWebhooks /\ Serving => Serving']_vars

\* The one job of d has been processed.
Over(d) == hpc[d] \notin {"new", "saved"} /\ ~Queued(d) /\ ~Processed(d)

\* The handler of a webhook has listed d, when it was active, and has still to
\* save its copy.
ToBeSuperseded(d) ==
    \E e \in Ids : kind[e] = "webhook" /\ hpc[e] = "supersede" /\ d \in stale[e]

\* What the copies that handlers and the worker save may do to a row that has
\* changed since they were read, without a crash or a deletion.  A deployment
\* that came up is stopped by its successor or by a webhook that listed it
\* before it did, and is never failed or taken back.  Once its job is over a
\* row can only be stopped.  A Stopped row is overwritten by its own job only,
\* and only where there are webhooks that supersede (update_status,
\* mark_deployment_stopped, supersede_stale_deployments).
StatusMovesForward ==
    [][Undisturbed => \A d \in Ids :
          /\ status[d] = "running" =>
                \/ status'[d] = "running"
                \/ status'[d] = "stopped" /\ wpc = "markStopped" /\ d \in previous
                \/ status'[d] = "stopped" /\ ToBeSuperseded(d)
          /\ Over(d) => status'[d] \in {status[d], "stopped"}
          /\ status[d] = "stopped" /\ status'[d] # "stopped" =>
                Processed(d) /\ ~NoWebhooks]_vars

-----------------------------------------------------------------------------
(* The inductive invariant behind NoOrphan and SoleAfterRollout *)

\* Whoever holds the number of a deployment, its handler has started.
Used ==
    /\ \A d \in Ids : HasRow(d) => hpc[d] # "new"
    /\ \A d \in Ids : Queued(d) => hpc[d] # "new"
    /\ \A d \in Ids : Processed(d) => hpc[d] # "new"
    /\ \A d \in previous : hpc[d] # "new"
    /\ dpc = "stop" => hpc[copy.id] # "new"

\* The foreign key: no app, no rows.
RowsNeedApp == ~app => \A d \in Ids : status[d] = "none"

\* Once process_job is bound to return Ok, the row is out of the active ones.
OkMeansSettled ==
    NotDeleting /\ wpc \in {"removeOld", "markStopped", "cleanupOk"} =>
        status[cur] \notin Active

\* What get_previous_running_deployments read stays complete: nobody but the
\* worker (and the deletion) writes Running.
PreviousComplete ==
    NotDeleting /\ wpc \in {"stopOld", "create", "health", "save", "removeOld",
             "markStopped"} => Running \subseteq previous \cup {cur}

IInv ==
    /\ TypeOK
    /\ Used
    /\ RowsNeedApp
    /\ OkMeansSettled
    /\ PreviousComplete
    /\ NoOrphan

-----------------------------------------------------------------------------
(* The inductive invariant behind the properties of an undisturbed app *)

\* The app's row goes with its deletion only.
AppStands == dpc = "idle" => app

\* A number that is not in use yet has no kind, and only webhooks supersede.
KindOnceUsed ==
    /\ \A d \in Ids : hpc[d] = "new" => kind[d] = "none"
    /\ \A d \in Ids : hpc[d] \in {"list", "supersede"} => kind[d] = "webhook"

\* An uploaded source is with its handler, in the channel or with the worker,
\* which removes it before it reports the failure.
SourcesOwned ==
    crashes = 0 =>
        /\ \A d \in uploads : hpc[d] = "saved" \/ Queued(d) \/ Processed(d)
        /\ wpc \in {"failRead", "failWrite"} => cur \notin uploads

\* No deployment is in the channel twice, nor there and with its handler or
\* the worker as well.
JobsRunOnce ==
    Undisturbed =>
        /\ bpc = "off"
        /\ \A i, j \in 1..Len(queue) : queue[i] = queue[j] => i = j
        /\ \A d \in Ids : Queued(d) =>
              hpc[d] \notin {"new", "saved"} /\ ~Processed(d)
        /\ \A d \in Ids : Processed(d) => hpc[d] \notin {"new", "saved"}

\* Only a deployment whose job is over, or has saved it, is Running; the rows a
\* rollout marks belong to such jobs.
RowsSettle ==
    Undisturbed =>
        /\ \A d \in Ids : status[d] = "failed" => Over(d)
        /\ \A d \in Running :
              \/ Over(d)
              \/ d = cur /\ wpc \in {"removeOld", "markStopped", "cleanupOk"}
        /\ \A d \in previous : Over(d)

\* The containers of a deployment appear with its rollout, and stay with it.
ContainersFollow ==
    Undisturbed =>
        /\ \A d \in containers :
              \/ Over(d)
              \/ d = cur /\ wpc \in {"health", "discard", "save", "removeOld",
                                    "markStopped", "cleanupOk"}
        /\ \A d \in Ids : status[d] = "failed" => d \notin containers
        /\ wpc \in {"health", "save", "removeOld", "markStopped"} =>
              cur \in containers
        /\ StartFirst =>
              \A d \in Running : \/ d \in containers
                                 \/ wpc = "markStopped" /\ d \in previous

\* Without webhooks nobody supersedes: what is Stopped is over, and what the
\* rollout saved is still Running while it removes its predecessors.
NobodySupersedes ==
    Undisturbed /\ NoWebhooks =>
        /\ \A d \in Ids : hpc[d] \notin {"list", "supersede"}
        /\ \A d \in Ids : status[d] = "stopped" => Over(d)
        /\ wpc \in {"removeOld", "markStopped"} => status[cur] = "running"

SteadyInv ==
    /\ AppStands
    /\ KindOnceUsed
    /\ SourcesOwned
    /\ JobsRunOnce
    /\ RowsSettle
    /\ ContainersFollow
    /\ NobodySupersedes

\* A rollout that takes over has one Running deployment more than it will leave,
\* and a crash then leaves that one for good.
TakesOver == wpc \in {"removeOld", "markStopped"}

RunningCounted ==
    NotDeleting =>
        Cardinality(Running) <= 1 + crashes + IF TakesOver THEN 1 ELSE 0

-----------------------------------------------------------------------------
(* Liveness *)

\* Every accepted deployment reaches a final status, across a crash and the
\* deletion of the app too (run, replay_interrupted_deployments).
EventuallySettled ==
    \A d \in Ids :
        status[d] \in Active
            ~> \/ status[d] \notin Active
               \/ hpc[d] = "dropped"
               \/ dpc = "failed"

\* Once the app is deleted, the worker gets rid of what was queued for it: a
\* job without a row ends, whatever it is in the middle of (process_job).
DeletedDrains == ~app ~> wpc = "idle" /\ queue = <<>>

=============================================================================
