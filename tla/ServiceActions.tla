--------------------------- MODULE ServiceActions ---------------------------
(***************************************************************************)
(* Start, stop, restart, scale and delete of one service of a project      *)
(* (run_action, reconcile_app_service_replicas and delete_service of       *)
(* crates/containr-api/src/domain/services/mod.rs, with                    *)
(* crates/containr-runtime/src/app_service_manager.rs and docker.rs).      *)
(*                                                                         *)
(* A handler reads the newest deployment that has an image, awaits docker  *)
(* once per replica, and saves its copy of the deployment at the end.  A   *)
(* failure on the way returns at once and saves nothing, and at any await  *)
(* the request may be dropped with its connection.  Docker may refuse to   *)
(* stop or remove a container, which the code only logs.  Two handlers and *)
(* a rollout of the worker interleave between the awaits.  The worker is   *)
(* reduced to what the handlers can tell apart: module Deployments has the *)
(* rest of it.  Cron jobs are in module CronScheduler.                     *)
(***************************************************************************)
EXTENDS Naturals, FiniteSets

CONSTANTS
    MaxDeps,        \* bound on the number of deployments
    MaxReplicas,    \* largest number of replicas
    Handlers,       \* API requests that may be in flight together
    MaxOps,         \* bound on the number of requests
    Null

Deps == 1 .. MaxDeps    \* in the order they were created

ASSUME ServiceActionsAssumption ==
    /\ MaxDeps \in Nat
    /\ MaxReplicas \in Nat \ {0}
    /\ MaxOps \in Nat
    /\ Null \notin Deps

VARIABLES
    app,        \* the project row is in the database
    hasRow,     \* the service's row is in the database
    alone,      \* the service is the project's only one
    prebuilt,   \* the service runs an image it names, none is built
    replicas,   \* replicas of the service's row
    dep,        \* dep[d]: deployment d with the service's replica rows
    cont,       \* running containers <<replica, deployment>> of the service
    h,          \* h[i]: the handler of request i
    ops,        \* requests so far
    overlap,    \* ghost: two of handlers and rollout were in flight together
    torn,       \* ghost: containers that a row still named when a request
                \* or a rollout had stopped them and ended without its save
    orphan,     \* ghost: containers that no row named when a request ended
                \* without its save, or that its failed stop passed over
    refused,    \* ghost: containers that docker did not remove when asked
    last        \* ghost: the operation that finished last

vars == <<app, hasRow, alone, prebuilt, replicas, dep, cont, h, ops, overlap,
          torn, orphan, refused, last>>

ghosts == <<torn, orphan, refused>>

Indices == 0 .. MaxReplicas - 1

(* A replica row of the service: its status, whether it names a container. *)
NoReplica == [status |-> "none", cid |-> FALSE]
UpReplica == [status |-> "running", cid |-> TRUE]
DownReplica == [status |-> "stopped", cid |-> FALSE]
FailedReplica == [status |-> "failed", cid |-> TRUE]

NoReplicas == [r \in Indices |-> NoReplica]

Deployment(status, image, reps) ==
    [status |-> status, image |-> image, reps |-> reps]

NoDeployment == Deployment("none", FALSE, NoReplicas)

(* A request in flight: what it does to deployment d, the copy of its row  *)
(* (status and reps), the replicas it wants, the one it is at, and whether *)
(* the copy differs from the row it was read from.                         *)
Request(pc, op, d, status, reps, want, next, changed) ==
    [pc |-> pc, op |-> op, d |-> d, status |-> status, reps |-> reps,
     want |-> want, next |-> next, changed |-> changed]

IdleHandler == Request("idle", "none", Null, "none", NoReplicas, 0, 0, FALSE)

(* The containers of the replica rows that say Running. *)
Named == {c \in Indices \X Deps : dep[c[2]].reps[c[1]] = UpReplica}

Busy == {i \in Handlers : h[i].pc # "idle"}

RollingOut == \E d \in Deps : dep[d].status = "starting"

-----------------------------------------------------------------------------
(* Reading a deployment                                                    *)

HasServiceImage(d) == dep[d].status # "none" /\ (prebuilt \/ dep[d].image)

Newest(ds) == CHOOSE d \in ds : \A e \in ds : e <= d

(* Mutant: the newest deployment with an image, Running or not. *)
ResolveNewest ==
    LET images == {d \in Deps : HasServiceImage(d)}
    IN  IF images # {} THEN Newest(images) ELSE Null

(* resolve_app_service_deployment: the newest one that is Running, else    *)
(* the newest one that has an image of the service.                        *)
ResolveDeployment ==
    LET images  == {d \in Deps : HasServiceImage(d)}
        running == {d \in images : dep[d].status = "running"}
    IN  IF running # {} THEN Newest(running)
        ELSE IF images # {} THEN Newest(images) ELSE Null

(* Mutant: a row is enough for a replica to count as running. *)
AlreadyRunningAnyRow(rep) == rep.status # "none"

AlreadyRunning(rep) == rep.status = "running" /\ rep.cid

Desired == IF replicas = 0 THEN 1 ELSE replicas

StoppedRow(rep) ==
    IF rep.status = "none" THEN rep ELSE DownReplica

(* Mutant: the newest deployment is shown, Running or not. *)
ShownNewest ==
    LET all == {d \in Deps : dep[d].status # "none"}
    IN  IF all # {} THEN Newest(all) ELSE Null

ShownDeployment ==
    LET all     == {d \in Deps : dep[d].status # "none"}
        running == {d \in all : dep[d].status = "running"}
    IN  IF running # {} THEN Newest(running)
        ELSE IF all # {} THEN Newest(all) ELSE Null

(* summarize_app_service_runtime: the status shown for a service counts    *)
(* the replica rows that say Running against the wanted replicas; without  *)
(* replica rows it follows the deployment, a Running one showing Stopped.  *)
Summary ==
    LET d    == ShownDeployment
        rows == IF d = Null THEN {}
                ELSE {r \in Indices : dep[d].reps[r].status # "none"}
        up   == {r \in rows : dep[d].reps[r].status = "running"}
    IN  [status |-> CASE d = Null -> "pending"
                      [] rows = {} -> IF dep[d].status = "running"
                                      THEN "stopped" ELSE dep[d].status
                      [] Cardinality(up) = Desired -> "running"
                      [] up # {} /\ Cardinality(up) # Desired -> "partial"
                      [] up = {} /\ \E r \in rows :
                            dep[d].reps[r].status = "failed" -> "failed"
                      [] OTHER -> "stopped",
         running    |-> Cardinality(up),
         containers |-> {<<r, d>> : r \in {q \in rows : dep[d].reps[q].cid}}]

(* list_service_inventory_by_owner_and_group: an entry for each service    *)
(* that has a row.                                                         *)
InventoryItems == IF app /\ hasRow THEN {Summary} ELSE {}

-----------------------------------------------------------------------------
(* Requests                                                                *)

(* run_action, update_service after a change of replicas, delete_service.  *)
(* Without a deployment start and stop answer an error and scale has       *)
(* nothing to do; delete goes on.                                          *)
BeginOp(i, op, n) ==
    LET d == ResolveDeployment
    IN  /\ h[i].pc = "idle"
        /\ ops < MaxOps
        /\ hasRow
        /\ op \in {"start", "stop", "restart", "scale"} => d # Null
        /\ replicas' = IF op = "scale" THEN n ELSE replicas
        /\ op = "scale" => n # replicas
        /\ ops' = ops + 1
        /\ overlap' = (overlap \/ Busy # {} \/ RollingOut)
        /\ h' = [h EXCEPT ![i] =
              Request(IF op \in {"start", "scale"} THEN "starting"
                      ELSE IF d = Null THEN "deleting" ELSE "stopping",
                      op, d,
                      IF d = Null THEN "none" ELSE dep[d].status,
                      IF d = Null THEN NoReplicas ELSE dep[d].reps,
                      Desired', 0, FALSE)]
        /\ last' = Null
        /\ UNCHANGED <<app, hasRow, alone, prebuilt, dep, cont, ghosts>>

(* run_action of the API: start, stop and restart. *)
RunAction(i, op) == op \in {"start", "stop", "restart"} /\ BeginOp(i, op, 0)

(* update_service saves a new count of replicas and then reconciles. *)
UpdateReplicas(i, n) == BeginOp(i, "scale", n)

DeleteService(i) == BeginOp(i, "delete", 0)

Finish(i, ok) ==
    /\ h' = [h EXCEPT ![i] = IdleHandler]
    /\ last' = [op |-> h[i].op, ok |-> ok, d |-> h[i].d]

(* The handler goes on with replica r + 1; row is what its copy has for r. *)
Put(i, r, row, changed) ==
    h' = [h EXCEPT ![i] =
        Request(h[i].pc, h[i].op, h[i].d, h[i].status,
                [h[i].reps EXCEPT ![r] = row], h[i].want, r + 1, changed)]

Moves(i, pc) ==
    h' = [h EXCEPT ![i] =
        Request(pc, h[i].op, h[i].d, h[i].status, h[i].reps, h[i].want,
                h[i].next, h[i].changed)]

(* stop_container and remove_container for each of asked: an error of      *)
(* docker is logged and swallowed, so any of them may be left running.     *)
Remove(asked) ==
    \E kept \in SUBSET (asked \cap cont) :
        LET gone == asked \ kept
        IN  /\ cont' = cont \ gone
            /\ orphan' = orphan \ gone
            /\ refused' = (refused \ gone) \cup kept

(* stop_service_replica of the container that the copy names.              *)
StopContainer(i, r) ==
    Remove(IF h[i].reps[r].cid THEN {<<r, h[i].d>>} ELSE {})

(* stop_app_service, one replica row: a container it names is stopped and  *)
(* removed, errors ignored, and the copy says Stopped.                     *)
StopReplica(i) ==
    LET r == h[i].next
    IN  /\ h[i].pc = "stopping"
        /\ r \in Indices
        /\ StopContainer(i, r)
        /\ Put(i, r, StoppedRow(h[i].reps[r]),
               h[i].changed \/ h[i].reps[r].status # "none")
        /\ UNCHANGED <<app, hasRow, alone, prebuilt, replicas, dep, ops,
                       overlap, torn, last>>

(* A request ends without its save: the rows stay as they were read, with  *)
(* the containers as docker has them by now.                               *)
EndUnsaved(i) ==
    /\ torn' = (torn \cup Named) \ cont'
    /\ orphan' = cont' \ Named
    /\ refused' = refused \cap cont'
    /\ Finish(i, FALSE)

(* What docker may have done with the call a request is waiting for.       *)
Underway(i) ==
    LET r        == h[i].next
        c        == <<r, h[i].d>>
        creating == /\ h[i].pc = "starting" /\ r < h[i].want
                    /\ ~AlreadyRunning(h[i].reps[r])
        stopping == /\ r \in Indices /\ h[i].reps[r].cid
                    /\ \/ h[i].pc = "stopping"
                       \/ h[i].op = "scale" /\ r >= h[i].want
    IN  {cont} \cup (IF creating \/ stopping THEN {cont \ {c}} ELSE {})
               \cup (IF creating THEN {cont \cup {c}} ELSE {})

(* The client is gone and the handler's future is dropped at an await, the *)
(* manager's directory cannot be created, or the save itself fails.        *)
CutShort(i) ==
    /\ h[i].pc \in {"stopping", "resolving", "starting", "deleting"}
    /\ cont' \in Underway(i)
    /\ EndUnsaved(i)
    /\ UNCHANGED <<app, hasRow, alone, prebuilt, replicas, dep, ops, overlap>>

(* delete_app_service goes on when its stop_app_service returns an error:  *)
(* no manager to stop anything, or a save that failed at the end.          *)
StopPassedOver(i) ==
    /\ h[i].pc = "stopping"
    /\ h[i].op = "delete"
    /\ h[i].next \in {0, MaxReplicas}
    /\ Moves(i, "deleting")
    /\ orphan' = orphan \cup cont
    /\ UNCHANGED <<app, hasRow, alone, prebuilt, replicas, dep, cont, ops,
                   overlap, torn, refused, last>>

(* persist_deployment upserts the copy: the row becomes what the handler   *)
(* read plus what it changed.  A project or a service that is gone makes   *)
(* the save fail on its foreign key.                                       *)
Persist(i, status) ==
    dep' = IF ~h[i].changed \/ ~app THEN dep
           ELSE [dep EXCEPT ![h[i].d] =
                   Deployment(status, dep[h[i].d].image,
                              IF hasRow THEN h[i].reps
                              ELSE dep[h[i].d].reps)]

Saved(i) == h[i].changed => app /\ hasRow

StopDone(i) ==
    /\ h[i].pc = "stopping"
    /\ h[i].next = MaxReplicas
    /\ Persist(i, h[i].status)
    /\ \/ /\ h[i].op = "stop" \/ (h[i].op = "restart" /\ ~Saved(i))
          /\ Finish(i, Saved(i))
       \/ /\ h[i].op = "restart" /\ Saved(i)
          /\ Moves(i, "resolving")
          /\ UNCHANGED last
       \/ /\ h[i].op = "delete"
          /\ Moves(i, "deleting")
          /\ UNCHANGED last
    /\ UNCHANGED <<app, hasRow, alone, prebuilt, replicas, cont, ops,
                   overlap, ghosts>>

(* The second half of a restart reads the deployment again. *)
RestartStart(i) ==
    /\ h[i].pc = "resolving"
    /\ LET d == ResolveDeployment
       IN  \/ d = Null /\ Finish(i, FALSE)
           \/ /\ d # Null
              /\ h' = [h EXCEPT ![i] =
                    Request("starting", h[i].op, d, dep[d].status, dep[d].reps,
                            h[i].want, 0, FALSE)]
              /\ UNCHANGED last
    /\ UNCHANGED <<app, hasRow, alone, prebuilt, replicas, dep, cont, ops,
                   overlap, ghosts>>

(* What had the replica's name is gone, create_container and               *)
(* wait_for_healthy succeed, and the copy names the new container.         *)
CreateReplica(i, r) ==
    LET c == <<r, h[i].d>>
    IN  /\ cont' = cont \cup {c}
        /\ torn' = torn \ {c}
        /\ orphan' = orphan \ {c}
        /\ refused' = refused \ {c}
        /\ Put(i, r, UpReplica, TRUE)
        /\ UNCHANGED last

(* A step of start_service_replica fails: start_app_service returns at     *)
(* once, and the replicas it has already created are in no saved row.      *)
(*                                                                         *)
(* create_network, the first step, finds neither the project's network, an *)
(* address pool nor a free subnet.  What has the name keeps running.       *)
NetworkFails(i) == UNCHANGED cont /\ EndUnsaved(i)

(* What has the replica's name is stopped and removed before the rest,     *)
(* errors ignored.                                                         *)
RemoveByName(i, r) == cont' \in {cont, cont \ {<<r, h[i].d>>}}

(* An image the service names is pulled first: no credentials can be       *)
(* decrypted, or the registry fails and the image is not on the host.      *)
PullFails(i, r) == prebuilt /\ RemoveByName(i, r) /\ EndUnsaved(i)

(* build_service_mounts: a relative host path, or a directory or a config  *)
(* file that cannot be written.                                            *)
MountsFail(i, r) == RemoveByName(i, r) /\ EndUnsaved(i)

(* create_container: docker cannot create or start it, among others because *)
(* the container that has the name was not removed.                        *)
CreateFails(i, r) == RemoveByName(i, r) /\ EndUnsaved(i)

(* The container runs but is not healthy within a minute: it is removed,   *)
(* errors ignored.                                                         *)
Unhealthy(i, r) ==
    /\ cont' \in {cont \ {<<r, h[i].d>>}, cont \cup {<<r, h[i].d>>}}
    /\ EndUnsaved(i)

(* start_app_service, one replica: start_service_replica for one that the  *)
(* copy does not record as running.                                        *)
StartReplica(i) ==
    LET r == h[i].next
    IN  /\ h[i].pc = "starting"
        /\ r < h[i].want
        /\ IF AlreadyRunning(h[i].reps[r])
           THEN /\ Put(i, r, h[i].reps[r], h[i].changed)
                /\ UNCHANGED <<cont, ghosts, last>>
           ELSE \/ CreateReplica(i, r)
                \/ NetworkFails(i)
                \/ PullFails(i, r)
                \/ MountsFail(i, r)
                \/ CreateFails(i, r)
                \/ Unhealthy(i, r)
        /\ UNCHANGED <<app, hasRow, alone, prebuilt, replicas, dep, ops, overlap>>

(* reconcile_app_service_replicas stops the replicas beyond the new count. *)
StopExtra(i) ==
    LET r == h[i].next
    IN  /\ h[i].pc = "starting"
        /\ h[i].op = "scale"
        /\ r \in Indices
        /\ r >= h[i].want
        /\ StopContainer(i, r)
        /\ Put(i, r, StoppedRow(h[i].reps[r]),
               h[i].changed \/ h[i].reps[r].status # "none")
        /\ UNCHANGED <<app, hasRow, alone, prebuilt, replicas, dep, ops,
                       overlap, torn, last>>

(* The end of start and scale: the deployment is Running from here on,     *)
(* unless nothing was changed.                                             *)
StartDone(i) ==
    /\ h[i].pc = "starting"
    /\ IF h[i].op = "scale" THEN h[i].next >= MaxReplicas
       ELSE h[i].next >= h[i].want
    /\ Persist(i, "running")
    /\ Finish(i, Saved(i))
    /\ UNCHANGED <<app, hasRow, alone, prebuilt, replicas, cont, ops, overlap,
                   ghosts>>

(* delete_app_runtime, for the last service of a project: every container  *)
(* whose name has the project's prefix is stopped and removed, errors      *)
(* ignored.  It returns early when docker cannot be listed, or when the    *)
(* network or mount data cannot be removed.                                *)
DeleteRuntime(i) ==
    /\ h[i].pc = "deleting"
    /\ alone
    /\ \/ /\ Remove(cont)
          /\ Moves(i, "rows")
          /\ UNCHANGED <<torn, last>>
       \/ /\ cont' \in SUBSET cont
          /\ EndUnsaved(i)
    /\ UNCHANGED <<app, hasRow, alone, prebuilt, replicas, dep, ops,
                   overlap>>

(* db.delete_app: the project with its services and deployments. *)
DeleteApp(i) ==
    /\ h[i].pc = "rows"
    /\ app' = FALSE
    /\ hasRow' = FALSE
    /\ dep' = [d \in Deps |-> NoDeployment]
    /\ Finish(i, TRUE)
    /\ UNCHANGED <<alone, prebuilt, replicas, cont, ops, overlap, ghosts>>

(* delete_app_service of one of several: saving the project without the    *)
(* service deletes its row, and its replica rows with it.  Mount data that *)
(* cannot be removed makes the answer an error.                            *)
DeleteServiceRow(i) ==
    /\ h[i].pc = "deleting"
    /\ ~alone
    /\ hasRow' = FALSE
    /\ dep' = [d \in Deps |->
                 Deployment(dep[d].status, dep[d].image, NoReplicas)]
    /\ \E ok \in BOOLEAN : Finish(i, ok)
    /\ UNCHANGED <<app, alone, prebuilt, replicas, cont, ops, overlap, ghosts>>

-----------------------------------------------------------------------------
(* The worker                                                              *)

(* A new deployment is picked up: its replicas are created beside the old, *)
(* and a row saved for each.                                               *)
RolloutCreate(d) ==
    LET new == 0 .. Desired - 1
    IN  /\ app /\ hasRow
        /\ dep[d].status = "none"
        /\ \A e \in Deps : e < d => dep[e].status \notin {"none", "starting"}
        /\ dep' = [dep EXCEPT ![d] =
              Deployment("starting", TRUE,
                         [r \in Indices |-> IF r \in new THEN UpReplica
                                            ELSE NoReplica])]
        /\ cont' = cont \cup {<<r, d>> : r \in new}
        /\ overlap' = (overlap \/ Busy # {})
        /\ last' = Null
        /\ UNCHANGED <<app, hasRow, alone, prebuilt, replicas, h, ops, ghosts>>

(* The rollout succeeds: the row is Running and the ones that were Running *)
(* are Stopped, with the containers they name removed, errors ignored.     *)
RolloutCommit(d) ==
    LET old == {e \in Deps \ {d} : dep[e].status = "running"}
    IN  /\ dep[d].status = "starting"
        /\ app
        /\ dep' = [e \in Deps |->
              IF e = d
              THEN Deployment("running", TRUE,
                              [r \in Indices |-> IF <<r, d>> \in cont
                                                 THEN UpReplica ELSE NoReplica])
              ELSE IF e \in old
              THEN Deployment("stopped", dep[e].image,
                              [r \in Indices |-> StoppedRow(dep[e].reps[r])])
              ELSE dep[e]]
        /\ Remove({c \in Indices \X old : dep[c[2]].reps[c[1]].cid})
        /\ last' = Null
        /\ UNCHANGED <<app, hasRow, alone, prebuilt, replicas, h, ops, overlap,
                       torn>>

(* The rollout fails: its containers are removed, errors ignored, and the  *)
(* n rows it saved say Failed but still name them.  With stop_first, or    *)
(* for published ports, it had removed the old containers by then.         *)
RolloutFail(d) ==
    /\ dep[d].status = "starting"
    /\ \E n \in 0 .. Desired :
          dep' = [dep EXCEPT ![d] =
              Deployment("failed", n > 0,
                         [r \in Indices |-> IF r < n THEN FailedReplica
                                            ELSE NoReplica])]
    /\ cont' \in {cont \ gone : gone \in SUBSET (Named \cup (Indices \X {d}))}
    /\ torn' = (torn \cup {c \in Named : c[2] # d}) \ cont'
    /\ orphan' = orphan \cap cont'
    /\ refused' = {c \in cont' : c \in refused \/ c[2] = d}
    /\ UNCHANGED <<app, hasRow, alone, prebuilt, replicas, h, ops, overlap,
                   last>>

-----------------------------------------------------------------------------
Init ==
    /\ app = TRUE
    /\ hasRow = TRUE
    /\ alone \in BOOLEAN
    /\ prebuilt \in BOOLEAN
    /\ replicas \in 1 .. MaxReplicas
    /\ dep = [d \in Deps |-> NoDeployment]
    /\ cont = {}
    /\ h = [i \in Handlers |-> IdleHandler]
    /\ ops = 0
    /\ overlap = FALSE
    /\ torn = {}
    /\ orphan = {}
    /\ refused = {}
    /\ last = Null

HandlerStep(i) ==
    \/ \E op \in {"start", "stop", "restart"} : RunAction(i, op)
    \/ \E n \in 1 .. MaxReplicas : UpdateReplicas(i, n)
    \/ DeleteService(i)
    \/ StopReplica(i)
    \/ CutShort(i)
    \/ StopPassedOver(i)
    \/ StopDone(i)
    \/ RestartStart(i)
    \/ StartReplica(i)
    \/ StopExtra(i)
    \/ StartDone(i)
    \/ DeleteRuntime(i)
    \/ DeleteApp(i)
    \/ DeleteServiceRow(i)

Next ==
    \/ \E i \in Handlers : HandlerStep(i)
    \/ \E d \in Deps : RolloutCreate(d) \/ RolloutCommit(d) \/ RolloutFail(d)

Spec == Init /\ [][Next]_vars

-----------------------------------------------------------------------------
(* Properties.  Those about the outcome of a request are stated for        *)
(* requests that did not overlap with another one or with a rollout; the   *)
(* requests themselves may fail or be dropped at any replica, docker may   *)
(* refuse any removal, in any sequence.                                    *)

Quiet == Busy = {} /\ ~RollingOut /\ ~overlap

Statuses == {"none", "starting", "running", "stopped", "failed"}
ReplicaRows == {NoReplica, UpReplica, DownReplica, FailedReplica}
Replicas == [Indices -> ReplicaRows]
Requests ==
    [pc : {"idle", "stopping", "resolving", "starting", "deleting", "rows"},
     op : {"none", "start", "stop", "restart", "scale", "delete"},
     d : Deps \cup {Null}, status : Statuses, reps : Replicas,
     want : 0 .. MaxReplicas, next : 0 .. MaxReplicas, changed : BOOLEAN]

(* Rows, containers and handlers have the shapes the code gives them.      *)
TypeOK ==
    /\ {app, hasRow, alone, prebuilt, overlap} \subseteq BOOLEAN
    /\ replicas \in 1 .. MaxReplicas
    /\ dep \in [Deps -> [status : Statuses, image : BOOLEAN, reps : Replicas]]
    /\ cont \subseteq Indices \X Deps
    /\ h \in [Handlers -> Requests]
    /\ \A i \in Busy : h[i].d = Null => h[i].pc \in {"deleting", "rows"}
    /\ ops \in 0 .. MaxOps

(* start_app_service, reconcile_app_service_replicas: a request answered   *)
(* with success leaves every wanted replica named in the row of the one    *)
(* deployment it chose, and after scaling no replica beyond.  All of them  *)
(* run, but for those that an earlier request stopped without saving it:   *)
(* a start believes the row.  A restart brings those back too.             *)
StartedRuns ==
    Quiet /\ last # Null =>
        (last.ok /\ last.op \in {"start", "restart", "scale"} =>
            /\ dep[last.d].status = "running"
            /\ \A r \in 0 .. Desired - 1 :
                  /\ <<r, last.d>> \in Named
                  /\ \/ <<r, last.d>> \in cont
                     \/ last.op # "restart" /\ <<r, last.d>> \in torn
            /\ last.op = "scale" =>
                  \A r \in Indices : r >= Desired => <<r, last.d>> \notin Named)

(* stop_app_service: after a successful stop no row says Running, and no   *)
(* container of the service runs but for those docker refused to remove    *)
(* and those an unfinished request left in no row.                         *)
StoppedIsDown ==
    Quiet /\ last # Null =>
        (last.ok /\ last.op = "stop" =>
            Named = {} /\ cont \subseteq orphan \cup refused)

(* summarize_app_service_runtime: what the service list shows is what runs. *)
(* A row that says Running names a container that runs, unless a request   *)
(* or a rollout ended after it had stopped it and before its save; and a   *)
(* container runs without a row only if docker refused to remove it or the *)
(* request that made it ended unsaved.  But for these, Running means that  *)
(* every wanted replica runs, every container is listed, and a service     *)
(* that is shown as down has none.                                         *)
ReportIsTrue ==
    /\ TypeOK
    /\ Quiet =>
        /\ Named \subseteq cont \cup torn
        /\ cont \subseteq Named \cup orphan \cup refused
        /\ \A item \in InventoryItems :
            /\ Cardinality(item.containers \cap Named) = item.running
            /\ item.status = "running" =>
                  Cardinality(item.containers \cap (cont \cup torn)) >= Desired
            /\ cont \subseteq item.containers \cup orphan \cup refused
            /\ item.status \in {"pending", "stopped", "failed"} =>
                  cont \subseteq orphan \cup refused

(* delete_app_service: nothing of a deleted service keeps running but what *)
(* docker refused to remove.  Unless the service was the project's last,   *)
(* what an unfinished request left in no row stays as well.                *)
DeletedLeavesNothing ==
    Quiet /\ ~hasRow =>
        cont \subseteq IF alone THEN refused ELSE orphan \cup refused

(* run_action, delete_service: a request that was answered with success    *)
(* has done what it was asked for.                                         *)
AnsweredIsDone == StartedRuns /\ StoppedIsDown /\ DeletedLeavesNothing

(* A deployment is made Running only by a start that found no other one    *)
(* Running, or by a rollout that stops the others.                         *)
OneRunningDeployment ==
    ~overlap =>
        \A d, e \in Deps :
            dep[d].status = "running" /\ dep[e].status = "running" => d = e

-----------------------------------------------------------------------------
(* The inductive invariant of requests and rollouts that do not overlap    *)

Running == {d \in Deps : dep[d].status = "running"}

(* One request or rollout at a time; the service is there for it.          *)
OneAtATime ==
    /\ \A i, j \in Busy : i = j
    /\ hasRow => app
    /\ Busy # {} => ~RollingOut /\ hasRow /\ last = Null
    /\ RollingOut => hasRow /\ last = Null

(* Only the one Running deployment, and one that is coming, has rows that  *)
(* say Running; after one that is still to come or coming there is none.   *)
RowsInv ==
    /\ \A d, e \in Running : d = e
    /\ \A d \in Running : HasServiceImage(d)
    /\ \A c \in Named : dep[c[2]].status \in {"running", "starting"}
    /\ \A d \in Deps :
          dep[d].status \in {"none", "starting"} =>
              \A e \in Deps : d < e => dep[e].status = "none"

(* The containers of the replicas that the copy of a request says run.     *)
CopyNames(i) == {c \in Indices \X {h[i].d} : h[i].reps[c[1]] = UpReplica}

(* A request holds a copy of the deployment to act on: what it has not     *)
(* reached yet is as in the database, and the copy names what runs.        *)
CopyHeld(i) ==
    /\ h[i].d \in Deps
    /\ HasServiceImage(h[i].d)
    /\ Running \subseteq {h[i].d}
    /\ h[i].status = dep[h[i].d].status
    /\ \A r \in Indices :
          r >= h[i].next \/ ~h[i].changed => h[i].reps[r] = dep[h[i].d].reps[r]
    /\ CopyNames(i) \subseteq cont \cup torn
    /\ cont \subseteq CopyNames(i) \cup orphan \cup refused

StoppingInv(i) ==
    /\ CopyHeld(i)
    /\ h[i].op \in {"stop", "restart", "delete"}
    /\ \A r \in Indices : r < h[i].next => h[i].reps[r] # UpReplica

StartingInv(i) ==
    /\ CopyHeld(i)
    /\ h[i].op \in {"start", "restart", "scale"}
    /\ h[i].op # "scale" => h[i].next <= h[i].want
    /\ h[i].op = "restart" => CopyNames(i) \subseteq cont
    /\ \A r \in Indices :
          r < h[i].next => (h[i].reps[r] = UpReplica <=> r < h[i].want)

(* Between its phases, a request has stopped everything it knew of.        *)
StoppedInv(i) ==
    /\ h[i].op = IF h[i].pc = "resolving" THEN "restart" ELSE "delete"
    /\ h[i].pc = "resolving" => Named = {}
    /\ cont \subseteq orphan \cup refused
    /\ h[i].pc = "rows" => alone /\ cont \subseteq refused

HandlersInv ==
    \A i \in Busy :
        /\ h[i].want = Desired
        /\ h[i].pc = "stopping" => StoppingInv(i)
        /\ h[i].pc = "starting" => StartingInv(i)
        /\ h[i].pc \in {"resolving", "deleting", "rows"} => StoppedInv(i)

(* Without a request in flight the rows name what runs.                    *)
RestInv ==
    Busy = {} =>
        /\ Named \subseteq cont \cup torn
        /\ cont \subseteq Named \cup orphan \cup refused

SoloInv == OneAtATime /\ RowsInv /\ HandlersInv /\ RestInv

IInv ==
    /\ TypeOK
    /\ ~overlap => SoloInv
    /\ AnsweredIsDone
=============================================================================
