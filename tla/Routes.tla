------------------------------- MODULE Routes -------------------------------
(***************************************************************************)
(* How the proxy's routes follow an app: the deployment worker and the API *)
(* handlers change the database and docker and send RefreshApp over a      *)
(* bounded channel; the update loop of main.rs answers each message with   *)
(* refresh_routes_for_app, and the startup loader runs the same function   *)
(* beside it.  One app, one domain and one replica per service.            *)
(***************************************************************************)
EXTENDS Naturals

CONSTANTS
    Services,    \* the services of the app
    MaxDeps,     \* bound: deployments rolled out, numbered by creation
    Cap,         \* capacity of the proxy update channel (64 in main.rs)
    MaxRequests, \* bound: requests that change, stop or delete a service
    Strategies   \* the rollout strategies in use

Deps == 1..MaxDeps

\* The container of a service that a deployment created.
Containers == Deps \X Services

ASSUME RoutesAssumption ==
    /\ MaxDeps \in Nat
    /\ Cap \in Nat \ {0}
    /\ MaxRequests \in Nat
    /\ Strategies \subseteq {"start_first", "stop_first"}

VARIABLES
    app,      \* the app row exists
    public,   \* the services with is_public_http, as saved
    running,  \* deployments whose row says Running
    rows,     \* containers the service rows of the deployments name
    live,     \* containers docker runs
    routed,   \* the services whose domain the RouteManager knows
    ups,      \* [Services -> the containers of the route's upstreams]
    chan,     \* RefreshApp messages in the channel
    wpc,      \* the worker inside deploy_services
    cur,      \* the deployment it rolls out
    old,      \* get_previous_running_deployments
    started,  \* deployments whose job was taken
    upc,      \* a handler that changes the settings: idle, or about to send
    dpc,      \* a handler in stop_app_service or delete_app_service
    stop,     \* what it was asked, and the deployment row it has read
    requests, \* requests so far
    rpc,      \* [Refreshers -> pc in refresh_routes_for_app]
    seenPub,  \* [Refreshers -> the public services it read]
    seenIds,  \* [Refreshers -> container ids of the Running deployment it read]
    listed,   \* [Refreshers -> the containers docker listed]
    todo,     \* [Refreshers -> services still to be added]
    writer,   \* [Services -> who wrote the route last]
    missed    \* since the last refresh began, one was lost or incomplete, or
              \* the deployment to route to changed and no refresh was due

Refreshers == {"loop", "loader"}

dataVars == <<app, public, running, rows, live>>
workerVars == <<wpc, cur, old, started>>
userVars == <<upc, dpc, stop, requests>>
routeVars == <<routed, ups, writer>>
seenVars == <<seenPub, seenIds>>
refreshVars == <<routeVars, rpc, seenVars, listed, todo>>
routesVars == <<dataVars, chan, workerVars, userVars, refreshVars, missed>>

WorkerPcs == {"idle", "stopOld", "create", "save", "send", "removeOld", "mark"}
StopPcs == {"idle", "docker", "persist", "stopSend", "runtime", "delete",
            "send"}
RefreshPcs == {"scan", "idle", "app", "runs", "list", "remove", "add", "off"}

\* A request to stop or delete service svc: pub is its is_public_http and dep
\* the deployment it has read, run whether that said Running and ids the
\* containers it named.
StopJobs == [op : {"stop", "delete"}, svc : Services, dep : Deps,
             run : BOOLEAN, ids : SUBSET Containers, pub : BOOLEAN]
NoStop == [op |-> "none"]

RoutesTypeOK ==
    /\ app \in BOOLEAN
    /\ public \subseteq Services
    /\ running \subseteq Deps
    /\ rows \subseteq Containers
    /\ live \subseteq Containers
    /\ routed \subseteq Services
    /\ ups \in [Services -> SUBSET Containers]
    /\ chan \in 0..Cap
    /\ wpc \in WorkerPcs
    /\ cur \in 0..MaxDeps
    /\ old \subseteq Deps
    /\ started \subseteq Deps
    /\ upc \in {"idle", "send"}
    /\ dpc \in StopPcs
    /\ stop \in StopJobs \cup {NoStop}
    /\ requests \in 0..MaxRequests
    /\ rpc \in [Refreshers -> RefreshPcs]
    /\ seenPub \in [Refreshers -> SUBSET Services]
    /\ seenIds \in [Refreshers -> SUBSET Containers]
    /\ listed \in [Refreshers -> SUBSET Containers]
    /\ todo \in [Refreshers -> SUBSET Services]
    /\ writer \in [Services -> Refreshers]
    /\ missed \in BOOLEAN

Of(d) == {c \in Containers : c[1] = d}

\* containr has just started: what an earlier life left running still runs,
\* the RouteManager is empty.
RoutesInit ==
    /\ app = TRUE
    /\ public \in SUBSET Services
    /\ started \in SUBSET Deps
    /\ running \in SUBSET started
    /\ \A d, e \in running : d = e
    /\ rows = {c \in Containers : c[1] \in running}
    /\ live = rows
    /\ routed = {}
    /\ ups = [s \in Services |-> {}]
    /\ chan = 0
    /\ wpc = "idle" /\ cur = 0 /\ old = {}
    /\ upc = "idle"
    /\ dpc = "idle" /\ stop = NoStop /\ requests = 0
    /\ rpc = [loop |-> "idle", loader |-> "scan"]
    /\ seenPub = [r \in Refreshers |-> {}]
    /\ seenIds = [r \in Refreshers |-> {}]
    /\ listed = [r \in Refreshers |-> {}]
    /\ todo = [r \in Refreshers |-> {}]
    /\ writer = [s \in Services |-> "loader"]
    /\ missed = FALSE

\* sender.send(RefreshApp): waits while the channel is full.
Send ==
    /\ chan < Cap
    /\ chan' = chan + 1

-----------------------------------------------------------------------------
(* The worker: deploy_services *)

workerFrame == <<app, public, userVars, refreshVars, missed>>

\* A job reaches deploy_services, which reads the deployments to replace.
StartRollout(d, strategy) ==
    /\ wpc = "idle"
    /\ app
    /\ d \in Deps \ started
    /\ started' = started \cup {d}
    /\ cur' = d
    /\ old' = running
    /\ wpc' = IF strategy = "stop_first" THEN "stopOld" ELSE "create"
    /\ UNCHANGED <<running, rows, live, chan, workerFrame>>

\* Containers are stopped and removed with their errors ignored, so some of
\* those meant to go may stay.
Removed(cs) == \E gone \in SUBSET cs : live' = live \ gone

\* The containers of the deployments that are replaced.
Replaced == UNION {Of(e) : e \in old}

\* stop_first removes a replica's predecessor before its successor exists.
StopOld ==
    /\ wpc = "stopOld"
    /\ Removed(Replaced)
    /\ wpc' = "create"
    /\ UNCHANGED <<running, rows, chan, cur, old, started, workerFrame>>

CreateContainers ==
    /\ wpc = "create"
    /\ live' = live \cup Of(cur)
    /\ wpc' = "save"
    /\ UNCHANGED <<running, rows, chan, cur, old, started, workerFrame>>

EndRollout == wpc' = "idle" /\ cur' = 0 /\ old' = {}

\* A container does not start or does not become healthy: the error branch
\* removes the new ones.  Nobody is told to refresh.
RolloutFails ==
    /\ wpc \in {"create", "save"}
    /\ Removed(Of(cur))
    /\ EndRollout
    /\ UNCHANGED <<running, rows, chan, started, workerFrame>>

\* Mutant of SaveRunning: the rollout ends without requesting a refresh.
SaveRunningSilent ==
    /\ wpc = "save"
    /\ \/ /\ app
          /\ running' = running \cup {cur}
          /\ rows' = rows \cup Of(cur)
          /\ wpc' = "removeOld"
          /\ UNCHANGED <<cur, old>>
       \/ /\ ~app
          /\ EndRollout
          /\ UNCHANGED <<running, rows>>
    /\ UNCHANGED <<live, chan, started, workerFrame>>

\* save_deployment with status Running; without the app it fails, past the
\* error branch.
SaveRunning ==
    /\ wpc = "save"
    /\ \/ /\ app
          /\ running' = running \cup {cur}
          /\ rows' = rows \cup Of(cur)
          /\ wpc' = "send"
          /\ UNCHANGED <<cur, old>>
       \/ /\ ~app
          /\ EndRollout
          /\ UNCHANGED <<running, rows>>
    /\ UNCHANGED <<live, chan, started, workerFrame>>

SendProxyRefresh ==
    /\ wpc = "send"
    /\ Send
    /\ wpc' = "removeOld"
    /\ UNCHANGED <<running, rows, live, cur, old, started, workerFrame>>

\* The old containers go at once, whether or not the loop has refreshed.
RemoveOld ==
    /\ wpc = "removeOld"
    /\ Removed(Replaced)
    /\ wpc' = "mark"
    /\ UNCHANGED <<running, rows, chan, cur, old, started, workerFrame>>

\* list_deployments_by_app is sorted by creation, newest first.
Newest == IF running = {} THEN 0
          ELSE CHOOSE d \in running : \A e \in running : e <= d

\* mark_deployment_stopped for every previous deployment; their rows still name
\* the containers.  Nobody is told, not even when the routes go to one of them:
\* the job may be older than what it replaces, or its own row was overwritten.
MarkStopped ==
    /\ wpc = "mark"
    /\ running' = running \ old
    /\ missed' = (missed \/ Newest \in old)
    /\ EndRollout
    /\ UNCHANGED <<rows, live, chan, started, app, public, userVars,
                   refreshVars>>

-----------------------------------------------------------------------------
(* The API handlers *)

handlerFrame == <<workerVars, refreshVars>>

\* update_service saves a service as public or not, then asks for a refresh.
UpdateService(s) ==
    /\ upc = "idle"
    /\ requests < MaxRequests
    /\ app
    /\ public' = IF s \in public THEN public \ {s} ELSE public \cup {s}
    /\ requests' = requests + 1
    /\ upc' = "send"
    /\ UNCHANGED <<app, running, rows, live, chan, dpc, stop, missed,
                   handlerFrame>>

SendUpdate ==
    /\ upc = "send"
    /\ Send
    /\ upc' = "idle"
    /\ UNCHANGED <<dataVars, dpc, stop, requests, missed, handlerFrame>>

\* The client goes away while a full channel keeps the handler in send (the
\* messages of other apps fill it too).
DropUpdate ==
    /\ upc = "send"
    /\ upc' = "idle"
    /\ missed' = TRUE
    /\ UNCHANGED <<dataVars, chan, dpc, stop, requests, handlerFrame>>

-----------------------------------------------------------------------------
(* stop_app_service, alone or as the first part of delete_app_service of the *)
(* app's last service                                                        *)

stopFrame == <<upc, requests, handlerFrame>>

EndStop == dpc' = "idle" /\ stop' = NoStop

\* A deletion goes on whatever became of the stop.
AfterStop ==
    IF stop.op = "delete" THEN dpc' = "runtime" /\ UNCHANGED stop ELSE EndStop

OnlyService(s) == \A t \in Services : t = s

\* resolve_app_service_deployment: the newest Running deployment, else one that
\* has an image.
StopRequest(op, s, d) ==
    /\ dpc = "idle"
    /\ requests < MaxRequests
    /\ app
    /\ op = "delete" => OnlyService(s)
    /\ running # {} => d = Newest
    /\ requests' = requests + 1
    /\ stop' = [op |-> op, svc |-> s, dep |-> d, run |-> d \in running,
                ids |-> rows \cap Of(d), pub |-> s \in public]
    /\ dpc' = "docker"
    /\ UNCHANGED <<dataVars, chan, upc, missed, handlerFrame>>

\* stop_service_replica of the container the copy names; its errors are
\* ignored.  A deployment with no row for the service ends the stop here, and
\* so does a docker client that cannot be made.
StopDocker ==
    /\ dpc = "docker"
    /\ \/ /\ Removed(stop.ids \cap {<<stop.dep, stop.svc>>})
          /\ dpc' = "persist"
          /\ UNCHANGED stop
       \/ AfterStop /\ UNCHANGED live
    /\ UNCHANGED <<app, public, running, rows, chan, missed, stopFrame>>

\* The row has changed since the handler read it.
Stale ==
    \/ stop.run # (stop.dep \in running)
    \/ stop.ids # rows \cap Of(stop.dep)

\* persist_deployment saves the whole copy, its container_id now None.
StopPersist ==
    /\ dpc = "persist"
    /\ running' = IF stop.run THEN running \cup {stop.dep}
                  ELSE running \ {stop.dep}
    /\ rows' = (rows \ Of(stop.dep))
                   \cup (stop.ids \ {<<stop.dep, stop.svc>>})
    /\ missed' = (missed \/ Stale)
    /\ IF stop.pub THEN dpc' = "stopSend" /\ UNCHANGED stop ELSE AfterStop
    /\ UNCHANGED <<app, public, live, chan, stopFrame>>

StopSend ==
    /\ dpc = "stopSend"
    /\ Send
    /\ AfterStop
    /\ UNCHANGED <<dataVars, missed, stopFrame>>

\* delete_app_runtime
DeleteRuntime ==
    /\ dpc = "runtime"
    /\ Removed(live)
    /\ dpc' = "delete"
    /\ UNCHANGED <<app, public, running, rows, chan, stop, missed, stopFrame>>

\* db.delete_app, deployments included
DeleteApp ==
    /\ dpc = "delete"
    /\ app' = FALSE
    /\ running' = {}
    /\ rows' = {}
    /\ dpc' = "send"
    /\ UNCHANGED <<public, live, chan, stop, missed, stopFrame>>

\* "the app is gone, so this drops its routes"
SendDelete ==
    /\ dpc = "send"
    /\ Send
    /\ EndStop
    /\ UNCHANGED <<dataVars, missed, stopFrame>>

\* The client goes away while the handler awaits docker or the channel, or
\* delete_app_runtime fails.
DropStop ==
    /\ dpc \in {"docker", "persist", "stopSend", "runtime", "delete", "send"}
    /\ EndStop
    /\ missed' = (missed \/ dpc \in {"stopSend", "send"})
    /\ UNCHANGED <<dataVars, chan, stopFrame>>

-----------------------------------------------------------------------------
(* refresh_routes_for_app, by the update loop and by the startup loader *)

refreshFrame == <<dataVars, workerVars, userVars>>

GotoR(r, pc) == rpc' = [rpc EXCEPT ![r] = pc]
\* refresh_routes_for_app returns, and its locals are gone.
Finish(r) ==
    /\ GotoR(r, IF r = "loop" THEN "idle" ELSE "off")
    /\ seenPub' = [seenPub EXCEPT ![r] = {}]
    /\ seenIds' = [seenIds EXCEPT ![r] = {}]
    /\ listed' = [listed EXCEPT ![r] = {}]

\* Only the loop's refreshes are due; the loader's are a courtesy.
Miss(r) == missed' = IF r = "loop" THEN TRUE ELSE missed

\* The loop takes a message and connects to docker, or skips the refresh.
Receive ==
    /\ rpc["loop"] = "idle"
    /\ chan > 0
    /\ chan' = chan - 1
    /\ \/ GotoR("loop", "app") /\ missed' = FALSE
       \/ UNCHANGED rpc /\ missed' = TRUE
    /\ UNCHANGED <<routeVars, seenVars, listed, todo, refreshFrame>>

\* load_routes_from_db refreshes the apps that have containers; without docker
\* it returns.
ScanContainers ==
    /\ rpc["loader"] = "scan"
    /\ \/ live # {} /\ GotoR("loader", "app")
       \/ GotoR("loader", "off")
    /\ UNCHANGED <<chan, missed, routeVars, seenVars, listed, todo, refreshFrame>>

RemoveAll(r) ==
    /\ routed' = {}
    /\ ups' = [s \in Services |-> {}]
    /\ writer' = [s \in Services |-> r]

\* db.get_app: a deleted app loses its routes; on an error nothing is done.
GetApp(r) ==
    /\ rpc[r] = "app"
    /\ \/ /\ app
          /\ seenPub' = [seenPub EXCEPT ![r] = public]
          /\ GotoR(r, "runs")
          /\ UNCHANGED <<routeVars, seenIds, listed, missed>>
       \/ /\ ~app
          /\ RemoveAll(r)
          /\ Finish(r)
          /\ UNCHANGED missed
       \/ /\ Finish(r)
          /\ Miss(r)
          /\ UNCHANGED routeVars
    /\ UNCHANGED <<chan, todo, refreshFrame>>

\* What the row of the newest Running deployment names: "route to the newest
\* one that actually runs".
Named == {c \in rows : c[1] = Newest}

\* list_deployments_by_app; an error is taken for no deployment.
GetRunning(r) ==
    /\ rpc[r] = "runs"
    /\ \/ /\ seenIds' = [seenIds EXCEPT ![r] = Named]
          /\ UNCHANGED missed
       \/ /\ seenIds' = [seenIds EXCEPT ![r] = {}]
          /\ Miss(r)
    /\ GotoR(r, "list")
    /\ UNCHANGED <<chan, routeVars, seenPub, listed, todo, refreshFrame>>

\* docker.list_containers; when it fails the refresh is given up.
ListContainers(r) ==
    /\ rpc[r] = "list"
    /\ \/ /\ listed' = [listed EXCEPT ![r] = live]
          /\ GotoR(r, "remove")
          /\ UNCHANGED <<seenVars, missed>>
       \/ /\ Finish(r)
          /\ Miss(r)
    /\ UNCHANGED <<chan, routeVars, todo, refreshFrame>>

\* remove_app_routes, then the public services one by one.
RemoveAppRoutes(r) ==
    /\ rpc[r] = "remove"
    /\ RemoveAll(r)
    /\ todo' = [todo EXCEPT ![r] = seenPub[r]]
    /\ \/ seenPub[r] = {} /\ Finish(r)
       \/ /\ seenPub[r] # {}
          /\ GotoR(r, "add")
          /\ UNCHANGED <<seenVars, listed>>
    /\ UNCHANGED <<chan, missed, refreshFrame>>

For(s, cs) == {c \in cs : c[2] = s}

\* active_http_container_ids of the Running deployment; where its row names no
\* container of the service, or there is no such deployment, every container
\* named for the service (is_service_container_name).
Candidates(r, s) ==
    IF For(s, seenIds[r]) # {} THEN listed[r] \cap For(s, seenIds[r])
                               ELSE For(s, listed[r])

\* get_container_ip for each candidate, those that are gone or cannot be
\* inspected left out, then add_route.
InstallRoute(r, s) ==
    /\ rpc[r] = "add"
    /\ s \in todo[r]
    /\ \/ /\ ups' = [ups EXCEPT ![s] = Candidates(r, s) \cap live]
          /\ UNCHANGED missed
       \/ /\ Candidates(r, s) \cap live # {}
          /\ ups' = [ups EXCEPT ![s] = {}]
          /\ Miss(r)
    /\ routed' = routed \cup {s}
    /\ writer' = [writer EXCEPT ![s] = r]
    /\ todo' = [todo EXCEPT ![r] = @ \ {s}]
    /\ IF todo[r] = {s} THEN Finish(r) ELSE UNCHANGED <<rpc, seenVars, listed>>
    /\ UNCHANGED <<chan, refreshFrame>>

-----------------------------------------------------------------------------

Worker ==
    \/ \E d \in Deps, g \in Strategies : StartRollout(d, g)
    \/ StopOld \/ CreateContainers \/ RolloutFails \/ SaveRunning
    \/ SendProxyRefresh \/ RemoveOld \/ MarkStopped

Refresh(r) ==
    \/ GetApp(r) \/ GetRunning(r) \/ ListContainers(r) \/ RemoveAppRoutes(r)
    \/ \E s \in Services : InstallRoute(r, s)

Loop == Receive \/ Refresh("loop")
Loader == ScanContainers \/ Refresh("loader")

Handler ==
    \/ \E s \in Services : UpdateService(s)
    \/ SendUpdate \/ DropUpdate
    \/ \E op \in {"stop", "delete"}, s \in Services, d \in Deps :
          StopRequest(op, s, d)
    \/ StopDocker \/ StopPersist \/ StopSend
    \/ DeleteRuntime \/ DeleteApp \/ SendDelete \/ DropStop

RoutesNext == Worker \/ Loop \/ Loader \/ Handler

RoutesSpec == RoutesInit /\ [][RoutesNext]_routesVars

-----------------------------------------------------------------------------
(* Properties *)

\* Somebody has changed something and not yet asked for the refresh.
AboutToSend == wpc = "send" \/ upc = "send" \/ dpc \in {"stopSend", "send"}

\* Every refresh that was asked for has been carried out.
Quiet == chan = 0 /\ ~AboutToSend /\ rpc["loop"] = "idle"

\* What requests for the service's domain reach.
Reached(s) == ups[s] \cap live

\* The domain is routed to the live containers that the newest Running
\* deployment names; a private service and a deleted app have no route.  A
\* deployment that names none (a stopped service) leaves the upstreams to the
\* fallback.
RoutedRight(s) ==
    IF app /\ s \in public
    THEN /\ s \in routed
         /\ For(s, Named) # {} => Reached(s) = For(s, Named) \cap live
    ELSE s \notin routed

\* The last refresh was complete, the loader has not overwritten it, and no
\* row it depends on was changed without a refresh.
Undisturbed(s) == ~missed /\ writer[s] = "loop"

\* refresh_routes_for_app reads the database after the message is taken, so
\* once the channel is empty the routes match the database and docker,
\* whatever was changed while earlier refreshes ran.
RoutesSettle == Quiet => \A s \in Services : Undisturbed(s) => RoutedRight(s)

-----------------------------------------------------------------------------
(* The inductive invariant behind RoutesSettle *)

\* A deployment is known by its container only from the worker's final save on,
\* to the handler as well.
Saved(d) == d \in started /\ ~(wpc \in {"stopOld", "create", "save"} /\ d = cur)

RolloutInv ==
    /\ wpc # "idle" => cur \in started
    /\ \A d \in running : Saved(d)
    /\ \A c \in rows : Saved(c[1])
    /\ dpc # "idle" => stop \in StopJobs
    /\ dpc \in {"docker", "persist"} =>
          /\ stop.run => Saved(stop.dep)
          /\ stop.ids \subseteq Of(stop.dep)
          /\ stop.ids # {} => Saved(stop.dep)

\* Nobody knows a container before it is created.
NotYet(c) ==
    c[1] \notin started \/ (wpc \in {"stopOld", "create"} /\ c[1] = cur)

ContainerInv ==
    /\ \A c \in live : ~NotYet(c)
    /\ \A r \in Refreshers : \A c \in listed[r] : ~NotYet(c)
    /\ \A s \in Services : \A c \in ups[s] : ~NotYet(c)

\* A refresh is still owed.
Pending == chan > 0 \/ AboutToSend

\* While no refresh is owed or lost, what the loop has read is up to date where
\* it matters, and so are the routes it has added.
LoopInv ==
    /\ rpc["loop"] = "add" => todo["loop"] \subseteq seenPub["loop"]
    /\ ~Pending /\ ~missed =>
          /\ rpc["loop"] \in {"runs", "list", "remove", "add"} =>
                app /\ seenPub["loop"] = public
          /\ rpc["loop"] \in {"list", "remove", "add"} =>
                \A s \in Services : For(s, Named) # {} =>
                    For(s, seenIds["loop"]) = For(s, Named)
          /\ rpc["loop"] \in {"remove", "add"} =>
                Named \cap live \subseteq listed["loop"]
          /\ rpc["loop"] = "add" =>
                \A s \in Services \ todo["loop"] :
                    Undisturbed(s) => RoutedRight(s)

RoutesInv ==
    /\ RoutesTypeOK
    /\ RolloutInv
    /\ ContainerInv
    /\ LoopInv
    /\ RoutesSettle

=============================================================================
