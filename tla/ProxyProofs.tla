---------------------------- MODULE ProxyProofs -----------------------------
(***************************************************************************)
(* The routes and the requests through the proxy.  The routes settle on     *)
(* what the newest Running deployment names: for any services, rollouts in  *)
(* any order, requests and any capacity of the update channel.  Requests:   *)
(* for any number at a time, any route configurations and any number of     *)
(* refreshes.                                                               *)
(***************************************************************************)
EXTENDS Routes, Proxy, FiniteSetTheorems, TLAPS

-----------------------------------------------------------------------------
(* The newest Running deployment *)

\* A set of numbers that is not empty has a least one.
LEMMA LeastNumber ==
  ASSUME NEW T \in SUBSET Nat, T # {}
  PROVE  \E x \in T : \A y \in T : x <= y
<1> DEFINE R == OpToRel(<, Nat)
<1>1. IsWellFoundedOn(R, Nat)
  BY NatLessThanWellFounded
<1>2. \A x, y \in Nat : y < x => <<y, x>> \in R
  BY DEF OpToRel
<1> HIDE DEF R
<1>3. PICK x \in T : \A y \in T : ~(<<y, x>> \in R)
  BY <1>1, WFMin
<1>4. \A y \in T : x \in Nat /\ y \in Nat /\ ~(y < x)
  BY <1>2, <1>3
<1>5. \A y \in T : x <= y
  BY <1>4
<1>6. QED
  BY <1>5

\* The bounds are numbers.
LEMMA Bounds == MaxDeps \in Nat /\ Cap \in Nat \ {0} /\ MaxRequests \in Nat
  BY RoutesAssumption

USE Bounds

\* Of some deployments one is the newest.
LEMMA GreatestDep ==
  ASSUME NEW T \in SUBSET Deps, T # {}
  PROVE  \E x \in T : \A y \in T : y <= x
<1> DEFINE U == {MaxDeps - d : d \in T}
<1>1. U \in SUBSET Nat /\ U # {}
  BY DEF Deps
<1>2. PICK u \in U : \A v \in U : u <= v
  <2> HIDE DEF U
  <2> QED
    BY <1>1, LeastNumber
<1>3. PICK x \in T : u = MaxDeps - x
  BY <1>2
<1>4. \A y \in T : y <= x
  <2> SUFFICES ASSUME NEW y \in T PROVE y <= x
    OBVIOUS
  <2>1. u <= MaxDeps - y
    BY <1>2
  <2>2. x \in Int /\ y \in Int
    BY DEF Deps
  <2>3. QED
    BY <1>3, <2>1, <2>2
<1>5. QED
  BY <1>4

\* The newest deployment is one that Runs, and the newest of them.
LEMMA NewestExists ==
  ASSUME running \in SUBSET Deps, running # {}
  PROVE  Newest \in running /\ \A e \in running : e <= Newest
<1>1. \E d \in running : \A e \in running : e <= d
  BY GreatestDep
<1>2. QED
  BY <1>1 DEF Newest

\* Stopping other deployments leaves the newest one.
LEMMA NewestStays ==
  ASSUME running \in SUBSET Deps, running' = running \ old, Newest \notin old,
         0 \notin Deps
  PROVE  Newest' = Newest
<1>1. CASE running = {}
  BY <1>1 DEF Newest
<1>2. CASE running # {}
  <2>1. Newest \in running /\ \A e \in running : e <= Newest
    BY <1>2, NewestExists
  <2> DEFINE n == Newest
  <2>2. n \in running' /\ \A e \in running' : e <= n
    BY <2>1
  <2>3. \A x \in running' : (\A e \in running' : e <= x) => x = n
    <3> SUFFICES ASSUME NEW x \in running', \A e \in running' : e <= x
                 PROVE  x = n
      OBVIOUS
    <3>1. x <= n /\ n <= x /\ x \in Deps /\ n \in Deps
      BY <2>1, <2>2
    <3>2. QED
      BY <3>1 DEF Deps
  <2> HIDE DEF n
  <2>4. Newest' = CHOOSE d \in running' : \A e \in running' : e <= d
    BY <2>2 DEF Newest
  <2>5. Newest' = n
    BY <2>2, <2>3, <2>4
  <2>6. QED
    BY <2>5 DEF n
<1>3. QED
  BY <1>1, <1>2

-----------------------------------------------------------------------------
(* The routes that a refresh installs *)

\* The refreshers change nothing but the routes and what they have read.
LEMMA RefreshFrame ==
  ASSUME Loop \/ Loader
  PROVE  UNCHANGED <<app, public, running, rows, live, wpc, cur, old, started,
                     upc, dpc, stop, requests>>
  BY DEF Loop, Loader, Refresh, Receive, ScanContainers, GetApp, GetRunning,
         ListContainers, RemoveAppRoutes, InstallRoute, refreshFrame, dataVars,
         workerVars, userVars

\* The handlers leave the worker and the refreshers alone.
LEMMA HandlerFrame ==
  ASSUME Handler
  PROVE  UNCHANGED <<wpc, cur, old, started, routed, ups, writer, rpc, seenPub,
                     seenIds, listed, todo>>
  BY DEF Handler, UpdateService, SendUpdate, DropUpdate, StopRequest,
         StopDocker, StopPersist, StopSend, DeleteRuntime, DeleteApp,
         SendDelete, DropStop, stopFrame, handlerFrame, workerVars,
         refreshVars, routeVars, seenVars

\* The worker leaves the handlers and the refreshers alone.
LEMMA WorkerFrame ==
  ASSUME Worker
  PROVE  UNCHANGED <<app, public, upc, dpc, stop, requests, routed, ups,
                     writer, rpc, seenPub, seenIds, listed, todo>>
  BY DEF Worker, StartRollout, StopOld, CreateContainers, RolloutFails,
         SaveRunning, SendProxyRefresh, RemoveOld, MarkStopped, EndRollout,
         workerFrame, userVars, refreshVars, routeVars, seenVars

\* A container pair belongs to the deployment in its first component.
LEMMA OfDep ==
  ASSUME NEW d
  PROVE  /\ Of(d) \subseteq Containers
         /\ \A c \in Of(d) : c[1] = d
  BY DEF Of

\* Removing containers adds none.
LEMMA RemovedLess ==
  ASSUME NEW cs, Removed(cs)
  PROVE  live' \subseteq live
  BY DEF Removed

\* The worker's steps keep the types.
LEMMA WorkerType ==
  ASSUME RoutesTypeOK, RolloutInv, Worker
  PROVE  RoutesTypeOK'
<1> USE WorkerFrame, OfDep DEF RoutesTypeOK, WorkerPcs, EndRollout
<1>0. wpc # "idle" => cur \in Deps
  BY DEF RolloutInv
<1>1. ASSUME NEW d \in Deps, NEW g \in Strategies, StartRollout(d, g)
      PROVE  RoutesTypeOK'
  BY <1>1 DEF StartRollout, workerFrame, Deps
<1>2. CASE StopOld
  BY <1>2, RemovedLess DEF StopOld, workerFrame
<1>3. CASE CreateContainers
  BY <1>3 DEF CreateContainers, workerFrame
<1>4. CASE RolloutFails
  BY <1>4, RemovedLess DEF RolloutFails, workerFrame
<1>5. CASE SaveRunning
  <2>1. running' \subseteq Deps /\ rows' \subseteq Containers
    BY <1>0, <1>5 DEF SaveRunning
  <2>2. wpc' \in WorkerPcs /\ cur' \in 0..MaxDeps /\ old' \subseteq Deps
    BY <1>5 DEF SaveRunning
  <2>3. UNCHANGED <<live, chan, started, missed>>
    BY <1>5 DEF SaveRunning, workerFrame
  <2>4. QED
    BY <2>1, <2>2, <2>3
<1>6. CASE SendProxyRefresh
  BY <1>6 DEF SendProxyRefresh, Send, workerFrame
<1>7. CASE RemoveOld
  BY <1>7, RemovedLess DEF RemoveOld, workerFrame
<1>8. CASE MarkStopped
  <2>1. running' \subseteq Deps /\ UNCHANGED <<rows, live, chan, started>>
    BY <1>8 DEF MarkStopped
  <2>2. wpc' \in WorkerPcs /\ cur' \in 0..MaxDeps /\ old' \subseteq Deps
    BY <1>8 DEF MarkStopped
  <2>3. missed' \in BOOLEAN
    BY <1>8 DEF MarkStopped
  <2>4. QED
    BY <2>1, <2>2, <2>3
<1>9. QED
  BY <1>1, <1>2, <1>3, <1>4, <1>5, <1>6, <1>7, <1>8 DEF Worker

\* The refreshers' steps keep the types.
LEMMA RefreshType ==
  ASSUME RoutesTypeOK, Loop \/ Loader
  PROVE  RoutesTypeOK'
<1> USE DEF RoutesTypeOK
<1> UNCHANGED <<app, public, running, rows, live, wpc, cur, old, started,
                upc, dpc, stop, requests>>
  BY RefreshFrame
<1> USE DEF RefreshPcs, Refreshers, GotoR, Finish, RemoveAll, routeVars,
            seenVars, Miss
<1>1. CASE Receive
  <2>1. /\ chan' \in 0..Cap /\ rpc' \in [Refreshers -> RefreshPcs]
        /\ UNCHANGED <<routed, ups, writer, seenPub, seenIds, listed, todo>>
    BY <1>1 DEF Receive
  <2>2. missed' \in BOOLEAN
    BY <1>1 DEF Receive
  <2>3. QED
    BY <2>1, <2>2
<1>2. CASE ScanContainers
  BY <1>2 DEF ScanContainers
<1>3. ASSUME NEW r \in Refreshers, GetApp(r) PROVE RoutesTypeOK'
  <2>1. missed' \in BOOLEAN
    BY <1>3 DEF GetApp
  <2>2. CASE Finish(r) /\ RemoveAll(r)
    BY <1>3, <2>1, <2>2 DEF GetApp
  <2>3. CASE Finish(r) /\ UNCHANGED routeVars
    BY <1>3, <2>1, <2>3 DEF GetApp
  <2>4. CASE /\ seenPub' = [seenPub EXCEPT ![r] = public]
             /\ GotoR(r, "runs")
             /\ UNCHANGED <<routeVars, seenIds, listed>>
    BY <1>3, <2>1, <2>4 DEF GetApp
  <2>5. QED
    BY <1>3, <2>2, <2>3, <2>4 DEF GetApp
<1>4. ASSUME NEW r \in Refreshers, GetRunning(r) PROVE RoutesTypeOK'
  <2>1. missed' \in BOOLEAN
    BY <1>4 DEF GetRunning
  <2>2. Named \subseteq Containers
    BY DEF Named
  <2>3. seenIds' \in [Refreshers -> SUBSET Containers]
    BY <1>4, <2>2 DEF GetRunning
  <2>4. /\ rpc' \in [Refreshers -> RefreshPcs]
        /\ UNCHANGED <<chan, routed, ups, writer, seenPub, listed, todo>>
    BY <1>4 DEF GetRunning
  <2>5. QED
    BY <2>1, <2>3, <2>4
<1>5. ASSUME NEW r \in Refreshers, ListContainers(r) PROVE RoutesTypeOK'
  <2>1. missed' \in BOOLEAN
    BY <1>5 DEF ListContainers
  <2>2. /\ listed' \in [Refreshers -> SUBSET Containers]
        /\ rpc' \in [Refreshers -> RefreshPcs]
        /\ seenPub' \in [Refreshers -> SUBSET Services]
        /\ seenIds' \in [Refreshers -> SUBSET Containers]
        /\ UNCHANGED <<chan, routed, ups, writer, todo>>
    <3>1. CASE Finish(r)
      BY <1>5, <3>1 DEF ListContainers
    <3>2. CASE /\ listed' = [listed EXCEPT ![r] = live]
               /\ GotoR(r, "remove")
               /\ UNCHANGED seenVars
      BY <1>5, <3>2 DEF ListContainers
    <3>3. QED
      BY <1>5, <3>1, <3>2 DEF ListContainers
  <2>3. QED
    BY <2>1, <2>2
<1>6. ASSUME NEW r \in Refreshers, RemoveAppRoutes(r) PROVE RoutesTypeOK'
  BY <1>6 DEF RemoveAppRoutes
<1>7. ASSUME NEW r \in Refreshers, NEW s \in Services, InstallRoute(r, s)
      PROVE  RoutesTypeOK'
  <2>1. missed' \in BOOLEAN
    BY <1>7 DEF InstallRoute
  <2>2. ups' \in [Services -> SUBSET Containers]
    <3>1. Candidates(r, s) \cap live \subseteq Containers
      OBVIOUS
    <3>2. \/ ups' = [ups EXCEPT ![s] = Candidates(r, s) \cap live]
          \/ ups' = [ups EXCEPT ![s] = {}]
      BY <1>7 DEF InstallRoute
    <3>3. QED
      BY <3>1, <3>2
  <2>3. /\ listed' \in [Refreshers -> SUBSET Containers]
        /\ rpc' \in [Refreshers -> RefreshPcs]
        /\ seenPub' \in [Refreshers -> SUBSET Services]
        /\ seenIds' \in [Refreshers -> SUBSET Containers]
        /\ todo' \in [Refreshers -> SUBSET Services]
        /\ routed' \subseteq Services
        /\ writer' \in [Services -> Refreshers]
        /\ UNCHANGED chan
    BY <1>7 DEF InstallRoute
  <2>4. QED
    BY <2>1, <2>2, <2>3
<1>8. QED
  BY <1>1, <1>2, <1>3, <1>4, <1>5, <1>6, <1>7
  DEF Loop, Loader, Refresh, Refreshers

\* After the stop a handler is done, or goes on to delete the app.
LEMMA AfterStopType ==
  ASSUME AfterStop, stop \in StopJobs \cup {NoStop}
  PROVE  /\ dpc' \in {"idle", "runtime"}
         /\ stop' \in StopJobs \cup {NoStop}
         /\ dpc' # "idle" => stop' = stop
  BY DEF AfterStop, EndStop

\* The handlers' steps keep the types.
LEMMA HandlerType ==
  ASSUME RoutesTypeOK, RolloutInv, Handler
  PROVE  RoutesTypeOK'
<1> USE DEF RoutesTypeOK
<1> UNCHANGED <<wpc, cur, old, started, routed, ups, writer, rpc, seenPub,
                seenIds, listed, todo>>
  BY HandlerFrame
<1> USE DEF Send, dataVars, StopPcs
<1>1. ASSUME NEW s \in Services, UpdateService(s) PROVE RoutesTypeOK'
  <2>1. public' \subseteq Services /\ requests' \in 0..MaxRequests
    BY <1>1 DEF UpdateService
  <2>2. /\ upc' = "send"
        /\ UNCHANGED <<app, running, rows, live, chan, dpc, stop, missed>>
    BY <1>1 DEF UpdateService
  <2>3. QED
    BY <2>1, <2>2
<1>2. CASE SendUpdate
  BY <1>2 DEF SendUpdate
<1>3. CASE DropUpdate
  BY <1>3 DEF DropUpdate
<1>4. ASSUME NEW op \in {"stop", "delete"}, NEW s \in Services, NEW d \in Deps,
             StopRequest(op, s, d)
      PROVE  RoutesTypeOK'
  <2>1. stop' \in StopJobs
    <3>1. rows \cap Of(d) \in SUBSET Containers
      OBVIOUS
    <3>2. (d \in running) \in BOOLEAN /\ (s \in public) \in BOOLEAN
      OBVIOUS
    <3>3. stop' = [op |-> op, svc |-> s, dep |-> d, run |-> d \in running,
                   ids |-> rows \cap Of(d), pub |-> s \in public]
      BY <1>4 DEF StopRequest
    <3>4. QED
      BY <3>1, <3>2, <3>3 DEF StopJobs
  <2>2. dpc' \in StopPcs /\ requests' \in 0..MaxRequests
    BY <1>4 DEF StopRequest
  <2>3. UNCHANGED <<app, public, running, rows, live, chan, upc, missed>>
    BY <1>4 DEF StopRequest
  <2>4. QED
    BY <2>1, <2>2, <2>3
<1>5. CASE StopDocker
  <2>1. live' \subseteq live
    BY <1>5, RemovedLess DEF StopDocker
  <2>2. dpc' \in StopPcs /\ stop' \in StopJobs \cup {NoStop}
    BY <1>5, AfterStopType DEF StopDocker
  <2>3. UNCHANGED <<app, public, running, rows, chan, missed, upc, requests>>
    BY <1>5 DEF StopDocker, stopFrame
  <2>4. QED
    BY <2>1, <2>2, <2>3
<1>6. CASE StopPersist
  <2>1. stop.dep \in Deps /\ stop.ids \subseteq Containers
    BY <1>6 DEF StopPersist, RolloutInv, StopJobs
  <2>2. running' \subseteq Deps /\ rows' \subseteq Containers
    BY <1>6, <2>1 DEF StopPersist
  <2>3. dpc' \in StopPcs /\ stop' \in StopJobs \cup {NoStop}
    BY <1>6, AfterStopType DEF StopPersist
  <2>4. missed' \in BOOLEAN
    BY <1>6 DEF StopPersist
  <2>5. UNCHANGED <<app, public, live, chan, upc, requests>>
    BY <1>6 DEF StopPersist, stopFrame
  <2>6. QED
    BY <2>2, <2>3, <2>4, <2>5
<1>7. CASE StopSend
  <2>1. dpc' \in StopPcs /\ stop' \in StopJobs \cup {NoStop}
    BY <1>7, AfterStopType DEF StopSend
  <2>2. chan' \in 0..Cap
    BY <1>7 DEF StopSend
  <2>3. UNCHANGED <<app, public, running, rows, live, missed, upc, requests>>
    BY <1>7 DEF StopSend, stopFrame
  <2>4. QED
    BY <2>1, <2>2, <2>3
<1>8. CASE DeleteRuntime
  BY <1>8, RemovedLess DEF DeleteRuntime, stopFrame
<1>9. CASE DeleteApp
  BY <1>9 DEF DeleteApp, stopFrame
<1>10. CASE SendDelete
  BY <1>10 DEF SendDelete, EndStop, stopFrame
<1>11. CASE DropStop
  <2>1. missed' \in BOOLEAN
    BY <1>11 DEF DropStop
  <2>2. QED
    BY <1>11, <2>1 DEF DropStop, EndStop, stopFrame
<1>12. QED
  BY <1>1, <1>2, <1>3, <1>4, <1>5, <1>6, <1>7, <1>8, <1>9, <1>10, <1>11
  DEF Handler

\* A deployment that was saved stays so while the worker goes on.
LEMMA SavedStays ==
  ASSUME UNCHANGED started,
         \/ UNCHANGED <<wpc, cur>>
         \/ wpc \in {"stopOld", "create"} /\ UNCHANGED cur
                /\ wpc' \in {"create", "save"}
         \/ wpc' \in {"idle", "send", "removeOld", "mark"},
         NEW d, Saved(d)
  PROVE  Saved(d)'
  BY DEF Saved

\* The worker's final save, the handlers' copies and the deletion are what
\* RolloutInv is about.
LEMMA RolloutWorker ==
  ASSUME RoutesTypeOK, RolloutInv, Worker
  PROVE  RolloutInv'
<1>0. UNCHANGED <<dpc, stop>>
  BY WorkerFrame
<1>1. ASSUME \A d : Saved(d) => Saved(d)',
             wpc' # "idle" => cur' \in started',
             \A d \in running' \ running : Saved(d)',
             \A c \in rows' \ rows : Saved(c[1])'
      PROVE  RolloutInv'
  BY <1>0, <1>1 DEF RolloutInv, Of
<1>2. ASSUME NEW d \in Deps, NEW g \in Strategies, StartRollout(d, g)
      PROVE  RolloutInv'
  <2>1. /\ wpc = "idle" /\ d \notin started /\ started' = started \cup {d}
        /\ cur' = d /\ UNCHANGED <<running, rows>>
    BY <1>2 DEF StartRollout
  <2>2. \A e : Saved(e) => Saved(e)'
    BY <2>1 DEF Saved
  <2>3. QED
    BY <1>1, <2>1, <2>2
<1>3. CASE StopOld \/ CreateContainers
  <2>1. /\ wpc \in {"stopOld", "create"} /\ wpc' \in {"create", "save"}
        /\ UNCHANGED <<cur, started, running, rows>>
    BY <1>3 DEF StopOld, CreateContainers
  <2>2. \A d : Saved(d) => Saved(d)'
    BY <2>1, SavedStays
  <2>3. QED
    BY <1>1, <2>1, <2>2 DEF RolloutInv
<1>4. CASE RolloutFails \/ SendProxyRefresh \/ RemoveOld \/ MarkStopped
  <2>1. /\ wpc' \in {"idle", "removeOld", "mark"}
        /\ wpc' # "idle" => wpc # "idle" /\ UNCHANGED cur
        /\ running' \subseteq running
        /\ UNCHANGED <<started, rows>>
    BY <1>4 DEF RolloutFails, SendProxyRefresh, RemoveOld, MarkStopped,
       EndRollout
  <2>2. \A d : Saved(d) => Saved(d)'
    BY <2>1, SavedStays
  <2>3. QED
    BY <1>1, <2>1, <2>2 DEF RolloutInv
<1>5. CASE SaveRunning
  <2>1. /\ wpc = "save" /\ UNCHANGED started
        /\ \/ /\ running' = running \cup {cur} /\ rows' = rows \cup Of(cur)
              /\ wpc' = "send" /\ UNCHANGED cur
           \/ wpc' = "idle" /\ UNCHANGED <<running, rows>>
    BY <1>5 DEF SaveRunning, EndRollout
  <2>2. \A d : Saved(d) => Saved(d)'
    BY <2>1, SavedStays
  <2>3. wpc' = "send" => Saved(cur)' /\ cur' \in started'
    BY <2>1 DEF Saved, RolloutInv
  <2>4. \A c \in Of(cur) : c[1] = cur
    BY OfDep
  <2>5. QED
    BY <1>1, <2>1, <2>2, <2>3, <2>4
<1>6. QED
  BY <1>2, <1>3, <1>4, <1>5 DEF Worker

\* The handler's copy of a deployment row is of one that was saved.
LEMMA RolloutHandler ==
  ASSUME RoutesTypeOK, RolloutInv, Handler
  PROVE  RolloutInv'
<1>0. UNCHANGED <<wpc, cur, started>> /\ \A d : Saved(d)' <=> Saved(d)
  <2>1. UNCHANGED <<wpc, cur, started>>
    BY HandlerFrame
  <2>2. QED
    BY <2>1 DEF Saved
<1>1. ASSUME running' \subseteq running, rows' \subseteq rows,
             \/ UNCHANGED <<dpc, stop>>
             \/ dpc' = "idle"
             \/ dpc # "idle" /\ dpc' # "docker" /\ stop' = stop
                    /\ (dpc' = "persist" => dpc = "docker")
      PROVE  RolloutInv'
  BY <1>0, <1>1 DEF RolloutInv
<1>2. ASSUME AfterStop, dpc # "idle"
      PROVE  dpc' = "idle" \/ (dpc' = "runtime" /\ stop' = stop)
  BY <1>2 DEF AfterStop, EndStop
<1>3. CASE (\E s \in Services : UpdateService(s)) \/ SendUpdate \/ DropUpdate
  BY <1>1, <1>3 DEF UpdateService, SendUpdate, DropUpdate, dataVars
<1>4. ASSUME NEW op \in {"stop", "delete"}, NEW s \in Services, NEW d \in Deps,
             StopRequest(op, s, d)
      PROVE  RolloutInv'
  <2>1. /\ stop' = [op |-> op, svc |-> s, dep |-> d, run |-> d \in running,
                    ids |-> rows \cap Of(d), pub |-> s \in public]
        /\ dpc' = "docker" /\ UNCHANGED <<running, rows>>
    BY <1>4 DEF StopRequest, dataVars
  <2>2. stop' \in StopJobs
    <3>1. rows \cap Of(d) \in SUBSET Containers
      BY DEF RoutesTypeOK
    <3>2. (d \in running) \in BOOLEAN /\ (s \in public) \in BOOLEAN
      OBVIOUS
    <3>3. QED
      BY <2>1, <3>1, <3>2 DEF StopJobs
  <2>3. /\ stop'.dep = d /\ stop'.ids = rows \cap Of(d)
        /\ stop'.run <=> d \in running
    BY <2>1
  <2>4. \A c \in Of(d) : c[1] = d
    BY OfDep
  <2>5. /\ stop'.run => Saved(stop'.dep)
        /\ stop'.ids \subseteq Of(stop'.dep)
        /\ stop'.ids # {} => Saved(stop'.dep)
    BY <2>3, <2>4 DEF RolloutInv
  <2>6. QED
    BY <1>0, <2>1, <2>2, <2>5 DEF RolloutInv
<1>5. CASE StopDocker
  <2>1. dpc = "docker" /\ UNCHANGED <<running, rows>>
    BY <1>5 DEF StopDocker
  <2>2. (dpc' = "persist" /\ stop' = stop) \/ AfterStop
    BY <1>5 DEF StopDocker
  <2>3. QED
    BY <1>1, <1>2, <2>1, <2>2
<1>6. CASE StopPersist
  <2>1. /\ dpc = "persist"
        /\ running' \subseteq running \cup {stop.dep}
        /\ stop.run \/ running' \subseteq running
        /\ rows' \subseteq rows \cup stop.ids
    BY <1>6 DEF StopPersist
  <2>2. dpc' = "idle" \/ (dpc' \in {"stopSend", "runtime"} /\ stop' = stop)
    BY <1>2, <1>6 DEF StopPersist
  <2>3. /\ stop.run => Saved(stop.dep)
        /\ stop.ids \subseteq Of(stop.dep)
        /\ stop.ids # {} => Saved(stop.dep)
        /\ stop \in StopJobs
    BY <2>1 DEF RolloutInv
  <2>4. \A c \in stop.ids : Saved(c[1])
    BY <2>3, OfDep
  <2>5. /\ \A d \in running' : Saved(d)'
        /\ \A c \in rows' : Saved(c[1])'
    BY <1>0, <2>1, <2>3, <2>4 DEF RolloutInv
  <2>6. QED
    BY <1>0, <2>2, <2>3, <2>5 DEF RolloutInv
<1>7. CASE StopSend \/ SendDelete \/ DropStop
  <2>1. dpc # "idle" /\ UNCHANGED <<running, rows>>
    BY <1>7 DEF StopSend, SendDelete, DropStop, dataVars
  <2>2. dpc' = "idle" \/ (dpc' = "runtime" /\ stop' = stop)
    BY <1>2, <1>7, <2>1 DEF StopSend, SendDelete, DropStop, EndStop
  <2>3. QED
    BY <1>1, <2>1, <2>2
<1>8. CASE DeleteRuntime \/ DeleteApp
  <2>1. /\ dpc # "idle" /\ dpc' \in {"delete", "send"} /\ stop' = stop
        /\ running' \subseteq running /\ rows' \subseteq rows
    BY <1>8 DEF DeleteRuntime, DeleteApp
  <2>2. QED
    BY <1>1, <2>1
<1>9. QED
  BY <1>3, <1>4, <1>5, <1>6, <1>7, <1>8 DEF Handler

\* The types and the rollout are kept by every step.
LEMMA TypeStep ==
  ASSUME RoutesTypeOK, RolloutInv, [RoutesNext]_routesVars
  PROVE  RoutesTypeOK' /\ RolloutInv'
<1>1. CASE Loop \/ Loader
  <2>1. UNCHANGED <<running, rows, wpc, cur, started, dpc, stop>>
    BY <1>1, RefreshFrame
  <2>2. QED
    BY <1>1, <2>1, RefreshType DEF RolloutInv, Saved
<1>2. CASE UNCHANGED routesVars
  BY <1>2 DEF RoutesTypeOK, RolloutInv, Saved, routesVars, dataVars, workerVars,
     userVars, refreshVars, routeVars, seenVars
<1>3. QED
  BY <1>1, <1>2, WorkerType, HandlerType, RolloutWorker, RolloutHandler
  DEF RoutesNext

\* A container is known to nobody before CreateContainers.
LEMMA ContainerStep ==
  ASSUME RoutesTypeOK, RolloutInv, ContainerInv, [RoutesNext]_routesVars
  PROVE  ContainerInv'
<1> USE DEF ContainerInv, NotYet
<1>1. ASSUME live' \subseteq live,
             UNCHANGED <<wpc, cur, started, listed, ups>>
      PROVE  ContainerInv'
  BY <1>1
<1>2. CASE Worker
  <2>0. UNCHANGED <<listed, ups>>
    BY <1>2, WorkerFrame
  <2>1. ASSUME NEW d \in Deps, NEW g \in Strategies, StartRollout(d, g)
        PROVE  ContainerInv'
    BY <2>0, <2>1 DEF StartRollout
  <2>2. CASE StopOld
    BY <2>0, <2>2, RemovedLess DEF StopOld
  <2>3. CASE CreateContainers
    <3>1. /\ wpc = "create" /\ wpc' = "save" /\ live' = live \cup Of(cur)
          /\ UNCHANGED <<cur, started>>
      BY <2>3 DEF CreateContainers
    <3>2. cur \in started
      BY <3>1 DEF RolloutInv
    <3>3. \A c \in Of(cur) : c[1] = cur
      BY OfDep
    <3>4. QED
      BY <2>0, <3>1, <3>2, <3>3
  <2>4. CASE RolloutFails
    <3>1. live' \subseteq live /\ wpc' = "idle" /\ UNCHANGED started
      BY <2>4, RemovedLess DEF RolloutFails, EndRollout
    <3>2. QED
      BY <2>0, <3>1
  <2>5. CASE SaveRunning \/ SendProxyRefresh \/ RemoveOld \/ MarkStopped
    <3>1. /\ live' \subseteq live /\ UNCHANGED started
          /\ wpc' \notin {"stopOld", "create"}
      BY <2>5, RemovedLess DEF SaveRunning, SendProxyRefresh, RemoveOld,
         MarkStopped, EndRollout
    <3>2. QED
      BY <2>0, <3>1
  <2>6. QED
    BY <1>2, <2>1, <2>2, <2>3, <2>4, <2>5 DEF Worker
<1>3. CASE Loop \/ Loader
  <2>0. UNCHANGED <<live, wpc, cur, started>>
    BY <1>3, RefreshFrame
  <2> USE DEF RoutesTypeOK, Refreshers, Finish, GotoR, RemoveAll, routeVars
  <2>1. CASE Receive \/ ScanContainers
    BY <1>1, <2>0, <2>1 DEF Receive, ScanContainers
  <2>2. ASSUME NEW r \in Refreshers, GetApp(r) PROVE ContainerInv'
    BY <2>0, <2>2 DEF GetApp
  <2>3. ASSUME NEW r \in Refreshers, GetRunning(r) PROVE ContainerInv'
    BY <2>0, <2>3 DEF GetRunning
  <2>4. ASSUME NEW r \in Refreshers, ListContainers(r) PROVE ContainerInv'
    BY <2>0, <2>4 DEF ListContainers
  <2>5. ASSUME NEW r \in Refreshers, RemoveAppRoutes(r) PROVE ContainerInv'
    BY <2>0, <2>5 DEF RemoveAppRoutes
  <2>6. ASSUME NEW r \in Refreshers, NEW s \in Services, InstallRoute(r, s)
        PROVE  ContainerInv'
    <3>1. \A q \in Refreshers : listed'[q] \subseteq listed[q]
      BY <2>6 DEF InstallRoute
    <3>2. \A q \in Services : ups'[q] \subseteq ups[q] \cup live
      BY <2>6 DEF InstallRoute
    <3>3. QED
      BY <2>0, <3>1, <3>2
  <2>7. QED
    BY <1>3, <2>1, <2>2, <2>3, <2>4, <2>5, <2>6
    DEF Loop, Loader, Refresh, Refreshers
<1>4. CASE Handler
  <2>1. live' \subseteq live
    BY <1>4, RemovedLess DEF Handler, UpdateService, SendUpdate, DropUpdate,
       StopRequest, StopDocker, StopPersist, StopSend, DeleteRuntime, DeleteApp,
       SendDelete, DropStop, dataVars
  <2>2. QED
    BY <1>1, <1>4, <2>1, HandlerFrame
<1>5. CASE UNCHANGED routesVars
  BY <1>1, <1>5 DEF routesVars, dataVars, workerVars, refreshVars, routeVars
<1>6. QED
  BY <1>2, <1>3, <1>4, <1>5 DEF RoutesNext

\* A step after which a refresh is owed proves nothing about the routes.
LEMMA OwedStep ==
  ASSUME LoopInv, UNCHANGED <<rpc, seenPub, todo>>, Pending'
  PROVE  LoopInv' /\ RoutesSettle'
  BY DEF LoopInv, RoutesSettle, Quiet, Pending

\* Nor does one after which a refresh was lost.
LEMMA LostStep ==
  ASSUME LoopInv, UNCHANGED <<rpc, seenPub, todo>>, missed'
  PROVE  LoopInv' /\ RoutesSettle'
  BY DEF LoopInv, RoutesSettle, Undisturbed

\* A step that leaves the refreshers and the settings alone, takes at most
\* names away from the newest Running deployment's row, and adds only
\* containers nobody has heard of, keeps the routes as right as they were.
LEMMA CalmStep ==
  ASSUME ContainerInv, LoopInv, RoutesSettle, RoutesTypeOK,
         UNCHANGED <<app, public, routed, ups, writer, rpc, seenPub, seenIds,
                     listed, todo, missed>>,
         Pending => Pending',
         Named' \subseteq Named,
         \A s \in Services : For(s, Named') # {} => For(s, Named') = For(s, Named),
         \A c \in live' \ live : NotYet(c) /\ c \notin Named'
  PROVE  LoopInv' /\ RoutesSettle'
<1>1. ASSUME NEW s \in Services, RoutedRight(s) PROVE RoutedRight(s)'
  <2>1. CASE ~(app /\ s \in public)
    BY <1>1, <2>1 DEF RoutedRight
  <2>2. CASE app /\ s \in public
    <3>1. s \in routed'
      BY <1>1, <2>2 DEF RoutedRight
    <3>2. ASSUME For(s, Named') # {}
          PROVE  Reached(s)' = For(s, Named') \cap live'
      <4>1. For(s, Named') = For(s, Named) /\ Reached(s) = For(s, Named) \cap live
        BY <1>1, <2>2, <3>2 DEF RoutedRight
      <4>2. \A c \in live' \ live : c \notin ups[s]
        BY DEF ContainerInv
      <4>3. \A c \in live' \ live : c \notin For(s, Named')
        BY DEF For
      <4>4. For(s, Named') \cap live' \subseteq live
        BY <4>3
      <4>5. ups[s] \cap live' \subseteq live
        BY <4>2
      <4>6. ups[s] \cap live = For(s, Named') \cap live
        BY <4>1 DEF Reached
      <4>7. ups[s] \cap live' = For(s, Named') \cap live'
        BY <4>4, <4>5, <4>6
      <4>8. QED
        BY <4>7 DEF Reached
    <3>3. QED
      BY <2>2, <3>1, <3>2 DEF RoutedRight
  <2>3. QED
    BY <2>1, <2>2
<1>2. \A s \in Services : Undisturbed(s)' <=> Undisturbed(s)
  BY DEF Undisturbed
<1>3. Quiet' => Quiet
  <2>1. chan \in Nat
    BY DEF RoutesTypeOK
  <2>2. Quiet' => ~Pending'
    BY DEF Quiet, Pending
  <2>3. ~Pending => chan = 0 /\ ~AboutToSend
    BY <2>1 DEF Pending
  <2>4. QED
    BY <2>2, <2>3 DEF Quiet
<1>4. RoutesSettle'
  BY <1>1, <1>2, <1>3 DEF RoutesSettle
<1>5. LoopInv'
  <2>1. rpc'["loop"] = "add" => todo'["loop"] \subseteq seenPub'["loop"]
    BY DEF LoopInv
  <2> SUFFICES ASSUME ~Pending', ~missed'
               PROVE  LoopInv'
    BY <2>1 DEF LoopInv
  <2>2. ~Pending /\ ~missed
    OBVIOUS
  <2>3. rpc'["loop"] \in {"runs", "list", "remove", "add"} =>
          app' /\ seenPub'["loop"] = public'
    BY <2>2 DEF LoopInv
  <2>4. ASSUME rpc'["loop"] \in {"list", "remove", "add"}, NEW s \in Services,
               For(s, Named') # {}
        PROVE  For(s, seenIds'["loop"]) = For(s, Named')
    <3>1. For(s, Named) # {} /\ For(s, Named') = For(s, Named)
      BY <2>4
    <3>2. For(s, seenIds["loop"]) = For(s, Named)
      BY <2>2, <2>4, <3>1 DEF LoopInv
    <3>3. QED
      BY <3>1, <3>2
  <2>5. ASSUME rpc'["loop"] \in {"remove", "add"}
        PROVE  Named' \cap live' \subseteq listed'["loop"]
    <3>1. Named \cap live \subseteq listed["loop"]
      BY <2>2, <2>5 DEF LoopInv
    <3>2. Named' \cap live' \subseteq Named \cap live
      OBVIOUS
    <3>3. QED
      BY <3>1, <3>2
  <2>6. ASSUME rpc'["loop"] = "add", NEW s \in Services \ todo'["loop"],
               Undisturbed(s)'
        PROVE  RoutedRight(s)'
    BY <1>1, <1>2, <2>2, <2>6 DEF LoopInv
  <2>7. QED
    BY <2>1, <2>3, <2>4, <2>5, <2>6 DEF LoopInv
<1>6. QED
  BY <1>4, <1>5

\* The worker's steps keep the routes right, owe a refresh or lose one.
LEMMA WorkerRoutes ==
  ASSUME RoutesInv, Worker
  PROVE  LoopInv' /\ RoutesSettle'
<1> USE DEF RoutesInv
<1>0. /\ UNCHANGED <<app, public, routed, ups, writer, rpc, seenPub, seenIds,
                     listed, todo, upc, dpc>>
      /\ chan \in Nat
  BY WorkerFrame DEF RoutesTypeOK
<1>1. ASSUME wpc # "send", UNCHANGED <<chan, running, rows, missed>>,
             \A c \in live' \ live : NotYet(c) /\ c \notin rows
      PROVE  LoopInv' /\ RoutesSettle'
  <2>1. Pending => Pending'
    BY <1>0, <1>1 DEF Pending, AboutToSend
  <2>2. Named' = Named /\ Named \subseteq rows
    BY <1>1 DEF Named, Newest
  <2>3. QED
    BY <1>0, <1>1, <2>1, <2>2, CalmStep
<1>2. ASSUME NEW d \in Deps, NEW g \in Strategies, StartRollout(d, g)
      PROVE  LoopInv' /\ RoutesSettle'
  BY <1>1, <1>2 DEF StartRollout, workerFrame
<1>3. CASE StopOld \/ RemoveOld \/ RolloutFails
  <2>1. wpc # "send" /\ UNCHANGED <<chan, running, rows, missed>>
    BY <1>3 DEF StopOld, RemoveOld, RolloutFails, workerFrame
  <2>2. live' \subseteq live
    BY <1>3, RemovedLess DEF StopOld, RemoveOld, RolloutFails
  <2>3. QED
    BY <1>1, <2>1, <2>2
<1>4. CASE CreateContainers
  <2>1. /\ wpc = "create" /\ live' = live \cup Of(cur)
        /\ UNCHANGED <<chan, running, rows, missed>>
    BY <1>4 DEF CreateContainers, workerFrame
  <2>2. \A c \in rows : c[1] # cur
    BY <2>1 DEF RolloutInv, Saved
  <2>3. \A c \in Of(cur) : NotYet(c) /\ c \notin rows
    BY <2>1, <2>2, OfDep DEF NotYet
  <2>4. QED
    BY <1>1, <2>1, <2>3
<1>5. CASE SaveRunning
  <2>1. CASE app
    <3>1. wpc' = "send"
      BY <1>5, <2>1 DEF SaveRunning
    <3>2. Pending'
      BY <3>1 DEF Pending, AboutToSend
    <3>3. QED
      BY <1>0, <3>2, OwedStep
  <2>2. CASE ~app
    BY <1>1, <1>5, <2>2 DEF SaveRunning, workerFrame
  <2>3. QED
    BY <2>1, <2>2
<1>6. CASE SendProxyRefresh
  <2>1. chan' > 0
    BY <1>0, <1>6 DEF SendProxyRefresh, Send
  <2>2. QED
    BY <1>0, <2>1, OwedStep DEF Pending
<1>7. CASE MarkStopped
  <2>1. /\ wpc = "mark" /\ running' = running \ old
        /\ UNCHANGED <<live, chan, rows>>
    BY <1>7 DEF MarkStopped
  <2>2. CASE missed'
    BY <1>0, <2>2, LostStep
  <2>3. CASE ~missed'
    <3>1. Newest \notin old /\ ~missed
      BY <1>7, <2>3 DEF MarkStopped
    <3>2. UNCHANGED missed
      BY <1>7, <2>3, <3>1 DEF RoutesTypeOK, MarkStopped
    <3>3. running \in SUBSET Deps /\ 0 \notin Deps
      BY DEF RoutesTypeOK, Deps
    <3>4. Newest' = Newest
      BY <2>1, <3>1, <3>3, NewestStays
    <3>5. Named' = Named
      BY <2>1, <3>4 DEF Named
    <3>6. Pending => Pending'
      BY <1>0, <2>1 DEF Pending, AboutToSend
    <3>7. QED
      BY <1>0, <2>1, <3>2, <3>5, <3>6, CalmStep
  <2>4. QED
    BY <2>2, <2>3
<1>8. QED
  BY <1>2, <1>3, <1>4, <1>5, <1>6, <1>7 DEF Worker

\* The handlers' steps keep the routes right, owe a refresh or lose one.
LEMMA HandlerRoutes ==
  ASSUME RoutesInv, Handler
  PROVE  LoopInv' /\ RoutesSettle'
<1> USE DEF RoutesInv
<1>0. /\ UNCHANGED <<wpc, cur, old, started, routed, ups, writer, rpc, seenPub,
                     seenIds, listed, todo>>
      /\ chan \in Nat
  BY HandlerFrame DEF RoutesTypeOK
<1>1. CASE \/ \E s \in Services : UpdateService(s)
           \/ SendUpdate \/ StopSend \/ DeleteApp \/ SendDelete
  <2>1. upc' = "send" \/ dpc' = "send" \/ chan' > 0
    BY <1>0, <1>1 DEF UpdateService, SendUpdate, StopSend, DeleteApp,
       SendDelete, Send
  <2>2. QED
    BY <1>0, <2>1, OwedStep DEF Pending, AboutToSend
<1>2. CASE DropUpdate
  <2>1. missed'
    BY <1>2 DEF DropUpdate
  <2>2. QED
    BY <1>0, <2>1, LostStep
<1>3. ASSUME live' \subseteq live, dpc \notin {"stopSend", "send"},
             UNCHANGED <<app, public, running, rows, chan, upc, missed>>
      PROVE  LoopInv' /\ RoutesSettle'
  <2>1. Pending => Pending'
    BY <1>0, <1>3 DEF Pending, AboutToSend
  <2>2. Named' = Named
    BY <1>3 DEF Named, Newest
  <2>3. QED
    BY <1>0, <1>3, <2>1, <2>2, CalmStep
<1>4. CASE \E op \in {"stop", "delete"}, s \in Services, d \in Deps :
             StopRequest(op, s, d)
  BY <1>3, <1>4 DEF StopRequest, dataVars
<1>5. CASE StopDocker \/ DeleteRuntime
  <2>1. live' \subseteq live
    BY <1>5, RemovedLess DEF StopDocker, DeleteRuntime
  <2>2. /\ dpc \notin {"stopSend", "send"}
        /\ UNCHANGED <<app, public, running, rows, chan, upc, missed>>
    BY <1>5 DEF StopDocker, DeleteRuntime, stopFrame
  <2>3. QED
    BY <1>3, <2>1, <2>2
<1>6. CASE StopPersist
  <2>0. /\ dpc = "persist" /\ UNCHANGED <<app, public, live, chan, upc>>
    BY <1>6 DEF StopPersist, stopFrame
  <2>1. CASE missed'
    BY <1>0, <2>1, LostStep
  <2>2. CASE ~missed'
    <3>1. ~Stale /\ ~missed /\ UNCHANGED missed
      BY <1>6, <2>2 DEF StopPersist, RoutesTypeOK
    <3>2. /\ stop.run <=> stop.dep \in running
          /\ stop.ids = rows \cap Of(stop.dep)
      <4>1. stop.run \in BOOLEAN
        BY <2>0 DEF RolloutInv, StopJobs
      <4>2. QED
        BY <3>1, <4>1 DEF Stale
    <3>3. running' = running
      BY <1>6, <3>2 DEF StopPersist
    <3>4. rows' = rows \ {<<stop.dep, stop.svc>>}
      <4>1. rows' = (rows \ Of(stop.dep))
                       \cup (stop.ids \ {<<stop.dep, stop.svc>>})
        BY <1>6 DEF StopPersist
      <4>2. <<stop.dep, stop.svc>> \in Of(stop.dep)
        BY <2>0 DEF RolloutInv, StopJobs, Of, Containers
      <4>3. QED
        BY <3>2, <4>1, <4>2
    <3>5. Named' \subseteq Named /\ Named \ Named' \subseteq {<<stop.dep, stop.svc>>}
      BY <3>3, <3>4 DEF Named, Newest
    <3>6. Named \subseteq Containers
      BY DEF Named, RoutesTypeOK
    <3>7. ASSUME NEW s \in Services, For(s, Named') # {}
          PROVE  For(s, Named') = For(s, Named)
      <4>1. PICK c \in Named' : c[2] = s
        BY <3>7 DEF For
      <4>2. \A b \in Named : b = <<b[1], b[2]>> /\ b[1] = Newest
        BY <3>6 DEF Named, Containers
      <4>3. \A b \in Named : b[2] = s => b = c
        BY <3>5, <4>1, <4>2
      <4>4. QED
        BY <3>5, <4>1, <4>3 DEF For
    <3>8. Pending => Pending'
      BY <1>0, <2>0 DEF Pending, AboutToSend
    <3>9. QED
      BY <1>0, <2>0, <3>1, <3>5, <3>7, <3>8, CalmStep
  <2>3. QED
    BY <2>1, <2>2
<1>7. CASE DropStop
  <2>1. CASE missed'
    BY <1>0, <2>1, LostStep
  <2>2. CASE ~missed'
    BY <1>3, <1>7, <2>2 DEF DropStop, RoutesTypeOK, dataVars, stopFrame
  <2>3. QED
    BY <2>1, <2>2
<1>8. QED
  BY <1>1, <1>2, <1>4, <1>5, <1>6, <1>7 DEF Handler

\* The refreshers' steps: the loop brings the routes up to date, and what the
\* loader writes is no longer the loop's.
LEMMA RefreshRoutes ==
  ASSUME RoutesInv, Loop \/ Loader
  PROVE  LoopInv' /\ RoutesSettle'
<1> USE DEF RoutesInv, Refreshers
<1>0. /\ UNCHANGED <<app, public, running, rows, live, wpc, upc, dpc>>
      /\ Named' = Named
  <2>1. UNCHANGED <<app, public, running, rows, live, wpc, upc, dpc>>
    BY RefreshFrame
  <2>2. QED
    BY <2>1 DEF Named, Newest
<1>1. ASSUME missed', rpc'["loop"] # "add" PROVE LoopInv' /\ RoutesSettle'
  BY <1>1 DEF LoopInv, RoutesSettle, Undisturbed
<1>2. CASE Receive
  <2>1. CASE missed'
    BY <1>1, <1>2, <2>1 DEF Receive, GotoR, RoutesTypeOK
  <2>2. CASE ~missed'
    <3>1. rpc'["loop"] = "app"
      BY <1>2, <2>2 DEF Receive, GotoR, RoutesTypeOK
    <3>2. QED
      BY <3>1 DEF LoopInv, RoutesSettle, Quiet
  <2>3. QED
    BY <2>1, <2>2
<1>3. CASE GetApp("loop")
  <2>1. CASE missed'
    <3>1. rpc'["loop"] # "add"
      BY <1>3 DEF GetApp, GotoR, Finish, RoutesTypeOK
    <3>2. QED
      BY <1>1, <2>1, <3>1
  <2>2. CASE ~missed'
    <3>1. \/ app /\ rpc'["loop"] = "runs" /\ seenPub'["loop"] = public
          \/ ~app /\ rpc'["loop"] = "idle" /\ routed' = {}
      BY <1>3, <2>2 DEF GetApp, GotoR, Finish, RemoveAll, Miss, RoutesTypeOK
    <3>2. CASE app /\ rpc'["loop"] = "runs" /\ seenPub'["loop"] = public
      BY <1>0, <3>2 DEF LoopInv, RoutesSettle, Quiet
    <3>3. CASE ~app /\ rpc'["loop"] = "idle" /\ routed' = {}
      BY <1>0, <3>3 DEF LoopInv, RoutesSettle, RoutedRight
    <3>4. QED
      BY <3>1, <3>2, <3>3
  <2>3. QED
    BY <2>1, <2>2
<1>4. CASE GetRunning("loop")
  <2>1. rpc["loop"] = "runs" /\ rpc'["loop"] = "list" /\ UNCHANGED <<chan, seenPub>>
    BY <1>4 DEF GetRunning, GotoR, RoutesTypeOK
  <2>2. CASE missed'
    BY <1>1, <2>1, <2>2
  <2>3. CASE ~missed'
    <3>1. seenIds'["loop"] = Named /\ UNCHANGED missed
      BY <1>4, <2>3 DEF GetRunning, Miss, RoutesTypeOK
    <3>2. Pending' <=> Pending
      BY <1>0, <2>1 DEF Pending, AboutToSend
    <3>3. QED
      BY <1>0, <2>1, <3>1, <3>2 DEF LoopInv, RoutesSettle, Quiet
  <2>4. QED
    BY <2>2, <2>3
<1>5. CASE ListContainers("loop")
  <2>1. CASE missed'
    <3>1. rpc'["loop"] # "add"
      BY <1>5 DEF ListContainers, GotoR, Finish, RoutesTypeOK
    <3>2. QED
      BY <1>1, <2>1, <3>1
  <2>2. CASE ~missed'
    <3>1. /\ rpc["loop"] = "list" /\ rpc'["loop"] = "remove"
          /\ listed'["loop"] = live
          /\ UNCHANGED <<chan, missed, seenPub, seenIds>>
      BY <1>5, <2>2 DEF ListContainers, GotoR, Miss, RoutesTypeOK, seenVars
    <3>2. Pending' <=> Pending
      BY <1>0, <3>1 DEF Pending, AboutToSend
    <3>3. QED
      BY <1>0, <3>1, <3>2 DEF LoopInv, RoutesSettle, Quiet
  <2>3. QED
    BY <2>1, <2>2
<1>6. CASE RemoveAppRoutes("loop")
  <2>1. /\ rpc["loop"] = "remove" /\ routed' = {}
        /\ todo'["loop"] = seenPub["loop"]
        /\ UNCHANGED <<chan, missed>>
        /\ \/ seenPub["loop"] = {} /\ rpc'["loop"] = "idle"
           \/ /\ rpc'["loop"] = "add"
              /\ UNCHANGED <<seenPub, seenIds, listed>>
    BY <1>6 DEF RemoveAppRoutes, RemoveAll, GotoR, Finish, RoutesTypeOK, seenVars
  <2>2. Pending' <=> Pending
    BY <1>0, <2>1 DEF Pending, AboutToSend
  <2>3. \A s \in Services : s \notin seenPub["loop"] /\ ~Pending /\ ~missed
                               => RoutedRight(s)'
    BY <1>0, <2>1 DEF LoopInv, RoutedRight
  <2>4. RoutesSettle'
    <3>1. CASE rpc'["loop"] = "add"
      BY <3>1 DEF RoutesSettle, Quiet
    <3>2. CASE seenPub["loop"] = {} /\ rpc'["loop"] = "idle"
      <4>1. Quiet' => ~Pending'
        BY DEF Quiet, Pending
      <4>2. QED
        BY <2>1, <2>2, <2>3, <3>2, <4>1 DEF RoutesSettle, Undisturbed
    <3>3. QED
      BY <2>1, <3>1, <3>2
  <2>5. LoopInv'
    <3>1. CASE rpc'["loop"] = "idle"
      BY <3>1 DEF LoopInv
    <3>2. CASE /\ rpc'["loop"] = "add"
               /\ UNCHANGED <<seenPub, seenIds, listed>>
      BY <1>0, <2>1, <2>2, <2>3, <3>2 DEF LoopInv
    <3>3. QED
      BY <2>1, <3>1, <3>2
  <2>6. QED
    BY <2>4, <2>5
<1>7. ASSUME NEW s \in Services, InstallRoute("loop", s)
      PROVE  LoopInv' /\ RoutesSettle'
  <2>1. /\ rpc["loop"] = "add" /\ s \in todo["loop"]
        /\ routed' = routed \cup {s}
        /\ \A q \in Services \ {s} : writer'[q] = writer[q] /\ ups'[q] = ups[q]
        /\ todo'["loop"] = todo["loop"] \ {s}
        /\ UNCHANGED chan
    BY <1>7 DEF InstallRoute, RoutesTypeOK
  <2>2. \/ todo["loop"] = {s} /\ rpc'["loop"] = "idle"
        \/ /\ todo["loop"] # {s} /\ rpc'["loop"] = "add"
           /\ UNCHANGED <<seenPub, seenIds, listed>>
    BY <1>7, <2>1 DEF InstallRoute, Finish, GotoR, RoutesTypeOK, seenVars
  <2>3. rpc'["loop"] = "add" => todo'["loop"] \subseteq seenPub'["loop"]
    BY <2>1, <2>2 DEF LoopInv
  <2>4. CASE missed'
    BY <2>3, <2>4 DEF LoopInv, RoutesSettle, Undisturbed
  <2>5. CASE ~missed' /\ Pending'
    BY <2>3, <2>5 DEF LoopInv, RoutesSettle, Quiet, Pending
  <2>6. CASE ~missed' /\ ~Pending'
    <3>1. ~missed /\ ups'[s] = Candidates("loop", s) \cap live
      <4>1. ~Miss("loop")
        BY <2>6 DEF Miss
      <4>2. /\ ups' = [ups EXCEPT ![s] = Candidates("loop", s) \cap live]
            /\ UNCHANGED missed
        BY <1>7, <4>1 DEF InstallRoute
      <4>3. QED
        BY <2>6, <4>2 DEF RoutesTypeOK
    <3>2. ~Pending
      BY <1>0, <2>1, <2>6 DEF Pending, AboutToSend
    <3>3. /\ app /\ seenPub["loop"] = public /\ s \in public
          /\ For(s, Named) # {} => For(s, seenIds["loop"]) = For(s, Named)
          /\ Named \cap live \subseteq listed["loop"]
      BY <2>1, <3>1, <3>2 DEF LoopInv
    <3>4. RoutedRight(s)'
      <4>1. ASSUME For(s, Named) # {}
            PROVE  ups'[s] \cap live = For(s, Named) \cap live
        <5>1. Candidates("loop", s) = listed["loop"] \cap For(s, Named)
          BY <3>3, <4>1 DEF Candidates
        <5>2. For(s, Named) \cap live \subseteq listed["loop"]
          BY <3>3 DEF For
        <5>3. QED
          BY <3>1, <5>1, <5>2
      <4>2. QED
        BY <1>0, <2>1, <3>3, <4>1 DEF RoutedRight, Reached
    <3>5. \A q \in Services \ todo'["loop"] : Undisturbed(q)' => RoutedRight(q)'
      <4> SUFFICES ASSUME NEW q \in Services \ todo'["loop"], Undisturbed(q)',
                          q # s
                   PROVE  RoutedRight(q)'
        BY <3>4
      <4>1. q \in Services \ todo["loop"] /\ Undisturbed(q)
        BY <2>1, <3>1 DEF Undisturbed
      <4>2. RoutedRight(q)
        BY <2>1, <3>1, <3>2, <4>1 DEF LoopInv
      <4>3. QED
        BY <1>0, <2>1, <4>2 DEF RoutedRight, Reached
    <3>6. RoutesSettle'
      BY <2>1, <2>2, <3>5 DEF RoutesSettle, Quiet
    <3>7. LoopInv'
      <4>1. CASE rpc'["loop"] = "idle"
        BY <4>1 DEF LoopInv
      <4>2. CASE rpc'["loop"] = "add" /\ UNCHANGED <<seenPub, seenIds, listed>>
        BY <1>0, <2>1, <2>3, <3>1, <3>2, <3>5, <4>2 DEF LoopInv
      <4>3. QED
        BY <2>2, <4>1, <4>2
    <3>8. QED
      BY <3>6, <3>7
  <2>7. QED
    BY <2>4, <2>5, <2>6
<1>8. CASE Loader
  <2>1. /\ UNCHANGED <<chan, missed>>
        /\ rpc'["loop"] = rpc["loop"] /\ todo'["loop"] = todo["loop"]
        /\ seenPub'["loop"] = seenPub["loop"]
        /\ seenIds'["loop"] = seenIds["loop"]
        /\ listed'["loop"] = listed["loop"]
    BY <1>8 DEF Loader, Refresh, ScanContainers, GetApp, GetRunning,
       ListContainers, RemoveAppRoutes, InstallRoute, Finish, GotoR, Miss, RoutesTypeOK,
       seenVars
  <2>2. \A s \in Services :
           \/ writer'[s] = "loader"
           \/ /\ writer'[s] = writer[s] /\ ups'[s] = ups[s]
              /\ s \in routed' <=> s \in routed
    BY <1>8 DEF Loader, Refresh, ScanContainers, GetApp, GetRunning,
       ListContainers, RemoveAppRoutes, InstallRoute, RemoveAll, routeVars, RoutesTypeOK
  <2>3. \A s \in Services : Undisturbed(s)' =>
           Undisturbed(s) /\ (RoutedRight(s)' <=> RoutedRight(s))
    BY <1>0, <2>1, <2>2 DEF Undisturbed, RoutedRight, Reached
  <2>4. (Pending' <=> Pending) /\ (Quiet' <=> Quiet)
    BY <1>0, <2>1 DEF Pending, Quiet, AboutToSend
  <2>5. RoutesSettle'
    BY <2>3, <2>4 DEF RoutesSettle
  <2>6. LoopInv'
    BY <1>0, <2>1, <2>3, <2>4 DEF LoopInv
  <2>7. QED
    BY <2>5, <2>6
<1>9. QED
  BY <1>2, <1>3, <1>4, <1>5, <1>6, <1>7, <1>8 DEF Loop, Refresh

\* The whole invariant holds when containr starts ...
LEMMA InitRoutesInv == RoutesInit => RoutesInv
<1> SUFFICES ASSUME RoutesInit PROVE RoutesInv
  OBVIOUS
<1>1. /\ running \subseteq started /\ started \subseteq Deps
      /\ rows = {c \in Containers : c[1] \in running} /\ live = rows
  BY DEF RoutesInit
<1>2. wpc = "idle" /\ dpc = "idle"
  BY DEF RoutesInit
<1>3. RoutesTypeOK
  <2>1. rpc \in [Refreshers -> RefreshPcs]
    BY DEF RoutesInit, Refreshers, RefreshPcs
  <2>2. /\ ups \in [Services -> SUBSET Containers]
        /\ writer \in [Services -> Refreshers]
        /\ seenPub \in [Refreshers -> SUBSET Services]
        /\ seenIds \in [Refreshers -> SUBSET Containers]
        /\ listed \in [Refreshers -> SUBSET Containers]
        /\ todo \in [Refreshers -> SUBSET Services]
    BY DEF RoutesInit, Refreshers
  <2>3. /\ app \in BOOLEAN /\ missed \in BOOLEAN /\ public \subseteq Services
        /\ routed \subseteq Services /\ old \subseteq Deps
        /\ wpc \in WorkerPcs /\ upc = "idle" /\ dpc \in StopPcs
        /\ stop \in StopJobs \cup {NoStop}
    BY DEF RoutesInit, WorkerPcs, StopPcs
  <2>4. chan \in 0..Cap /\ cur \in 0..MaxDeps /\ requests \in 0..MaxRequests
    BY DEF RoutesInit
  <2>5. QED
    BY <1>1, <2>1, <2>2, <2>3, <2>4 DEF RoutesTypeOK
<1>4. RolloutInv
  BY <1>1, <1>2 DEF RolloutInv, Saved
<1>5. ContainerInv
  BY <1>1, <1>2 DEF RoutesInit, ContainerInv, NotYet, Refreshers
<1>6. LoopInv /\ RoutesSettle
  BY DEF RoutesInit, LoopInv, RoutesSettle, Undisturbed
<1>7. QED
  BY <1>3, <1>4, <1>5, <1>6 DEF RoutesInv

\* ... and every step keeps it.
LEMMA NextRoutesInv ==
  ASSUME RoutesInv, [RoutesNext]_routesVars
  PROVE  RoutesInv'
<1>1. RoutesTypeOK' /\ RolloutInv' /\ ContainerInv'
  BY TypeStep, ContainerStep DEF RoutesInv
<1>2. CASE UNCHANGED routesVars
  <2>1. UNCHANGED <<app, public, running, rows, live, wpc, upc, dpc, chan,
                    routed, ups, writer, rpc, seenPub, seenIds, listed, todo,
                    missed>>
    BY <1>2 DEF routesVars, dataVars, workerVars, userVars, refreshVars,
       routeVars, seenVars
  <2>2. Named' = Named /\ (Pending' <=> Pending)
    BY <2>1 DEF Named, Newest, Pending, AboutToSend
  <2>3. LoopInv' /\ RoutesSettle'
    BY <2>1, <2>2, CalmStep DEF RoutesInv
  <2>4. QED
    BY <1>1, <2>3 DEF RoutesInv
<1>3. CASE RoutesNext
  <2>1. LoopInv' /\ RoutesSettle'
    BY <1>1, <1>3, WorkerRoutes, HandlerRoutes, RefreshRoutes DEF RoutesNext
  <2>2. QED
    BY <1>1, <2>1 DEF RoutesInv
<1>4. QED
  BY <1>2, <1>3

\* refresh_routes_for_app and the message order of deploy_services and the
\* handlers: with jobs rolled out in any order, once every refresh asked for has
\* run undisturbed, each public domain reaches exactly the live containers that
\* the newest Running deployment names, private services and a deleted app
\* nothing.
THEOREM RoutesFollowDatabase == RoutesSpec => []RoutesSettle
<1>1. RoutesInit => RoutesInv
  BY InitRoutesInv
<1>2. RoutesInv /\ [RoutesNext]_routesVars => RoutesInv'
  BY NextRoutesInv
<1>3. RoutesInv => RoutesSettle
  BY DEF RoutesInv
<1>4. QED
  BY <1>1, <1>2, <1>3, PTL DEF RoutesSpec

\* The update channel never exceeds its capacity, and no container is known to
\* docker, a refresher or a route before the worker creates it.
THEOREM RoutesWellFormed == RoutesSpec => [](RoutesTypeOK /\ ContainerInv)
<1>1. RoutesInit => RoutesInv
  BY InitRoutesInv
<1>2. RoutesInv /\ [RoutesNext]_routesVars => RoutesInv'
  BY NextRoutesInv
<1>3. RoutesInv => RoutesTypeOK /\ ContainerInv
  BY DEF RoutesInv
<1>4. QED
  BY <1>1, <1>2, <1>3, PTL DEF RoutesSpec

HIDE Bounds

-----------------------------------------------------------------------------
(* Requests *)

\* A request that is being filtered or forwarded.
Busy == {"filter", "find", "auth", "verify", "select", "add", "upstream"}

-----------------------------------------------------------------------------
(* Arithmetic of the round-robin cursor, and least elements *)

\* The remainder is below the divisor.
LEMMA ModRange ==
  ASSUME NEW n \in Nat \ {0}, NEW c \in Nat
  PROVE  (c % n) \in 0 .. (n - 1)
OBVIOUS

\* Quotient and remainder make up the number.
LEMMA DivMod ==
  ASSUME NEW n \in Nat \ {0}, NEW c \in Nat
  PROVE  (c \div n) \in Nat /\ c = (n * (c \div n)) + (c % n)
<1>1. c = (n * (c \div n)) + (c % n)
  OBVIOUS
<1>2. (c \div n) \in Nat
  OBVIOUS
<1>3. QED
  BY <1>1, <1>2

\* The remainder of a multiple and a rest below the divisor is the rest.
LEMMA ModOfSum ==
  ASSUME NEW n \in Nat \ {0}, NEW q \in Nat, NEW r \in 0 .. (n - 1)
  PROVE  ((n * q) + r) % n = r
OBVIOUS

\* The next value of the cursor points at the next upstream, or at the first.
LEMMA ModSucc ==
  ASSUME NEW n \in Nat \ {0}, NEW c \in Nat
  PROVE  (c + 1) % n = IF (c % n) + 1 = n THEN 0 ELSE (c % n) + 1
<1> DEFINE q == c \div n
           r == c % n
<1>1. q \in Nat /\ c = (n * q) + r
  BY DivMod
<1>2. r \in 0 .. (n - 1)
  BY ModRange
<1>3. CASE r + 1 = n
  <2>1. n * (q + 1) = (n * q) + n
    BY <1>1
  <2>2. c + 1 = (n * (q + 1)) + 0
    BY <1>1, <1>2, <1>3, <2>1
  <2>3. ((n * (q + 1)) + 0) % n = 0
    <3> HIDE DEF q, r
    <3> QED
      BY <1>1, ModOfSum
  <2>4. QED
    BY <1>3, <2>2, <2>3
<1>4. CASE r + 1 # n
  <2>1. r + 1 \in 0 .. (n - 1) /\ c + 1 = (n * q) + (r + 1)
    BY <1>1, <1>2, <1>4
  <2>2. ((n * q) + (r + 1)) % n = r + 1
    <3> HIDE DEF q, r
    <3> QED
      BY <1>1, <2>1, ModOfSum
  <2>3. QED
    BY <1>4, <2>1, <2>2
<1>5. QED
  BY <1>3, <1>4

\* Min picks an element.
LEMMA MinIsMember ==
  ASSUME NEW T \in SUBSET Nat, T # {}
  PROVE  Min(T) \in T
<1>1. \E x \in T : \A y \in T : x <= y
  BY LeastNumber
<1>2. QED
  BY <1>1 DEF Min

\* The least loaded of some upstreams is one of them.
LEMMA LeastIsUpstream ==
  ASSUME NEW c \in Configs, NEW s \in RouteState(c), c.ups # 0
  PROVE  LeastConnections(s) \in 1 .. c.ups
<1> DEFINE loads == {s.inflight[i] : i \in 1 .. c.ups}
           least == {i \in 1 .. s.cfg.ups :
                        \A j \in 1 .. s.cfg.ups : s.inflight[i] <= s.inflight[j]}
<1>1. /\ s.cfg = c /\ c.ups \in Nat
      /\ s.inflight \in [1 .. c.ups -> Nat]
  BY ProxyAssumption DEF RouteState
<1>2. loads \in SUBSET Nat
  BY <1>1
<1>3. loads # {}
  <2>1. 1 \in 1 .. c.ups
    BY <1>1
  <2>2. s.inflight[1] \in loads
    BY <2>1
  <2>3. QED
    BY <2>2
<1>4. PICK x \in loads : \A y \in loads : x <= y
  <2> HIDE DEF loads
  <2> QED
    BY <1>2, <1>3, LeastNumber
<1>5. PICK i \in 1 .. c.ups : x = s.inflight[i]
  BY <1>4
<1>6. i \in least
  BY <1>1, <1>4, <1>5
<1>7. least \in SUBSET Nat /\ least \subseteq 1 .. c.ups
  BY <1>1
<1>8. Min(least) \in least
  <2> HIDE DEF least
  <2> QED
    BY <1>6, <1>7, MinIsMember
<1>9. QED
  BY <1>7, <1>8 DEF LeastConnections

-----------------------------------------------------------------------------
(* Route states and requests *)

\* What the types say of a route state in the table's history.
LEMMA StateFacts ==
  ASSUME TypeOK, NEW g \in 1 .. Len(states)
  PROVE  /\ states[g].cfg \in Configs
         /\ states[g].cfg.ups \in Nat
         /\ states[g].inflight \in [1 .. states[g].cfg.ups -> Nat]
         /\ states[g].picks \in [1 .. states[g].cfg.ups -> Nat]
         /\ states[g].cursor \in Nat
         /\ states[g].cache \in SUBSET Credentials
BY ProxyAssumption DEF TypeOK, RouteState

\* What the types say of the requests.
LEMMA RequestFacts ==
  ASSUME TypeOK
  PROVE  /\ Len(states) \in Nat
         /\ arrivals \in 0 .. MaxArrivals
         /\ req \in [Requests -> [pc : Pcs, kind : Kinds \cup {None},
                             at : 0 .. Len(states), up : Nat, steady : BOOLEAN]]
         /\ \A r \in Requests : req[r].pc \in Busy => req[r].kind \in Kinds
BY DEF TypeOK, Busy

\* One state is replaced by another of the same configuration: the others stay,
\* and the history is as long as it was.
LEMMA StateUpdate ==
  ASSUME TypeOK, NEW g \in 1 .. Len(states),
         NEW s \in RouteState(states[g].cfg),
         IsFiniteSet(s.cache), Cardinality(s.cache) <= CacheCap,
         states' = [states EXCEPT ![g] = s]
  PROVE  /\ Len(states') = Len(states)
         /\ \A h \in 1 .. Len(states) : states'[h] = IF h = g THEN s ELSE states[h]
         /\ \A h \in 1 .. Len(states) : states'[h].cfg = states[h].cfg
         /\ states' = [h \in 1 .. Len(states') |-> states'[h]]
         /\ \A h \in 1 .. Len(states') :
               /\ states'[h].cfg \in Configs
               /\ states'[h] \in RouteState(states'[h].cfg)
               /\ IsFiniteSet(states'[h].cache)
               /\ Cardinality(states'[h].cache) <= CacheCap
<1>1. DOMAIN states = 1 .. Len(states) /\ Len(states) \in Nat
  BY DEF TypeOK
<1>2. DOMAIN states' = 1 .. Len(states)
      /\ states' = [h \in 1 .. Len(states) |-> states'[h]]
  BY <1>1
<1>3. Len(states') = Len(states)
  BY <1>1, <1>2
<1>4. \A h \in 1 .. Len(states) : states'[h] = IF h = g THEN s ELSE states[h]
  BY <1>1
<1>5. s.cfg = states[g].cfg
  BY DEF RouteState
<1>6. \A h \in 1 .. Len(states) : states'[h].cfg = states[h].cfg
  BY <1>4, <1>5
<1>7. ASSUME NEW h \in 1 .. Len(states)
      PROVE  /\ states'[h].cfg \in Configs
             /\ states'[h] \in RouteState(states'[h].cfg)
             /\ IsFiniteSet(states'[h].cache)
             /\ Cardinality(states'[h].cache) <= CacheCap
  BY <1>4, <1>5, <1>6 DEF TypeOK
<1>8. QED
  BY <1>2, <1>3, <1>4, <1>6, <1>7

\* The counters of a state may be replaced.
LEMMA NewCounters ==
  ASSUME NEW c, NEW x \in RouteState(c), NEW f \in [1 .. c.ups -> Nat]
  PROVE  LET y == [x EXCEPT !.inflight = f] IN
         /\ y \in RouteState(c)
         /\ y.cfg = x.cfg /\ y.cache = x.cache
         /\ y.picks = x.picks /\ y.cursor = x.cursor
         /\ y.inflight = f
BY DEF RouteState

\* Requests are finitely many, and so are those with an upstream.
LEMMA WithFinite ==
  /\ \A g, i : IsFiniteSet(With(g, i)) /\ Cardinality(With(g, i)) \in Nat
  /\ IsFiniteSet(Chosen) /\ Cardinality(Chosen) \in Nat
<1>1. \A T \in SUBSET Requests : IsFiniteSet(T) /\ Cardinality(T) \in Nat
  BY ProxyAssumption, FS_Subset, FS_CardinalityType
<1>2. QED
  BY <1>1 DEF With, Chosen

\* Round robin is even because of how far each upstream is ahead.
LEMMA TurnsAreEven == TypeOK /\ Turns => Spread
<1> SUFFICES ASSUME TypeOK, Turns,
                    NEW g \in 1 .. Len(states),
                    states[g].cfg.algo = "roundrobin",
                    NEW i \in 1 .. states[g].cfg.ups,
                    NEW j \in 1 .. states[g].cfg.ups
             PROVE  states[g].picks[i] <= states[g].picks[j] + 1
  BY DEF Spread
<1> DEFINE turn(n) == IF n <= states[g].cursor % states[g].cfg.ups THEN 1 ELSE 0
<1>1. /\ states[g].cfg.ups \in Nat
      /\ states[g].picks \in [1 .. states[g].cfg.ups -> Nat]
  BY StateFacts
<1>2. /\ states[g].cfg.ups # 0
      /\ states[g].picks[i] \in Nat /\ states[g].picks[j] \in Nat
  BY <1>1
<1>3. states[g].picks[i] + turn(j) = states[g].picks[j] + turn(i)
  BY <1>2 DEF Turns
<1>4. turn(i) \in {0, 1} /\ turn(j) \in {0, 1}
  OBVIOUS
<1> HIDE DEF turn
<1>5. QED
  BY <1>2, <1>3, <1>4

-----------------------------------------------------------------------------
(* Steps of request_filter that leave the route states alone *)

\* A request that has no upstream moves on and still has none: what it has shown
\* is all there is to show.
LEMMA RequestMoves ==
  ASSUME IInv, NEW r \in Requests,
         NEW q \in [pc : Pcs \ {"add", "upstream"}, kind : Kinds \cup {None},
                    at : 0 .. Len(states), up : Nat, steady : BOOLEAN],
         req[r].pc \notin {"add", "upstream"},
         q.pc \in Busy => q.kind \in Kinds,
         q.pc = "verify" => q.at # 0,
         Shown(q),
         req' = [req EXCEPT ![r] = q],
         UNCHANGED <<states, current, cert, log, unlogged, chosen>>,
         arrivals' \in 0 .. MaxArrivals
  PROVE  IInv'
<1>1. \A p \in Requests : req'[p] = IF p = r THEN q ELSE req[p]
  BY RequestFacts DEF IInv
<1>2. TypeOK'
  <2>1. req' \in [Requests -> [pc : Pcs, kind : Kinds \cup {None},
                             at : 0 .. Len(states), up : Nat, steady : BOOLEAN]]
    BY RequestFacts DEF IInv
  <2>2. QED
    BY <1>1, <2>1 DEF IInv, TypeOK, Busy, RouteState
<1>3. \A g, i : With(g, i)' = With(g, i)
  <2>1. \A g, i : \A p \in Requests :
            req'[p].pc = "upstream" /\ req'[p].at = g /\ req'[p].up = i <=>
            req[p].pc = "upstream" /\ req[p].at = g /\ req[p].up = i
    BY <1>1
  <2>2. QED
    BY <2>1 DEF With
<1>4. Chosen' = Chosen
  BY <1>1 DEF Chosen
<1>5. CountersExact'
  BY <1>3 DEF IInv, CountersExact
<1>6. LoggedOnce' /\ CacheSound'
  BY <1>4 DEF IInv, LoggedOnce, CacheSound
<1>7. Turns'
  BY DEF IInv, Turns
<1>8. SteadyAdmission'
  BY <1>1 DEF IInv, SteadyAdmission
<1>9. ChosenExists' /\ VerifiesFound'
  BY <1>1, <1>4 DEF IInv, ChosenExists, VerifiesFound, Chosen
<1>10. ShownSoFar'
  BY <1>1 DEF IInv, ShownSoFar, Shown
<1>11. QED
  BY <1>2, <1>5, <1>6, <1>7, <1>8, <1>9, <1>10 DEF IInv

\* Every answer ends the request.
LEMMA ReplyMoves ==
  ASSUME IInv, NEW r \in Requests,
         NEW code \in {"passed", "200", "308", "401", "404", "426", "503", "login"},
         req[r].pc \notin {"add", "upstream"},
         Replied(r, code),
         UNCHANGED <<states, current, cert, log, unlogged, chosen, arrivals>>
  PROVE  IInv'
<1> DEFINE q == [Free EXCEPT !.pc = code]
<1>1. /\ q \in [pc : Pcs \ {"add", "upstream"}, kind : Kinds \cup {None},
                at : 0 .. Len(states), up : Nat, steady : BOOLEAN]
      /\ q.pc = code
  <2>1. Free \in [pc : {"free"}, kind : {None}, at : {0}, up : Nat, steady : BOOLEAN]
    BY DEF Free
  <2>2. 0 \in 0 .. Len(states) /\ code \in Pcs \ {"add", "upstream"}
    BY RequestFacts DEF IInv, Pcs
  <2>3. QED
    BY <2>1, <2>2
<1>2. q.pc \notin Busy /\ q.pc # "verify" /\ Shown(q)
  BY <1>1 DEF Busy, Shown
<1>3. req' = [req EXCEPT ![r] = q]
  BY DEF Replied
<1>4. arrivals' \in 0 .. MaxArrivals
  BY RequestFacts DEF IInv
<1> HIDE DEF q
<1>5. QED
  BY <1>1, <1>2, <1>3, <1>4, RequestMoves

\* A request goes on with what it has.
LEMMA GoesMoves ==
  ASSUME IInv, NEW r \in Requests, NEW pc \in {"find", "auth", "select"},
         req[r].pc \in {"filter", "find", "auth", "verify", "select"},
         Goes(r, pc), Shown([req[r] EXCEPT !.pc = pc]),
         UNCHANGED <<states, current, cert, log, unlogged, chosen, arrivals>>
  PROVE  IInv'
<1> DEFINE q == [req[r] EXCEPT !.pc = pc]
<1>1. /\ q \in [pc : Pcs \ {"add", "upstream"}, kind : Kinds \cup {None},
                at : 0 .. Len(states), up : Nat, steady : BOOLEAN]
      /\ q.kind \in Kinds /\ q.pc # "verify"
  BY RequestFacts DEF Pcs, Busy, IInv
<1>2. req' = [req EXCEPT ![r] = q]
  BY DEF Goes
<1>3. arrivals' \in 0 .. MaxArrivals
  BY RequestFacts DEF IInv
<1>4. Shown(q)
  OBVIOUS
<1> HIDE DEF q
<1>5. QED
  BY <1>1, <1>2, <1>3, <1>4, RequestMoves

\* A request arrives with nothing shown.
LEMMA ArriveStep ==
  ASSUME IInv, NEW r \in Requests, NEW k \in Kinds, Arrive(r, k)
  PROVE  IInv'
<1> DEFINE q == [Free EXCEPT !.pc = "filter", !.kind = k]
<1>1. /\ q \in [pc : Pcs \ {"add", "upstream"}, kind : Kinds \cup {None},
                at : 0 .. Len(states), up : Nat, steady : BOOLEAN]
      /\ q.kind = k /\ q.pc = "filter"
  <2>1. Free \in [pc : {"free"}, kind : {None}, at : {0}, up : Nat, steady : BOOLEAN]
    BY DEF Free
  <2>2. 0 \in 0 .. Len(states) /\ "filter" \in Pcs \ {"add", "upstream"}
    BY RequestFacts DEF IInv, Pcs
  <2>3. QED
    BY <2>1, <2>2
<1>2. Shown(q)
  BY <1>1 DEF Shown
<1>3. /\ req' = [req EXCEPT ![r] = q]
      /\ req[r].pc \notin {"add", "upstream"}
      /\ UNCHANGED <<states, current, cert, log, unlogged, chosen>>
  BY DEF Arrive
<1>4. arrivals' \in 0 .. MaxArrivals
  BY RequestFacts, ProxyAssumption DEF Arrive, IInv
<1> HIDE DEF q
<1>5. QED
  BY <1>1, <1>2, <1>3, <1>4, RequestMoves

\* The https rule: plain http to a route that requires https is answered here.
LEMMA FilterStep ==
  ASSUME IInv, NEW r \in Requests, Filter(r)
  PROVE  IInv'
<1> DEFINE k == req[r].kind
<1>1. /\ req[r].pc = "filter"
      /\ UNCHANGED <<states, current, cert, log, unlogged, chosen, arrivals>>
  BY DEF Filter
<1>2. CASE \E code \in {"200", "308", "426", "passed", "503"} : Replied(r, code)
  BY <1>1, <1>2, ReplyMoves
<1>3. CASE /\ k.tls \/ ~HttpsRequired(k)
           /\ k.host \notin {"dashboard", "storage"}
           /\ Goes(r, "find")
  <2>1. Shown([req[r] EXCEPT !.pc = "find"])
    BY <1>1, <1>3, RequestFacts, ProxyAssumption DEF Shown, HttpsRequired, IInv, Busy
  <2>2. QED
    BY <1>1, <1>3, <2>1, GoesMoves
<1>4. QED
  BY <1>2, <1>3 DEF Filter, SettingsHost

\* The login gate of the route that is found now.
LEMMA FindRouteStep ==
  ASSUME IInv, NEW r \in Requests, FindRoute(r)
  PROVE  IInv'
<1>1. /\ req[r].pc = "find"
      /\ UNCHANGED <<states, current, cert, log, unlogged, chosen, arrivals>>
  BY DEF FindRoute
<1>2. CASE Replied(r, "404") \/ Replied(r, "login")
  BY <1>1, <1>2, ReplyMoves
<1> DEFINE k == req[r].kind
<1>3. ASSUME ~(k.host = "other" \/ Route = None)
      PROVE  current # 0 /\ Route = states[current].cfg /\ k.host # "other"
  BY <1>3 DEF Route
<1>4. CASE /\ ~(k.host = "other" \/ Route = None)
           /\ Route.auth = "gate" /\ k.signedIn
           /\ Goes(r, "select")
  <2>1. Shown([req[r] EXCEPT !.pc = "select"])
    BY <1>1, <1>3, <1>4, RequestFacts DEF Shown, IInv, ShownSoFar
  <2>2. QED
    BY <1>1, <1>4, <2>1, GoesMoves
<1>5. CASE /\ ~(k.host = "other" \/ Route = None)
           /\ Route.auth # "gate"
           /\ Goes(r, "auth")
  <2>1. Shown([req[r] EXCEPT !.pc = "auth"])
    BY <1>1, <1>3, <1>5, RequestFacts DEF Shown, IInv, ShownSoFar
  <2>2. QED
    BY <1>1, <1>5, <2>1, GoesMoves
<1>6. QED
  BY <1>2, <1>4, <1>5 DEF FindRoute, EnforceLoginGate

\* check_basic_auth answers from the cache of the state it finds, which holds
\* right credentials only, or leaves the password to be verified on that state.
LEMMA CheckBasicAuthStep ==
  ASSUME IInv, NEW r \in Requests, CheckBasicAuth(r)
  PROVE  IInv'
<1> DEFINE cred == req[r].kind.cred
<1>1. /\ req[r].pc = "auth"
      /\ UNCHANGED <<states, current, cert, log, unlogged, chosen, arrivals>>
  BY DEF CheckBasicAuth
<1>2. CASE Replied(r, "401")
  BY <1>1, <1>2, ReplyMoves
<1>3. /\ current \in 0 .. Len(states) /\ Len(states) \in Nat
      /\ current # 0 => current \in 1 .. Len(states)
  BY DEF IInv, TypeOK
<1>4. CASE /\ \/ current = 0
              \/ current # 0 /\ states[current].cfg.auth # "basic"
              \/ current # 0 /\ cred \in states[current].cache
           /\ Goes(r, "select")
  <2>1. current # 0 => states[current].cache \subseteq states[current].cfg.pass
    BY <1>3 DEF IInv, CacheSound
  <2>2. Shown(req[r])
    BY DEF IInv, ShownSoFar
  <2>3. Shown([req[r] EXCEPT !.pc = "select"])
    BY <1>1, <1>4, <2>1, <2>2, RequestFacts DEF Shown, IInv
  <2>4. QED
    BY <1>1, <1>4, <2>3, GoesMoves
<1>5. CASE /\ current # 0
           /\ req' = [req EXCEPT ![r].pc = "verify", ![r].at = current]
  <2> DEFINE q == [req[r] EXCEPT !.pc = "verify", !.at = current]
  <2>1. /\ q \in [pc : Pcs \ {"add", "upstream"}, kind : Kinds \cup {None},
                  at : 0 .. Len(states), up : Nat, steady : BOOLEAN]
        /\ q.kind \in Kinds /\ q.kind = req[r].kind
        /\ q.pc = "verify" /\ q.at = current /\ q.steady = req[r].steady
    BY <1>1, <1>3, RequestFacts DEF Pcs, Busy, IInv
  <2>2. Shown(req[r])
    BY DEF IInv, ShownSoFar
  <2>3. Shown(q)
    <3> HIDE DEF q
    <3> QED
      BY <1>1, <2>1, <2>2 DEF Shown
  <2>4. req' = [req EXCEPT ![r] = q]
    BY <1>5
  <2>5. arrivals' \in 0 .. MaxArrivals
    BY <1>1, RequestFacts DEF IInv
  <2> HIDE DEF q
  <2>6. QED
    BY <1>1, <1>5, <2>1, <2>3, <2>4, <2>5, RequestMoves
<1>6. QED
  BY <1>2, <1>4, <1>5 DEF CheckBasicAuth, Route

-----------------------------------------------------------------------------
(* Steps that use or change a route state *)

\* The password is verified on the state that was found before, and cached on
\* that state alone.
LEMMA VerifyStep ==
  ASSUME IInv, NEW r \in Requests, Verify(r)
  PROVE  IInv'
<1> DEFINE g == req[r].at
           cred == req[r].kind.cred
<1>1. /\ req[r].pc = "verify"
      /\ UNCHANGED <<current, cert, log, unlogged, chosen, arrivals>>
  BY DEF Verify
<1>2. CASE states' = states /\ Replied(r, "401")
  BY <1>1, <1>2, ReplyMoves
<1>3. CASE /\ cred \in states[g].cfg.pass
           /\ states' = CacheOn(g, cred) /\ Goes(r, "select")
  <2>1. g \in 1 .. Len(states) /\ Len(states) \in Nat
    BY <1>1, RequestFacts DEF IInv, VerifiesFound
  <2> DEFINE c == states[g].cfg
             kept == IF Cardinality(states[g].cache) >= CacheCap THEN {}
                     ELSE states[g].cache
             s == [states[g] EXCEPT !.cache = kept \cup {cred}]
  <2>2. /\ c \in Configs /\ c.pass \subseteq Credentials
        /\ states[g] \in RouteState(c)
        /\ IsFiniteSet(states[g].cache)
        /\ Cardinality(states[g].cache) <= CacheCap
        /\ states[g].cache \subseteq c.pass
    BY <2>1, ProxyAssumption DEF IInv, TypeOK, CacheSound
  <2>3. kept \subseteq c.pass /\ cred \in c.pass
    BY <1>3, <2>2
  <2>4. /\ s \in RouteState(c)
        /\ s.cfg = c /\ s.cache = kept \cup {cred}
        /\ s.inflight = states[g].inflight
        /\ s.picks = states[g].picks
        /\ s.cursor = states[g].cursor
    BY <2>2, <2>3 DEF RouteState
  <2>5. IsFiniteSet(kept) /\ Cardinality(kept) < CacheCap /\ Cardinality(kept) \in Nat
    <3>1. Cardinality(states[g].cache) \in Nat
      BY <2>2, FS_CardinalityType
    <3>2. QED
      BY <2>2, <3>1, FS_EmptySet, ProxyAssumption
  <2>6. IsFiniteSet(s.cache) /\ Cardinality(s.cache) <= CacheCap
    <3> HIDE DEF kept, s
    <3>1. /\ IsFiniteSet(kept \cup {cred})
          /\ Cardinality(kept \cup {cred}) <= Cardinality(kept) + 1
      BY <2>5, FS_AddElement
    <3>2. CacheCap \in Nat
      BY ProxyAssumption
    <3>3. Cardinality(kept \cup {cred}) \in Nat
      BY <3>1, FS_CardinalityType
    <3>4. QED
      BY <2>4, <2>5, <3>1, <3>2, <3>3
  <2>7. states' = [states EXCEPT ![g] = s]
    BY <1>3 DEF CacheOn
  <2>8. s.cache \subseteq c.pass
    BY <2>3, <2>4
  <2> HIDE DEF s, kept
  <2>9. /\ Len(states') = Len(states)
        /\ \A h \in 1 .. Len(states) : states'[h] = IF h = g THEN s ELSE states[h]
        /\ \A h \in 1 .. Len(states) : states'[h].cfg = states[h].cfg
        /\ states' = [h \in 1 .. Len(states') |-> states'[h]]
        /\ \A h \in 1 .. Len(states') :
               /\ states'[h].cfg \in Configs
               /\ states'[h] \in RouteState(states'[h].cfg)
               /\ IsFiniteSet(states'[h].cache)
               /\ Cardinality(states'[h].cache) <= CacheCap
    BY <2>1, <2>4, <2>6, <2>7, StateUpdate DEF IInv
  <2>10. \A p \in Requests :
            req'[p] = IF p = r THEN [req[r] EXCEPT !.pc = "select"] ELSE req[p]
    BY <1>3, RequestFacts DEF Goes, IInv
  <2>11. TypeOK'
    <3>1. req' \in [Requests -> [pc : Pcs, kind : Kinds \cup {None},
                               at : 0 .. Len(states), up : Nat, steady : BOOLEAN]]
      BY <1>3, RequestFacts DEF Goes, IInv, Pcs
    <3>2. \A p \in Requests : req'[p].pc \in Busy => req'[p].kind \in Kinds
      BY <1>1, <2>10, RequestFacts DEF IInv, Busy
    <3>3. current' \in 0 .. Len(states') /\ cert' \in BOOLEAN /\ Len(states') \in Nat
      BY <1>1, <2>1, <2>9 DEF IInv, TypeOK
    <3>4. log' \in Nat /\ unlogged' \in Nat /\ chosen' \in Nat /\ arrivals' \in 0 .. MaxArrivals
      BY <1>1 DEF IInv, TypeOK
    <3>5. QED
      BY <2>9, <3>1, <3>2, <3>3, <3>4 DEF TypeOK, Busy
  <2>12. CountersExact' /\ LoggedOnce'
    <3>1. \A h, i : With(h, i)' = With(h, i)
      BY <1>1, <2>10, RequestFacts DEF With, IInv
    <3>2. Chosen' = Chosen
      BY <1>1, <2>10, RequestFacts DEF Chosen, IInv
    <3>3. \A h \in 1 .. Len(states) : states'[h].inflight = states[h].inflight
      BY <2>4, <2>9
    <3>4. CountersExact'
      BY <2>9, <3>1, <3>3 DEF IInv, CountersExact
    <3>5. QED
      BY <1>1, <3>2, <3>4 DEF IInv, LoggedOnce
  <2>13. CacheSound'
    BY <2>8, <2>9 DEF IInv, CacheSound
  <2>14. SteadyAdmission' /\ ChosenExists' /\ VerifiesFound'
    <3>1. SteadyAdmission'
      BY <2>9, <2>10, RequestFacts DEF IInv, SteadyAdmission, ChosenExists, Chosen
    <3>2. VerifiesFound'
      BY <2>10, RequestFacts DEF IInv, VerifiesFound
    <3>3. \A p \in Chosen : req[p].at \in 1 .. Len(states)
      BY <2>1, RequestFacts DEF IInv, ChosenExists, Chosen
    <3>4. \A p \in Chosen' : p \in Chosen /\ req'[p] = req[p]
      BY <1>1, <2>10, RequestFacts DEF IInv, Chosen
    <3>5. ChosenExists'
      BY <2>9, <3>3, <3>4 DEF IInv, ChosenExists
    <3>6. QED
      BY <3>1, <3>2, <3>5
  <2>15. Turns'
    <3>1. \A h \in 1 .. Len(states) :
             states'[h].picks = states[h].picks /\ states'[h].cursor = states[h].cursor
      BY <2>4, <2>9
    <3>2. QED
      BY <2>9, <3>1 DEF IInv, Turns
  <2>16. ShownSoFar'
    <3>1. current # 0 => states'[current].cfg = states[current].cfg
      BY <2>9 DEF IInv, TypeOK
    <3>2. Shown(req[r]) /\ \A p \in Requests : Shown(req[p])
      BY DEF IInv, ShownSoFar
    <3>3. Shown(req[r])'
      BY <1>1, <1>3, <2>10, <3>1, <3>2, RequestFacts DEF Shown, IInv
    <3>4. \A p \in Requests : p # r => Shown(req[p])'
      BY <1>1, <2>10, <3>1, <3>2 DEF Shown
    <3>5. QED
      BY <3>3, <3>4 DEF ShownSoFar
  <2>17. QED
    BY <2>11, <2>12, <2>13, <2>14, <2>15, <2>16 DEF IInv
<1>4. QED
  BY <1>2, <1>3 DEF Verify

\* The types hold again when they do of the changed state and the changed request.
LEMMA TypesAgain ==
  ASSUME IInv,
         Len(states') = Len(states),
         states' = [h \in 1 .. Len(states') |-> states'[h]],
         \A h \in 1 .. Len(states') :
               /\ states'[h].cfg \in Configs
               /\ states'[h] \in RouteState(states'[h].cfg)
               /\ IsFiniteSet(states'[h].cache)
               /\ Cardinality(states'[h].cache) <= CacheCap,
         req' \in [Requests -> [pc : Pcs, kind : Kinds \cup {None},
                             at : 0 .. Len(states), up : Nat, steady : BOOLEAN]],
         \A p \in Requests : req'[p].pc \in Busy => req'[p].kind \in Kinds,
         UNCHANGED <<current, cert, arrivals>>,
         log' \in Nat, unlogged' \in Nat, chosen' \in Nat
  PROVE  TypeOK'
<1>1. /\ current' \in 0 .. Len(states') /\ cert' \in BOOLEAN
      /\ Len(states') \in Nat /\ arrivals' \in 0 .. MaxArrivals
  BY DEF IInv, TypeOK
<1>2. QED
  BY <1>1 DEF TypeOK, Busy

\* One request changes and the types of the requests hold.
LEMMA RequestUpdate ==
  ASSUME IInv, NEW r \in Requests,
         NEW q \in [pc : Pcs, kind : Kinds \cup {None}, at : 0 .. Len(states),
                    up : Nat, steady : BOOLEAN],
         q.pc \in Busy => q.kind \in Kinds,
         req' = [req EXCEPT ![r] = q]
  PROVE  /\ \A p \in Requests : req'[p] = IF p = r THEN q ELSE req[p]
         /\ req' \in [Requests -> [pc : Pcs, kind : Kinds \cup {None},
                             at : 0 .. Len(states), up : Nat, steady : BOOLEAN]]
         /\ \A p \in Requests : req'[p].pc \in Busy => req'[p].kind \in Kinds
<1>1. \A p \in Requests : req'[p] = IF p = r THEN q ELSE req[p]
  BY RequestFacts DEF IInv
<1>2. req' \in [Requests -> [pc : Pcs, kind : Kinds \cup {None},
                             at : 0 .. Len(states), up : Nat, steady : BOOLEAN]]
  BY RequestFacts DEF IInv
<1>3. \A p \in Requests : req'[p].pc \in Busy => req'[p].kind \in Kinds
  BY <1>1, RequestFacts DEF IInv
<1>4. QED
  BY <1>1, <1>2, <1>3

\* A state changes in neither its configuration nor its cache.
LEMMA CachesStay ==
  ASSUME IInv, Len(states') = Len(states),
         \A h \in 1 .. Len(states) : /\ states'[h].cfg = states[h].cfg
                                     /\ states'[h].cache = states[h].cache
  PROVE  CacheSound'
BY DEF IInv, CacheSound

\* A state's configuration stays, and so does what the others have shown.
LEMMA OthersShown ==
  ASSUME IInv, NEW r \in Requests, NEW q,
         \A h \in 1 .. Len(states) : states'[h].cfg = states[h].cfg,
         \A p \in Requests : req'[p] = IF p = r THEN q ELSE req[p],
         q.pc \notin {"find", "auth", "verify", "select"},
         UNCHANGED current
  PROVE  ShownSoFar' /\ VerifiesFound'
<1>1. current # 0 => states'[current].cfg = states[current].cfg
  BY DEF IInv, TypeOK
<1>2. \A p \in Requests : Shown(req[p])
  BY DEF IInv, ShownSoFar
<1>3. Shown(req[r])'
  BY DEF Shown
<1>4. \A p \in Requests : p # r => Shown(req[p])'
  BY <1>1, <1>2 DEF Shown
<1>5. VerifiesFound'
  BY DEF IInv, VerifiesFound
<1>6. QED
  BY <1>3, <1>4, <1>5 DEF ShownSoFar

\* A chosen request is with a state that was made.
LEMMA ChosenInRange ==
  ASSUME IInv
  PROVE  \A p \in Chosen : /\ req[p].at \in 1 .. Len(states)
                           /\ req[p].up \in 1 .. states[req[p].at].cfg.ups
<1>1. Len(states) \in Nat /\ \A p \in Requests : req[p].at \in 0 .. Len(states)
  BY RequestFacts DEF IInv
<1>2. \A p \in Chosen : p \in Requests /\ req[p].at # 0
                        /\ req[p].up \in 1 .. states[req[p].at].cfg.ups
  BY DEF IInv, ChosenExists, Chosen
<1>3. QED
  BY <1>1, <1>2

\* select_upstream counts the request in after it has chosen.
LEMMA CountInStep ==
  ASSUME IInv, NEW r \in Requests, CountIn(r)
  PROVE  IInv'
<1>1. /\ req[r].pc = "add"
      /\ UNCHANGED <<current, cert, log, unlogged, chosen, arrivals>>
      /\ r \in Chosen
  BY DEF CountIn, Chosen
<1>2. PICK g \in 1 .. Len(states), u \in Nat :
          req[r].at = g /\ req[r].up = u /\ u \in 1 .. states[g].cfg.ups
  BY <1>1, ChosenInRange
<1> DEFINE f == [states[g].inflight EXCEPT ![u] = states[g].inflight[u] + 1]
           s == [states[g] EXCEPT !.inflight = f]
           q == [req[r] EXCEPT !.pc = "upstream"]
<1>3. /\ states[g] \in RouteState(states[g].cfg)
      /\ states[g].inflight \in [1 .. states[g].cfg.ups -> Nat]
  BY StateFacts DEF IInv, TypeOK
<1>4. f \in [1 .. states[g].cfg.ups -> Nat]
  <2>1. states[g].inflight[u] \in Nat
    BY <1>2, <1>3
  <2>2. states[g].inflight[u] + 1 \in Nat
    BY <2>1
  <2>3. QED
    BY <1>3, <2>2
<1>5. /\ s \in RouteState(states[g].cfg)
      /\ s.cfg = states[g].cfg
      /\ s.cache = states[g].cache
      /\ s.picks = states[g].picks /\ s.cursor = states[g].cursor
      /\ s.inflight = f
  <2> HIDE DEF f
  <2> QED
    BY <1>3, <1>4, NewCounters
<1>6. /\ q \in [pc : Pcs, kind : Kinds \cup {None}, at : 0 .. Len(states),
                up : Nat, steady : BOOLEAN]
      /\ q.kind \in Kinds /\ q.kind = req[r].kind /\ q.pc = "upstream"
      /\ q.at = g /\ q.up = u /\ q.steady = req[r].steady
  BY <1>1, <1>2, RequestFacts DEF Pcs, Busy, IInv
<1>7. states' = [states EXCEPT ![g] = s] /\ req' = [req EXCEPT ![r] = q]
  BY <1>2 DEF CountIn, Goes
<1>8. log' \in Nat /\ unlogged' \in Nat /\ chosen' \in Nat
  BY <1>1 DEF IInv, TypeOK
<1> HIDE DEF f, s, q
<1>9. /\ TypeOK' /\ CacheSound'
      /\ Len(states') = Len(states)
      /\ \A h \in 1 .. Len(states) : states'[h] = IF h = g THEN s ELSE states[h]
      /\ \A h \in 1 .. Len(states) : states'[h].cfg = states[h].cfg
      /\ \A p \in Requests : req'[p] = IF p = r THEN q ELSE req[p]
  <2>1. q.pc \in Busy => q.kind \in Kinds
    BY <1>6
  <2>2. IsFiniteSet(s.cache) /\ Cardinality(s.cache) <= CacheCap
    BY <1>5 DEF IInv, TypeOK
  <2>3. /\ Len(states') = Len(states)
        /\ \A h \in 1 .. Len(states) : states'[h] = IF h = g THEN s ELSE states[h]
        /\ \A h \in 1 .. Len(states) : states'[h].cfg = states[h].cfg
        /\ states' = [h \in 1 .. Len(states') |-> states'[h]]
        /\ \A h \in 1 .. Len(states') :
               /\ states'[h].cfg \in Configs
               /\ states'[h] \in RouteState(states'[h].cfg)
               /\ IsFiniteSet(states'[h].cache)
               /\ Cardinality(states'[h].cache) <= CacheCap
    BY <1>5, <1>7, <2>2, StateUpdate DEF IInv
  <2>4. /\ \A p \in Requests : req'[p] = IF p = r THEN q ELSE req[p]
        /\ req' \in [Requests -> [pc : Pcs, kind : Kinds \cup {None},
                             at : 0 .. Len(states), up : Nat, steady : BOOLEAN]]
        /\ \A p \in Requests : req'[p].pc \in Busy => req'[p].kind \in Kinds
    BY <1>6, <1>7, <2>1, RequestUpdate
  <2>5. TypeOK'
    BY <1>1, <1>8, <2>3, <2>4, TypesAgain
  <2>6. CacheSound'
    BY <1>5, <2>3, CachesStay
  <2>7. QED
    BY <2>3, <2>4, <2>5, <2>6
<1>10. CountersExact'
  <2>1. \A h, i : (h # g \/ i # u) => With(h, i)' = With(h, i)
    BY <1>1, <1>6, <1>9 DEF With
  <2>2. With(g, u)' = With(g, u) \cup {r} /\ r \notin With(g, u)
    BY <1>1, <1>6, <1>9 DEF With
  <2>3. Cardinality(With(g, u)') = Cardinality(With(g, u)) + 1
    BY <2>2, WithFinite, FS_AddElement
  <2> SUFFICES ASSUME NEW h \in 1 .. Len(states), NEW i \in 1 .. states[h].cfg.ups
               PROVE  states'[h].inflight[i] = Cardinality(With(h, i)')
    BY <1>9 DEF CountersExact
  <2>4. states[h].inflight[i] = Cardinality(With(h, i))
    BY DEF IInv, CountersExact
  <2>5. CASE h = g
    <3>1. states'[h].inflight = f /\ i \in 1 .. states[g].cfg.ups
      BY <1>5, <1>9, <2>5
    <3>2. f[i] = IF i = u THEN states[g].inflight[u] + 1 ELSE states[g].inflight[i]
      BY <1>3, <3>1 DEF f
    <3>3. CASE i = u
      BY <2>3, <2>4, <2>5, <3>1, <3>2, <3>3
    <3>4. CASE i # u
      BY <2>1, <2>4, <2>5, <3>1, <3>2, <3>4
    <3>5. QED
      BY <3>3, <3>4
  <2>7. CASE h # g
    BY <1>9, <2>1, <2>4, <2>7
  <2>8. QED
    BY <2>5, <2>7
<1>11. Chosen' = Chosen
  BY <1>1, <1>6, <1>9 DEF Chosen
<1>12. LoggedOnce'
  BY <1>1, <1>11 DEF IInv, LoggedOnce
<1>13. \A p \in Chosen : /\ req'[p].at = req[p].at /\ req'[p].up = req[p].up
                         /\ req'[p].kind = req[p].kind
                         /\ req'[p].steady = req[p].steady
                         /\ states'[req[p].at].cfg = states[req[p].at].cfg
  <2>1. \A p \in Chosen : p \in Requests
    BY DEF Chosen
  <2>2. QED
    BY <1>2, <1>6, <1>9, <2>1, ChosenInRange
<1>14. ChosenExists'
  BY <1>11, <1>13 DEF IInv, ChosenExists
<1>15. SteadyAdmission'
  <2>1. \A p \in Requests : req'[p].pc \in {"add", "upstream"} => p \in Chosen
    BY <1>11 DEF Chosen
  <2>2. \A p \in Chosen : p \in Requests /\ req[p].pc \in {"add", "upstream"}
    BY DEF Chosen
  <2>3. QED
    BY <1>13, <2>1, <2>2 DEF IInv, SteadyAdmission
<1>16. Turns'
  <2>1. \A h \in 1 .. Len(states) :
           states'[h].picks = states[h].picks /\ states'[h].cursor = states[h].cursor
    BY <1>5, <1>9
  <2>2. QED
    BY <1>9, <2>1 DEF IInv, Turns
<1>17. ShownSoFar' /\ VerifiesFound'
  BY <1>1, <1>6, <1>9, OthersShown
<1>18. QED
  BY <1>9, <1>10, <1>12, <1>14, <1>15, <1>16, <1>17 DEF IInv

\* complete takes the request off the counter it was counted in on, and logging
\* appends its entry.
LEMMA CompleteStep ==
  ASSUME IInv, NEW r \in Requests, Complete(r)
  PROVE  IInv'
<1>1. /\ req[r].pc = "upstream"
      /\ \/ log' = log + 1 /\ unlogged' = unlogged
         \/ log' = log /\ unlogged' = unlogged + 1
      /\ UNCHANGED <<current, cert, chosen, arrivals>>
      /\ r \in Chosen
  BY DEF Complete, WriteLog, Chosen
<1>2. PICK g \in 1 .. Len(states), u \in Nat :
          req[r].at = g /\ req[r].up = u /\ u \in 1 .. states[g].cfg.ups
  BY <1>1, ChosenInRange
<1> DEFINE n == states[g].inflight[u]
           f == [states[g].inflight EXCEPT ![u] = IF n = 0 THEN 0 ELSE n - 1]
           s == [states[g] EXCEPT !.inflight = f]
           q == [Free EXCEPT !.pc = "done"]
<1>3. /\ states[g] \in RouteState(states[g].cfg)
      /\ states[g].inflight \in [1 .. states[g].cfg.ups -> Nat]
  BY StateFacts DEF IInv, TypeOK
<1>4. f \in [1 .. states[g].cfg.ups -> Nat]
  <2>1. n \in Nat
    BY <1>2, <1>3
  <2>2. (IF n = 0 THEN 0 ELSE n - 1) \in Nat
    <3> HIDE DEF n
    <3> QED
      BY <2>1
  <2>3. QED
    BY <1>3, <2>2
<1>5. /\ s \in RouteState(states[g].cfg)
      /\ s.cfg = states[g].cfg
      /\ s.cache = states[g].cache
      /\ s.picks = states[g].picks /\ s.cursor = states[g].cursor
      /\ s.inflight = f
  <2> HIDE DEF f
  <2> QED
    BY <1>3, <1>4, NewCounters
<1>6. /\ q \in [pc : Pcs, kind : Kinds \cup {None}, at : 0 .. Len(states),
                up : Nat, steady : BOOLEAN]
      /\ q.pc = "done"
  <2>1. Free \in [pc : {"free"}, kind : {None}, at : {0}, up : Nat, steady : BOOLEAN]
    BY DEF Free
  <2>2. 0 \in 0 .. Len(states) /\ "done" \in Pcs
    BY RequestFacts DEF IInv, Pcs
  <2>3. QED
    BY <2>1, <2>2
<1>7. states' = [states EXCEPT ![g] = s] /\ req' = [req EXCEPT ![r] = q]
  BY <1>2 DEF Complete, CountOut, Replied
<1>8. log' \in Nat /\ unlogged' \in Nat /\ chosen' \in Nat
  BY <1>1 DEF IInv, TypeOK
<1> HIDE DEF n, f, s, q
<1>9. /\ TypeOK' /\ CacheSound'
      /\ Len(states') = Len(states)
      /\ \A h \in 1 .. Len(states) : states'[h] = IF h = g THEN s ELSE states[h]
      /\ \A h \in 1 .. Len(states) : states'[h].cfg = states[h].cfg
      /\ \A p \in Requests : req'[p] = IF p = r THEN q ELSE req[p]
  <2>1. q.pc \in Busy => q.kind \in Kinds
    BY <1>6 DEF Busy
  <2>2. IsFiniteSet(s.cache) /\ Cardinality(s.cache) <= CacheCap
    BY <1>5 DEF IInv, TypeOK
  <2>3. /\ Len(states') = Len(states)
        /\ \A h \in 1 .. Len(states) : states'[h] = IF h = g THEN s ELSE states[h]
        /\ \A h \in 1 .. Len(states) : states'[h].cfg = states[h].cfg
        /\ states' = [h \in 1 .. Len(states') |-> states'[h]]
        /\ \A h \in 1 .. Len(states') :
               /\ states'[h].cfg \in Configs
               /\ states'[h] \in RouteState(states'[h].cfg)
               /\ IsFiniteSet(states'[h].cache)
               /\ Cardinality(states'[h].cache) <= CacheCap
    BY <1>5, <1>7, <2>2, StateUpdate DEF IInv
  <2>4. /\ \A p \in Requests : req'[p] = IF p = r THEN q ELSE req[p]
        /\ req' \in [Requests -> [pc : Pcs, kind : Kinds \cup {None},
                             at : 0 .. Len(states), up : Nat, steady : BOOLEAN]]
        /\ \A p \in Requests : req'[p].pc \in Busy => req'[p].kind \in Kinds
    BY <1>6, <1>7, <2>1, RequestUpdate
  <2>5. TypeOK'
    BY <1>1, <1>8, <2>3, <2>4, TypesAgain
  <2>6. CacheSound'
    BY <1>5, <2>3, CachesStay
  <2>7. QED
    BY <2>3, <2>4, <2>5, <2>6
<1>10. CountersExact'
  <2>1. \A h, i : (h # g \/ i # u) => With(h, i)' = With(h, i)
    BY <1>1, <1>2, <1>6, <1>9 DEF With
  <2>2. With(g, u)' = With(g, u) \ {r} /\ r \in With(g, u)
    BY <1>1, <1>2, <1>6, <1>9 DEF With
  <2>3. /\ Cardinality(With(g, u)') = Cardinality(With(g, u)) - 1
        /\ Cardinality(With(g, u)) \in Nat
        /\ Cardinality(With(g, u)') \in Nat
    BY <2>2, WithFinite, FS_RemoveElement, FS_CardinalityType
  <2> SUFFICES ASSUME NEW h \in 1 .. Len(states), NEW i \in 1 .. states[h].cfg.ups
               PROVE  states'[h].inflight[i] = Cardinality(With(h, i)')
    BY <1>9 DEF CountersExact
  <2>4. states[h].inflight[i] = Cardinality(With(h, i))
    BY DEF IInv, CountersExact
  <2>5. CASE h = g
    <3>1. states'[h].inflight = f /\ i \in 1 .. states[g].cfg.ups
      BY <1>5, <1>9, <2>5
    <3>2. f[i] = IF i = u THEN (IF n = 0 THEN 0 ELSE n - 1) ELSE states[g].inflight[i]
      BY <1>3, <3>1 DEF f
    <3>3. CASE i = u
      <4>1. n = Cardinality(With(g, u))
        BY <2>4, <2>5, <3>3 DEF n
      <4>2. n # 0
        BY <2>3, <4>1
      <4>3. QED
        BY <2>3, <2>5, <3>1, <3>2, <3>3, <4>1, <4>2
    <3>4. CASE i # u
      BY <2>1, <2>4, <2>5, <3>1, <3>2, <3>4
    <3>5. QED
      BY <3>3, <3>4
  <2>7. CASE h # g
    BY <1>9, <2>1, <2>4, <2>7
  <2>8. QED
    BY <2>5, <2>7
<1>11. Chosen' = Chosen \ {r}
  BY <1>1, <1>6, <1>9 DEF Chosen
<1>12. LoggedOnce'
  <2>1. /\ Cardinality(Chosen') = Cardinality(Chosen) - 1
        /\ Cardinality(Chosen) \in Nat
    BY <1>1, <1>11, WithFinite, FS_RemoveElement
  <2>2. /\ (log + unlogged) + Cardinality(Chosen) = chosen
        /\ log \in Nat /\ unlogged \in Nat
    BY DEF IInv, LoggedOnce, TypeOK
  <2>3. (log' + unlogged') + (Cardinality(Chosen) - 1) = chosen
    BY <1>1, <2>1, <2>2
  <2>4. QED
    BY <1>1, <2>1, <2>3 DEF LoggedOnce
<1>13. \A p \in Chosen' : /\ p \in Chosen /\ req'[p] = req[p]
                          /\ states'[req[p].at].cfg = states[req[p].at].cfg
  <2>1. \A p \in Chosen : p \in Requests
    BY DEF Chosen
  <2>2. QED
    BY <1>9, <1>11, <2>1, ChosenInRange
<1>14. ChosenExists'
  BY <1>13 DEF IInv, ChosenExists
<1>15. SteadyAdmission'
  <2>1. \A p \in Requests : req'[p].pc \in {"add", "upstream"} => p \in Chosen'
    BY DEF Chosen
  <2>2. \A p \in Chosen : p \in Requests /\ req[p].pc \in {"add", "upstream"}
    BY DEF Chosen
  <2>3. QED
    BY <1>13, <2>1, <2>2 DEF IInv, SteadyAdmission
<1>16. Turns'
  <2>1. \A h \in 1 .. Len(states) :
           states'[h].picks = states[h].picks /\ states'[h].cursor = states[h].cursor
    BY <1>5, <1>9
  <2>2. QED
    BY <1>9, <2>1 DEF IInv, Turns
<1>17. ShownSoFar' /\ VerifiesFound'
  BY <1>1, <1>6, <1>9, OthersShown
<1>18. QED
  BY <1>9, <1>10, <1>12, <1>14, <1>15, <1>16, <1>17 DEF IInv

\* Round robin gives the turn to the upstream whose turn it is.
LEMMA TurnTaken ==
  ASSUME NEW n \in Nat \ {0}, NEW c \in Nat, NEW P \in [1 .. n -> Nat],
         \A i, j \in 1 .. n : P[i] + (IF j <= c % n THEN 1 ELSE 0)
                            = P[j] + (IF i <= c % n THEN 1 ELSE 0)
  PROVE  LET u == (c % n) + 1
             Q == [P EXCEPT ![u] = P[u] + 1]
         IN /\ u \in 1 .. n
            /\ \A i, j \in 1 .. n : Q[i] + (IF j <= (c + 1) % n THEN 1 ELSE 0)
                                  = Q[j] + (IF i <= (c + 1) % n THEN 1 ELSE 0)
<1> DEFINE m == c % n
           k == (c + 1) % n
           u == m + 1
           Q == [P EXCEPT ![u] = P[u] + 1]
<1>1. m \in 0 .. (n - 1)
  BY ModRange
<1>2. k = IF m + 1 = n THEN 0 ELSE m + 1
  BY ModSucc
<1>3. u \in 1 .. n
  BY <1>1
<1>4. \A i \in 1 .. n : P[i] \in Nat /\ Q[i] = IF i = u THEN P[i] + 1 ELSE P[i]
  BY <1>3
<1> SUFFICES ASSUME NEW i \in 1 .. n, NEW j \in 1 .. n
             PROVE  Q[i] + (IF j <= k THEN 1 ELSE 0) = Q[j] + (IF i <= k THEN 1 ELSE 0)
  BY <1>3
<1>5. P[i] + (IF j <= m THEN 1 ELSE 0) = P[j] + (IF i <= m THEN 1 ELSE 0)
  OBVIOUS
<1>6. /\ P[i] \in Nat /\ P[j] \in Nat
      /\ Q[i] = IF i = u THEN P[i] + 1 ELSE P[i]
      /\ Q[j] = IF j = u THEN P[j] + 1 ELSE P[j]
  BY <1>4
<1> HIDE DEF m, k, Q
<1>7. QED
  BY <1>1, <1>2, <1>5, <1>6

\* select_upstream picks one of the upstreams of the state in the table; with
\* round robin the one whose turn it is.
LEMMA UpstreamPicked ==
  ASSUME IInv, NEW r \in Requests, SelectUpstream(r), ~Replied(r, "503")
  PROVE  /\ current \in 1 .. Len(states)
         /\ chosen' = chosen + 1
         /\ \E u \in Nat, n \in Nat :
               /\ u \in 1 .. states[current].cfg.ups
               /\ states[current].cfg.algo = "roundrobin" =>
                     /\ u = (states[current].cursor % states[current].cfg.ups) + 1
                     /\ n = states[current].cursor + 1
               /\ req' = [req EXCEPT ![r] = [req[r] EXCEPT !.pc = "add",
                                                 !.at = current, !.up = u]]
               /\ states' = [states EXCEPT ![current] =
                     [states[current] EXCEPT !.cursor = n,
                          !.picks = [states[current].picks EXCEPT ![u] =
                                        states[current].picks[u] + 1]]]
<1> DEFINE s == states[current]
           pick == IF s.cfg.algo = "roundrobin" THEN RoundRobin(s)
                   ELSE <<LeastConnections(s), s.cursor>>
<1>1. /\ current # 0 /\ s.cfg.ups # 0
      /\ req' = [req EXCEPT ![r].pc = "add", ![r].at = current, ![r].up = pick[1]]
      /\ states' = [states EXCEPT ![current].cursor = pick[2],
                                  ![current].picks[pick[1]] = @ + 1]
      /\ chosen' = chosen + 1
  BY DEF SelectUpstream, Route
<1>2. current \in 1 .. Len(states)
  BY <1>1 DEF IInv, TypeOK
<1>3. /\ s.cfg \in Configs /\ s \in RouteState(s.cfg)
      /\ s.cfg.ups \in Nat \ {0} /\ s.cursor \in Nat
      /\ DOMAIN states = 1 .. Len(states)
  BY <1>1, <1>2, StateFacts DEF IInv, TypeOK
<1>4. pick[1] \in 1 .. s.cfg.ups /\ pick[2] \in Nat
  <2> HIDE DEF s
  <2>1. CASE s.cfg.algo = "roundrobin"
    <3>1. (s.cursor % s.cfg.ups) \in 0 .. (s.cfg.ups - 1)
      BY <1>3, ModRange
    <3>2. pick[1] = (s.cursor % s.cfg.ups) + 1 /\ pick[2] = s.cursor + 1
      BY <2>1 DEF RoundRobin
    <3> HIDE DEF pick
    <3>3. QED
      BY <1>3, <3>1, <3>2
  <2>2. CASE s.cfg.algo # "roundrobin"
    <3>1. LeastConnections(s) \in 1 .. s.cfg.ups
      BY <1>3, LeastIsUpstream
    <3>2. pick[1] = LeastConnections(s) /\ pick[2] = s.cursor
      BY <2>2
    <3> HIDE DEF pick
    <3>3. QED
      BY <1>3, <3>1, <3>2
  <2>3. QED
    BY <2>1, <2>2
<1>5. s.cfg.algo = "roundrobin" => /\ pick[1] = (s.cursor % s.cfg.ups) + 1
                                   /\ pick[2] = s.cursor + 1
  BY DEF RoundRobin
<1>6. pick[1] \in Nat
  <2> HIDE DEF pick, s
  <2> QED
    BY <1>3, <1>4
<1> HIDE DEF pick
<1>7. req' = [req EXCEPT ![r] = [req[r] EXCEPT !.pc = "add", !.at = current,
                                               !.up = pick[1]]]
  BY <1>1, RequestFacts DEF IInv
<1>8. states' = [states EXCEPT ![current] =
                     [states[current] EXCEPT !.cursor = pick[2],
                          !.picks = [states[current].picks EXCEPT ![pick[1]] =
                                        states[current].picks[pick[1]] + 1]]]
  BY <1>1, <1>2, <1>3
<1>9. QED
  BY <1>1, <1>2, <1>4, <1>5, <1>6, <1>7, <1>8

\* A request goes to the state that is in the table when it is chosen for; if the
\* route stayed the same since the request came, the request has shown what that
\* state asks for.
LEMMA SelectUpstreamStep ==
  ASSUME IInv, NEW r \in Requests, SelectUpstream(r)
  PROVE  IInv'
<1>1. /\ req[r].pc = "select"
      /\ UNCHANGED <<current, cert, log, unlogged, arrivals>>
  BY DEF SelectUpstream
<1>2. CASE Replied(r, "503")
  <2>1. UNCHANGED <<states, chosen>>
    <3>1. "503" # "add" /\ Free.pc = "free"
      BY DEF Free
    <3>2. req'[r].pc = "503"
      <4>1. Free \in [pc : {"free"}, kind : {None}, at : {0}, up : Nat, steady : BOOLEAN]
        BY DEF Free
      <4>2. [Free EXCEPT !.pc = "503"].pc = "503"
        BY <4>1
      <4>3. req'[r] = [Free EXCEPT !.pc = "503"]
        BY <1>2, RequestFacts DEF Replied, IInv
      <4>4. QED
        BY <4>2, <4>3
    <3>3. CASE UNCHANGED <<states, chosen>>
      BY <3>3
    <3>4. CASE \E v : req' = [req EXCEPT ![r].pc = "add", ![r].at = current, ![r].up = v]
      <4>1. req'[r].pc = "add"
        BY <3>4, RequestFacts DEF IInv
      <4>2. QED
        BY <3>2, <4>1
    <3>5. QED
      BY <3>3, <3>4 DEF SelectUpstream
  <2>2. QED
    BY <1>1, <1>2, <2>1, ReplyMoves
<1>3. CASE ~Replied(r, "503")
  <2>1. /\ current \in 1 .. Len(states)
        /\ chosen' = chosen + 1
    BY <1>3, UpstreamPicked
  <2>2. PICK u \in Nat, n \in Nat :
               /\ u \in 1 .. states[current].cfg.ups
               /\ states[current].cfg.algo = "roundrobin" =>
                     /\ u = (states[current].cursor % states[current].cfg.ups) + 1
                     /\ n = states[current].cursor + 1
               /\ req' = [req EXCEPT ![r] = [req[r] EXCEPT !.pc = "add",
                                                 !.at = current, !.up = u]]
               /\ states' = [states EXCEPT ![current] =
                     [states[current] EXCEPT !.cursor = n,
                          !.picks = [states[current].picks EXCEPT ![u] =
                                        states[current].picks[u] + 1]]]
    BY <1>3, UpstreamPicked
  <2>3. PICK g \in 1 .. Len(states) : g = current
    BY <2>1
  <2> DEFINE f == [states[g].picks EXCEPT ![u] = states[g].picks[u] + 1]
             s == [states[g] EXCEPT !.cursor = n, !.picks = f]
             q == [req[r] EXCEPT !.pc = "add", !.at = g, !.up = u]
  <2>4. /\ states[g] \in RouteState(states[g].cfg)
        /\ states[g].cfg.ups \in Nat
        /\ states[g].cursor \in Nat
        /\ states[g].picks \in [1 .. states[g].cfg.ups -> Nat]
    BY StateFacts DEF IInv, TypeOK
  <2>5. f \in [1 .. states[g].cfg.ups -> Nat]
    <3>1. states[g].picks[u] \in Nat
      BY <2>2, <2>3, <2>4
    <3>2. states[g].picks[u] + 1 \in Nat
      BY <3>1
    <3>3. QED
      BY <2>4, <3>2
  <2>6. /\ s \in RouteState(states[g].cfg)
        /\ s.cfg = states[g].cfg
        /\ s.cache = states[g].cache
        /\ s.inflight = states[g].inflight
        /\ s.picks = f /\ s.cursor = n
    <3> HIDE DEF f
    <3> QED
      BY <2>4, <2>5 DEF RouteState
  <2>7. /\ q \in [pc : Pcs, kind : Kinds \cup {None}, at : 0 .. Len(states),
                  up : Nat, steady : BOOLEAN]
        /\ q.kind \in Kinds /\ q.kind = req[r].kind /\ q.pc = "add"
        /\ q.at = g /\ q.up = u /\ q.steady = req[r].steady
    <3>1. g \in 0 .. Len(states)
      BY RequestFacts DEF IInv
    <3>2. QED
      BY <1>1, <3>1, RequestFacts DEF Pcs, Busy, IInv
  <2>8. states' = [states EXCEPT ![g] = s] /\ req' = [req EXCEPT ![r] = q]
    BY <2>2, <2>3
  <2>9. log' \in Nat /\ unlogged' \in Nat /\ chosen' \in Nat
    BY <1>1, <2>1 DEF IInv, TypeOK
  <2> HIDE DEF f, s, q
  <2>10. /\ TypeOK' /\ CacheSound'
         /\ Len(states') = Len(states)
         /\ \A h \in 1 .. Len(states) : states'[h] = IF h = g THEN s ELSE states[h]
         /\ \A h \in 1 .. Len(states) : states'[h].cfg = states[h].cfg
         /\ \A p \in Requests : req'[p] = IF p = r THEN q ELSE req[p]
    <3>1. q.pc \in Busy => q.kind \in Kinds
      BY <2>7
    <3>2. IsFiniteSet(s.cache) /\ Cardinality(s.cache) <= CacheCap
      BY <2>6 DEF IInv, TypeOK
    <3>3. /\ Len(states') = Len(states)
          /\ \A h \in 1 .. Len(states) : states'[h] = IF h = g THEN s ELSE states[h]
          /\ \A h \in 1 .. Len(states) : states'[h].cfg = states[h].cfg
          /\ states' = [h \in 1 .. Len(states') |-> states'[h]]
          /\ \A h \in 1 .. Len(states') :
               /\ states'[h].cfg \in Configs
               /\ states'[h] \in RouteState(states'[h].cfg)
               /\ IsFiniteSet(states'[h].cache)
               /\ Cardinality(states'[h].cache) <= CacheCap
      BY <2>6, <2>8, <3>2, StateUpdate DEF IInv
    <3>4. /\ \A p \in Requests : req'[p] = IF p = r THEN q ELSE req[p]
          /\ req' \in [Requests -> [pc : Pcs, kind : Kinds \cup {None},
                             at : 0 .. Len(states), up : Nat, steady : BOOLEAN]]
          /\ \A p \in Requests : req'[p].pc \in Busy => req'[p].kind \in Kinds
      BY <2>7, <2>8, <3>1, RequestUpdate
    <3>5. TypeOK'
      BY <1>1, <2>9, <3>3, <3>4, TypesAgain
    <3>6. CacheSound'
      BY <2>6, <3>3, CachesStay
    <3>7. QED
      BY <3>3, <3>4, <3>5, <3>6
  <2>11. CountersExact'
    <3>1. \A h, i : With(h, i)' = With(h, i)
      BY <1>1, <2>7, <2>10 DEF With
    <3>2. \A h \in 1 .. Len(states) : states'[h].inflight = states[h].inflight
      BY <2>6, <2>10
    <3>3. QED
      BY <2>10, <3>1, <3>2 DEF IInv, CountersExact
  <2>12. Chosen' = Chosen \cup {r} /\ r \notin Chosen
    BY <1>1, <2>7, <2>10 DEF Chosen
  <2>13. LoggedOnce'
    <3>1. /\ Cardinality(Chosen') = Cardinality(Chosen) + 1
          /\ Cardinality(Chosen) \in Nat
      BY <2>12, WithFinite, FS_AddElement
    <3>2. /\ (log + unlogged) + Cardinality(Chosen) = chosen
          /\ log \in Nat /\ unlogged \in Nat
      BY DEF IInv, LoggedOnce, TypeOK
    <3>3. (log + unlogged) + (Cardinality(Chosen) + 1) = chosen + 1
      BY <3>1, <3>2
    <3>4. QED
      BY <1>1, <2>1, <3>1, <3>3 DEF LoggedOnce
  <2>14. \A p \in Chosen' : \/ p = r
                            \/ /\ p \in Chosen /\ p \in Requests /\ req'[p] = req[p]
                               /\ states'[req[p].at].cfg = states[req[p].at].cfg
    <3>1. \A p \in Chosen : p \in Requests
      BY DEF Chosen
    <3>2. QED
      BY <2>10, <2>12, <3>1, ChosenInRange
  <2>15. ChosenExists'
    <3>1. req'[r].at = g /\ req'[r].up = u /\ states'[g].cfg = states[g].cfg
      BY <2>7, <2>10
    <3>2. g # 0 /\ u \in 1 .. states[g].cfg.ups
      BY <2>2, <2>3
    <3>3. QED
      BY <2>14, <3>1, <3>2 DEF IInv, ChosenExists
  <2>16. SteadyAdmission'
    <3>1. \A p \in Requests : req'[p].pc \in {"add", "upstream"} => p \in Chosen'
      BY DEF Chosen
    <3>2. \A p \in Chosen : req[p].pc \in {"add", "upstream"}
      BY DEF Chosen
    <3>3. /\ req'[r].at = g /\ req'[r].kind = req[r].kind
          /\ req'[r].steady = req[r].steady
          /\ states'[g].cfg = states[g].cfg
      BY <2>7, <2>10
    <3>4. Shown(req[r])
      BY DEF IInv, ShownSoFar
    <3>5. req[r].steady =>
             /\ states[g].cfg.ssl => req[r].kind.tls
             /\ states[g].cfg.auth = "basic" => req[r].kind.cred \in states[g].cfg.pass
             /\ states[g].cfg.auth = "gate" => req[r].kind.signedIn
      BY <1>1, <2>3, <3>4 DEF Shown
    <3>6. ASSUME NEW p \in Requests,
                 req'[p].pc \in {"add", "upstream"}, req'[p].steady
          PROVE  /\ states'[req'[p].at].cfg.ssl => req'[p].kind.tls
                 /\ states'[req'[p].at].cfg.auth = "basic" =>
                       req'[p].kind.cred \in states'[req'[p].at].cfg.pass
                 /\ states'[req'[p].at].cfg.auth = "gate" => req'[p].kind.signedIn
      <4>1. CASE p = r
        BY <3>3, <3>5, <3>6, <4>1
      <4>2. CASE p # r
        BY <2>14, <3>1, <3>2, <3>6, <4>2 DEF IInv, SteadyAdmission
      <4>3. QED
        BY <4>1, <4>2
    <3>7. QED
      BY <3>6 DEF SteadyAdmission
  <2>17. Turns'
    <3> SUFFICES ASSUME NEW h \in 1 .. Len(states),
                        states[h].cfg.algo = "roundrobin", states[h].cfg.ups # 0,
                        NEW i \in 1 .. states[h].cfg.ups,
                        NEW j \in 1 .. states[h].cfg.ups
                 PROVE  states'[h].picks[i]
                          + (IF j <= states'[h].cursor % states[h].cfg.ups THEN 1 ELSE 0)
                      = states'[h].picks[j]
                          + (IF i <= states'[h].cursor % states[h].cfg.ups THEN 1 ELSE 0)
      BY <2>10 DEF Turns
    <3>1. \A a, b \in 1 .. states[h].cfg.ups :
             states[h].picks[a]
                 + (IF b <= states[h].cursor % states[h].cfg.ups THEN 1 ELSE 0)
             = states[h].picks[b]
                 + (IF a <= states[h].cursor % states[h].cfg.ups THEN 1 ELSE 0)
      BY DEF IInv, Turns
    <3>2. CASE h # g
      BY <2>10, <3>1, <3>2
    <3>3. CASE h = g
      <4>1. states'[h].picks = f /\ states'[h].cursor = n
        BY <2>6, <2>10, <3>3
      <4>2. /\ u = (states[g].cursor % states[g].cfg.ups) + 1
            /\ n = states[g].cursor + 1
        BY <2>2, <2>3, <3>3
      <4>3. states[g].cfg.ups \in Nat \ {0}
        BY <2>4, <3>3
      <4>4. \A a, b \in 1 .. states[g].cfg.ups :
               f[a] + (IF b <= (states[g].cursor + 1) % states[g].cfg.ups THEN 1 ELSE 0)
             = f[b] + (IF a <= (states[g].cursor + 1) % states[g].cfg.ups THEN 1 ELSE 0)
        <5> DEFINE m == states[g].cfg.ups
                   c == states[g].cursor
                   P == states[g].picks
        <5>1. m \in Nat \ {0} /\ c \in Nat /\ P \in [1 .. m -> Nat]
          BY <2>4, <4>3
        <5>2. \A a, b \in 1 .. m : P[a] + (IF b <= c % m THEN 1 ELSE 0)
                                 = P[b] + (IF a <= c % m THEN 1 ELSE 0)
          BY <3>1, <3>3
        <5>3. f = [P EXCEPT ![(c % m) + 1] = P[(c % m) + 1] + 1]
          BY <4>2 DEF f
        <5> HIDE DEF m, c, P
        <5>4. \A a, b \in 1 .. m :
                 [P EXCEPT ![(c % m) + 1] = P[(c % m) + 1] + 1][a]
                     + (IF b <= (c + 1) % m THEN 1 ELSE 0)
               = [P EXCEPT ![(c % m) + 1] = P[(c % m) + 1] + 1][b]
                     + (IF a <= (c + 1) % m THEN 1 ELSE 0)
          BY <5>1, <5>2, TurnTaken, Zenon
        <5>5. QED
          BY <5>3, <5>4 DEF m, c, P
      <4>5. QED
        BY <3>3, <4>1, <4>2, <4>4
    <3>4. QED
      BY <3>2, <3>3
  <2>18. ShownSoFar' /\ VerifiesFound'
    BY <1>1, <2>7, <2>10, OthersShown
  <2>19. QED
    BY <2>10, <2>11, <2>13, <2>15, <2>16, <2>17, <2>18 DEF IInv
<1>4. QED
  BY <1>2, <1>3

-----------------------------------------------------------------------------
(* Changes of the route table *)

\* A change of the table leaves the requests where they are, and takes from those
\* that are being filtered what they have shown.
LEMMA TableSeen ==
  ASSUME IInv, req' = Unsteady
  PROVE  /\ \A p \in Requests :
               /\ req'[p].pc = req[p].pc /\ req'[p].kind = req[p].kind
               /\ req'[p].at = req[p].at /\ req'[p].up = req[p].up
               /\ req'[p].pc \in {"filter", "find", "auth", "verify", "select", "add"}
                      => ~req'[p].steady
               /\ req'[p].pc = "upstream" => req'[p] = req[p]
         /\ req' \in [Requests -> [pc : Pcs, kind : Kinds \cup {None},
                             at : 0 .. Len(states), up : Nat, steady : BOOLEAN]]
         /\ \A g, i : With(g, i)' = With(g, i)
         /\ Chosen' = Chosen
         /\ ShownSoFar' /\ VerifiesFound'
<1>1. req \in [Requests -> [pc : Pcs, kind : Kinds \cup {None},
                             at : 0 .. Len(states), up : Nat, steady : BOOLEAN]]
  BY RequestFacts DEF IInv
<1>2. \A p \in Requests :
          req'[p] = IF req[p].pc \in {"filter", "find", "auth", "verify", "select", "add"}
                    THEN [req[p] EXCEPT !.steady = FALSE] ELSE req[p]
  BY DEF Unsteady
<1>3. \A p \in Requests :
         /\ req'[p].pc = req[p].pc /\ req'[p].kind = req[p].kind
         /\ req'[p].at = req[p].at /\ req'[p].up = req[p].up
         /\ req'[p].pc \in {"filter", "find", "auth", "verify", "select", "add"}
                => ~req'[p].steady
         /\ req'[p].pc = "upstream" => req'[p] = req[p]
  BY <1>1, <1>2
<1>4. req' \in [Requests -> [pc : Pcs, kind : Kinds \cup {None},
                             at : 0 .. Len(states), up : Nat, steady : BOOLEAN]]
  BY <1>1 DEF Unsteady
<1>5. \A g, i : With(g, i)' = With(g, i)
  BY <1>3 DEF With
<1>6. Chosen' = Chosen
  BY <1>3 DEF Chosen
<1>7. ShownSoFar'
  BY <1>3 DEF ShownSoFar, Shown
<1>8. VerifiesFound'
  BY <1>3 DEF IInv, VerifiesFound
<1>9. QED
  BY <1>3, <1>4, <1>5, <1>6, <1>7, <1>8

\* add_route puts a state at the end of the history and into the table; the states
\* before it, and the requests that are with them, stay.
LEMMA AddRouteStep ==
  ASSUME IInv, NEW c \in Configs, AddRoute(c)
  PROVE  IInv'
<1>0. PICK n \in Nat : n = Len(states)
  BY RequestFacts DEF IInv
<1> DEFINE new == NewState(c)
           S == {states[h] : h \in 1 .. n} \cup {new}
<1>1. /\ states' = Append(states, new) /\ current' = n + 1
      /\ req' = Unsteady
      /\ UNCHANGED <<cert, log, unlogged, chosen, arrivals>>
  BY <1>0 DEF AddRoute
<1>2. n \in Nat /\ states \in Seq(S)
  <2>1. n \in Nat /\ states = [h \in 1 .. n |-> states[h]]
    BY <1>0 DEF IInv, TypeOK
  <2>2. states \in [1 .. n -> S]
    BY <2>1
  <2>3. QED
    BY <2>1, <2>2
<1>3. new \in S
  OBVIOUS
<1>4. /\ c.ups \in Nat
      /\ new \in RouteState(c) /\ new.cfg = c /\ new.cache = {}
      /\ new.cursor = 0
      /\ \A i \in 1 .. c.ups : new.inflight[i] = 0 /\ new.picks[i] = 0
  BY ProxyAssumption DEF NewState, RouteState
<1> HIDE DEF S, new
<1>5. /\ Len(states') = n + 1
      /\ states' = [h \in 1 .. (n + 1) |-> states'[h]]
      /\ \A h \in 1 .. n : states'[h] = states[h]
      /\ states'[n + 1] = new
  <2>1. states' \in Seq(S) /\ Len(states') = n + 1
    BY <1>0, <1>1, <1>2, <1>3
  <2>2. states' = [h \in 1 .. (n + 1) |-> states'[h]]
    BY <2>1
  <2>3. \A h \in 1 .. n : states'[h] = states[h]
    BY <1>0, <1>1, <1>2, <1>3
  <2>4. states'[n + 1] = new
    BY <1>0, <1>1, <1>2, <1>3
  <2>5. QED
    BY <2>1, <2>2, <2>3, <2>4
<1>6. /\ \A p \in Requests :
               /\ req'[p].pc = req[p].pc /\ req'[p].kind = req[p].kind
               /\ req'[p].at = req[p].at /\ req'[p].up = req[p].up
               /\ req'[p].pc \in {"filter", "find", "auth", "verify", "select", "add"}
                      => ~req'[p].steady
               /\ req'[p].pc = "upstream" => req'[p] = req[p]
      /\ req' \in [Requests -> [pc : Pcs, kind : Kinds \cup {None},
                             at : 0 .. n, up : Nat, steady : BOOLEAN]]
      /\ \A g, i : With(g, i)' = With(g, i)
      /\ Chosen' = Chosen
      /\ ShownSoFar' /\ VerifiesFound'
  BY <1>0, <1>1, TableSeen
<1>7. TypeOK'
  <2>1. \A h \in 1 .. (n + 1) : h = n + 1 \/ h \in 1 .. n
    BY <1>2
  <2>2. \A h \in 1 .. n :
          /\ states[h].cfg \in Configs
          /\ states[h] \in RouteState(states[h].cfg)
          /\ IsFiniteSet(states[h].cache)
          /\ Cardinality(states[h].cache) <= CacheCap
    BY <1>0 DEF IInv, TypeOK
  <2>3. IsFiniteSet(new.cache) /\ Cardinality(new.cache) <= CacheCap
    BY <1>4, FS_EmptySet, ProxyAssumption
  <2>4. \A h \in 1 .. (n + 1) :
          /\ states'[h].cfg \in Configs
          /\ states'[h] \in RouteState(states'[h].cfg)
          /\ IsFiniteSet(states'[h].cache)
          /\ Cardinality(states'[h].cache) <= CacheCap
    BY <1>4, <1>5, <2>1, <2>2, <2>3
  <2>5. 0 .. n \subseteq 0 .. (n + 1) /\ n + 1 \in Nat /\ n + 1 \in 0 .. (n + 1)
    BY <1>2
  <2>6. req' \in [Requests -> [pc : Pcs, kind : Kinds \cup {None},
                             at : 0 .. (n + 1), up : Nat, steady : BOOLEAN]]
    BY <1>6, <2>5
  <2>7. \A p \in Requests : req'[p].pc \in Busy => req'[p].kind \in Kinds
    BY <1>6, RequestFacts DEF IInv
  <2>8. /\ cert' \in BOOLEAN /\ log' \in Nat /\ unlogged' \in Nat /\ chosen' \in Nat
        /\ arrivals' \in 0 .. MaxArrivals
    BY <1>1 DEF IInv, TypeOK
  <2>9. QED
    BY <1>1, <1>5, <2>4, <2>5, <2>6, <2>7, <2>8 DEF TypeOK, Busy
<1>8. \A h \in 1 .. Len(states') : h = n + 1 \/ (h \in 1 .. n /\ h # n + 1)
  BY <1>2, <1>5
<1>9. CountersExact'
  <2>1. \A i : With(n + 1, i) = {}
    <3>1. \A p \in Requests : req[p].at # n + 1
      BY <1>0, <1>2, RequestFacts DEF IInv
    <3>2. QED
      BY <3>1 DEF With
  <2>2. Cardinality({}) = 0
    BY FS_EmptySet
  <2>3. ASSUME NEW h \in 1 .. n, NEW i \in 1 .. states[h].cfg.ups
        PROVE  states'[h].inflight[i] = Cardinality(With(h, i)')
    <3>1. states[h].inflight[i] = Cardinality(With(h, i))
      BY <1>0 DEF IInv, CountersExact
    <3>2. With(h, i)' = With(h, i) /\ states'[h] = states[h]
      BY <1>5, <1>6
    <3>3. QED
      BY <3>1, <3>2
  <2>4. ASSUME NEW i \in 1 .. c.ups
        PROVE  states'[n + 1].inflight[i] = Cardinality(With(n + 1, i)')
    <3>1. With(n + 1, i)' = {}
      BY <1>6, <2>1
    <3>2. QED
      BY <1>4, <1>5, <2>2, <3>1
  <2>5. QED
    BY <1>4, <1>5, <1>8, <2>3, <2>4 DEF CountersExact
<1>10. LoggedOnce'
  BY <1>1, <1>6 DEF IInv, LoggedOnce
<1>11. CacheSound'
  BY <1>0, <1>4, <1>5, <1>8 DEF IInv, CacheSound
<1>12. \A p \in Chosen : req[p].at \in 1 .. n /\ p \in Requests
  BY <1>0, ChosenInRange DEF Chosen
<1>13. ChosenExists'
  BY <1>5, <1>6, <1>12 DEF IInv, ChosenExists
<1>14. SteadyAdmission'
  <2>1. \A p \in Requests : req'[p].pc \in {"add", "upstream"} /\ req'[p].steady =>
            /\ p \in Chosen /\ req'[p] = req[p]
            /\ states'[req[p].at] = states[req[p].at]
    BY <1>5, <1>6, <1>12 DEF Chosen
  <2>2. QED
    BY <2>1 DEF IInv, SteadyAdmission
<1>15. Turns'
  <2>1. ASSUME NEW h \in 1 .. n,
               states'[h].cfg.algo = "roundrobin", states'[h].cfg.ups # 0,
               NEW i \in 1 .. states'[h].cfg.ups, NEW j \in 1 .. states'[h].cfg.ups
        PROVE  states'[h].picks[i]
                   + (IF j <= states'[h].cursor % states'[h].cfg.ups THEN 1 ELSE 0)
             = states'[h].picks[j]
                   + (IF i <= states'[h].cursor % states'[h].cfg.ups THEN 1 ELSE 0)
    BY <1>0, <1>5, <2>1 DEF IInv, Turns
  <2>2. ASSUME c.ups # 0, NEW i \in 1 .. c.ups, NEW j \in 1 .. c.ups
        PROVE  new.picks[i] + (IF j <= new.cursor % c.ups THEN 1 ELSE 0)
             = new.picks[j] + (IF i <= new.cursor % c.ups THEN 1 ELSE 0)
    <3>1. c.ups \in Nat \ {0} /\ 0 \in Nat
      BY <1>4, <2>2
    <3>2. 0 = (c.ups * 0) + 0 /\ 0 \in 0 .. (c.ups - 1)
      BY <3>1
    <3>3. 0 % c.ups = 0
      BY <3>1, <3>2, ModOfSum
    <3>4. ~(i <= 0) /\ ~(j <= 0)
      BY <1>4
    <3>5. QED
      BY <1>4, <3>3, <3>4
  <2>3. QED
    BY <1>4, <1>5, <1>8, <2>1, <2>2 DEF Turns
<1>16. QED
  BY <1>6, <1>7, <1>9, <1>10, <1>11, <1>13, <1>14, <1>15 DEF IInv

\* A route is taken out of the table: whoever holds its state keeps using it.
LEMMA RemoveRouteStep ==
  ASSUME IInv, RemoveRoute
  PROVE  IInv'
<1>1. /\ current' = 0 /\ req' = Unsteady
      /\ UNCHANGED <<states, cert, log, unlogged, chosen, arrivals>>
  BY DEF RemoveRoute
<1>2. /\ \A p \in Requests :
               /\ req'[p].pc = req[p].pc /\ req'[p].kind = req[p].kind
               /\ req'[p].at = req[p].at /\ req'[p].up = req[p].up
               /\ req'[p].pc \in {"filter", "find", "auth", "verify", "select", "add"}
                      => ~req'[p].steady
               /\ req'[p].pc = "upstream" => req'[p] = req[p]
      /\ req' \in [Requests -> [pc : Pcs, kind : Kinds \cup {None},
                             at : 0 .. Len(states), up : Nat, steady : BOOLEAN]]
      /\ \A g, i : With(g, i)' = With(g, i)
      /\ Chosen' = Chosen
      /\ ShownSoFar' /\ VerifiesFound'
  BY <1>1, TableSeen
<1>3. TypeOK'
  <2>1. \A p \in Requests : req'[p].pc \in Busy => req'[p].kind \in Kinds
    BY <1>2, RequestFacts DEF IInv
  <2>2. 0 \in 0 .. Len(states)
    BY RequestFacts DEF IInv
  <2>3. QED
    BY <1>1, <1>2, <2>1, <2>2 DEF IInv, TypeOK, Busy, RouteState
<1>4. CountersExact' /\ LoggedOnce' /\ CacheSound'
  BY <1>1, <1>2 DEF IInv, CountersExact, LoggedOnce, CacheSound
<1>5. ChosenExists'
  BY <1>1, <1>2 DEF IInv, ChosenExists, Chosen
<1>6. SteadyAdmission'
  BY <1>1, <1>2 DEF IInv, SteadyAdmission
<1>7. Turns'
  BY <1>1 DEF IInv, Turns
<1>8. QED
  BY <1>2, <1>3, <1>4, <1>5, <1>6, <1>7 DEF IInv

\* Nothing the invariant is about changes.
LEMMA StillStep ==
  ASSUME IInv, UNCHANGED <<states, current, req, log, unlogged, chosen, arrivals>>,
         cert' \in BOOLEAN
  PROVE  IInv'
<1>1. TypeOK'
  BY DEF IInv, TypeOK, RouteState, Pcs
<1>2. (\A g, i : With(g, i)' = With(g, i)) /\ Chosen' = Chosen
  BY DEF With, Chosen
<1>3. CountersExact' /\ LoggedOnce' /\ CacheSound'
  BY <1>2 DEF IInv, CountersExact, LoggedOnce, CacheSound
<1>4. ChosenExists' /\ VerifiesFound' /\ SteadyAdmission'
  BY <1>2 DEF IInv, ChosenExists, VerifiesFound, SteadyAdmission
<1>5. Turns' /\ ShownSoFar'
  BY DEF IInv, Turns, ShownSoFar, Shown
<1>6. QED
  BY <1>1, <1>3, <1>4, <1>5 DEF IInv

-----------------------------------------------------------------------------
(* The invariant and what follows from it *)

\* The empty table with no request satisfies the invariant.
LEMMA InitIInv == Init => IInv
<1> SUFFICES ASSUME Init
             PROVE  IInv
  OBVIOUS
<1>1. /\ states = <<>> /\ Len(states) = 0 /\ current = 0 /\ cert = FALSE
      /\ log = 0 /\ unlogged = 0 /\ chosen = 0 /\ arrivals = 0
      /\ req = [r \in Requests |-> Free]
  BY DEF Init
<1>2. Free \in [pc : {"free"}, kind : {None}, at : {0}, up : Nat, steady : BOOLEAN]
  BY DEF Free
<1>3. \A r \in Requests : req[r] = Free /\ req[r].pc = "free"
  BY <1>1, <1>2
<1>4. TypeOK
  <2>1. 0 \in 0 .. Len(states) /\ 1 .. Len(states) = {} /\ "free" \in Pcs
    BY <1>1 DEF Pcs
  <2>2. req \in [Requests -> [pc : Pcs, kind : Kinds \cup {None},
                             at : 0 .. Len(states), up : Nat, steady : BOOLEAN]]
    BY <1>1, <1>2, <2>1
  <2>3. states = [g \in 1 .. Len(states) |-> states[g]]
    BY <1>1, <2>1
  <2>4. 0 \in 0 .. MaxArrivals
    BY ProxyAssumption
  <2>5. QED
    BY <1>1, <1>3, <2>1, <2>2, <2>3, <2>4 DEF TypeOK
<1>5. Chosen = {} /\ Cardinality(Chosen) = 0
  <2>1. Chosen = {}
    BY <1>3 DEF Chosen
  <2>2. QED
    BY <2>1, FS_EmptySet
<1>6. CountersExact /\ CacheSound /\ Turns
  <2>1. 1 .. Len(states) = {}
    BY <1>1
  <2>2. QED
    BY <2>1 DEF CountersExact, CacheSound, Turns
<1>7. LoggedOnce
  BY <1>1, <1>5 DEF LoggedOnce
<1>8. SteadyAdmission /\ VerifiesFound /\ ShownSoFar
  BY <1>3 DEF SteadyAdmission, VerifiesFound, ShownSoFar, Shown
<1>9. ChosenExists
  BY <1>5 DEF ChosenExists
<1>10. QED
  BY <1>4, <1>6, <1>7, <1>8, <1>9 DEF IInv

\* Every step of a request, every change of the table and every change of the
\* certificate preserves the invariant.
LEMMA NextIInv == IInv /\ [Next]_vars => IInv'
<1> SUFFICES ASSUME IInv, [Next]_vars
             PROVE  IInv'
  OBVIOUS
<1>1. CASE \E c \in Configs : AddRoute(c)
  BY <1>1, AddRouteStep
<1>2. CASE RemoveRoute
  BY <1>2, RemoveRouteStep
<1>3. CASE CertificateChanges
  BY <1>3, StillStep DEF CertificateChanges
<1>4. CASE \E r \in Requests, k \in Kinds : Arrive(r, k)
  BY <1>4, ArriveStep
<1>5. CASE \E r \in Requests : Filter(r)
  BY <1>5, FilterStep
<1>6. CASE \E r \in Requests : FindRoute(r)
  BY <1>6, FindRouteStep
<1>7. CASE \E r \in Requests : CheckBasicAuth(r)
  BY <1>7, CheckBasicAuthStep
<1>8. CASE \E r \in Requests : Verify(r)
  BY <1>8, VerifyStep
<1>9. CASE \E r \in Requests : SelectUpstream(r)
  BY <1>9, SelectUpstreamStep
<1>10. CASE \E r \in Requests : CountIn(r)
  BY <1>10, CountInStep
<1>11. CASE \E r \in Requests : Complete(r)
  BY <1>11, CompleteStep
<1>12. CASE UNCHANGED vars
  <2>1. UNCHANGED <<states, current, req, log, unlogged, chosen, arrivals>> /\ cert' \in BOOLEAN
    BY <1>12 DEF vars, IInv, TypeOK
  <2>2. QED
    BY <2>1, StillStep
<1>13. QED
  BY <1>1, <1>2, <1>3, <1>4, <1>5, <1>6, <1>7, <1>8, <1>9, <1>10, <1>11, <1>12 DEF Next

\* IInv holds in every reachable state.
THEOREM Invariance == Spec => []IInv
  BY InitIInv, NextIInv, PTL DEF Spec

\* A credential is cached on the state whose password it was verified against, and
\* on no other, however many refreshes replaced that state meanwhile.
THEOREM CacheIsSound == Spec => []CacheSound
<1>1. IInv => CacheSound
  BY DEF IInv
<1>2. QED
  BY <1>1, Invariance, PTL

\* The counter of an upstream is the number of requests with it, every request an
\* upstream was chosen for is logged once or known not to be, round robin is even, and no counter
\* runs negative and no cache over its bound.
THEOREM RequestsAreAccounted == Spec => []RequestsAccounted
<1>1. IInv => RequestsAccounted
  BY TurnsAreEven DEF IInv, RequestsAccounted
<1>2. QED
  BY <1>1, Invariance, PTL

\* While its route stays as it is, a request goes upstream only over tls where the
\* route asks for it and only past the gate or the password of that route.
THEOREM AdmissionIsSteady == Spec => []SteadyAdmission
<1>1. IInv => SteadyAdmission
  BY DEF IInv
<1>2. QED
  BY <1>1, Invariance, PTL
=============================================================================
