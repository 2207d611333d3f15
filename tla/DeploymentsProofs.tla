-------------------------- MODULE DeploymentsProofs -------------------------
(***************************************************************************)
(* No deployment is orphaned, and a finished rollout is the app's only     *)
(* Running deployment: for any number of deployments and crashes and any   *)
(* capacity of the channel.                                                *)
(***************************************************************************)
EXTENDS Deployments, FiniteSetTheorems, TLAPS

USE DeploymentsAssumption

\* Sending a job adds it to what the channel holds and removes nothing.
LEMMA InAppend ==
  ASSUME NEW S, NEW s \in Seq(S), NEW e \in S, NEW x
  PROVE  In(x, Append(s, e)) <=> In(x, s) \/ x = e
  BY DEF In

\* Receiving a job takes the first one out and leaves the others.
LEMMA InTail ==
  ASSUME NEW S, NEW s \in Seq(S), s # <<>>, NEW x
  PROVE  /\ In(x, s) => x = Head(s) \/ In(x, Tail(s))
         /\ In(x, Tail(s)) => In(x, s)
         /\ In(Head(s), s)
         /\ Head(s) \in S
         /\ Tail(s) \in Seq(S)
         /\ Len(Tail(s)) <= Len(s)
  BY DEF In

\* An empty channel holds no job.
LEMMA InEmpty == \A x : ~In(x, <<>>)
  BY DEF In

\* The process starts with an empty database: IInv holds.
LEMMA InitIInv == Init => IInv
<1> SUFFICES ASSUME Init PROVE IInv
  OBVIOUS
<1>1. TypeOK
  BY DEF Init, TypeOK, Ids, Statuses, Active, HandlerPcs, WorkerPcs, BootPcs,
         DeletePcs
<1>2. Used /\ NoOrphan
  BY InEmpty DEF Init, Used, NoOrphan, HasRow, Queued, Processed, Active
<1>3. RowsNeedApp /\ OkMeansSettled /\ PreviousComplete
  BY DEF Init, RowsNeedApp, OkMeansSettled, PreviousComplete
<1>4. QED
  BY <1>1, <1>2, <1>3 DEF IInv

\* A step of the worker keeps IInv.
LEMMA WorkerStep == IInv /\ Worker => IInv'
<1> SUFFICES ASSUME IInv, Worker PROVE IInv'
  OBVIOUS
<1> USE DEF IInv, TypeOK, Used, RowsNeedApp, OkMeansSettled, PreviousComplete,
            NoOrphan, HasRow, Queued, Processed, Running, SaveStatus, Goto,
            EndJob, workerFrame, handlerVars, bootVars, deleteVars, diskVars, Statuses,
            Active, WorkerPcs, Superseded, NotDeleting
<1>1. CASE Recv
  <2>1. queue \in Seq(Ids) /\ queue # <<>>
    BY <1>1 DEF Recv
  <2>2. /\ cur' \in Ids /\ queue' \in Seq(Ids) /\ Len(queue') <= Len(queue)
        /\ In(cur', queue)
        /\ \A d : In(d, queue') => In(d, queue)
        /\ \A d : In(d, queue) => d = cur' \/ In(d, queue')
    BY <1>1, <2>1, InTail DEF Recv
  <2>3. /\ wpc = "idle" /\ wpc' = "load"
        /\ UNCHANGED <<app, status, kind, hpc, stale, previous, containers,
                       uploads, bpc, replay, listed, dpc, copy, crashes>>
    BY <1>1 DEF Recv
  <2>4. cur' # 0 /\ Len(queue') <= QueueCap
    BY <2>1, <2>2 DEF Ids
  <2>5. TypeOK'
    BY <2>2, <2>3, <2>4
  <2>6. Used'
    BY <2>2, <2>3
  <2>7. NoOrphan'
    BY <2>2, <2>3
  <2>8. QED
    BY <2>3, <2>5, <2>6, <2>7
<1>2. CASE Load
  BY <1>2 DEF Load
<1>3. CASE SetCloning
  BY <1>3 DEF SetCloning, UpdateStatus
<1>4. CASE CloneRepo
  BY <1>4 DEF CloneRepo, Continues
<1>5. CASE CheckClone
  BY <1>5 DEF CheckClone, ShouldContinue
<1>6. CASE SetBuilding
  BY <1>6 DEF SetBuilding, UpdateStatus
<1>7. CASE BuildImages
  BY <1>7 DEF BuildImages, Continues
<1>8. CASE CheckBuild
  BY <1>8 DEF CheckBuild, ShouldContinue
<1>9. CASE SetStarting
  BY <1>9 DEF SetStarting, UpdateStatus
<1>10. CASE CheckStarting
  BY <1>10 DEF CheckStarting, ShouldContinue
<1>11. CASE CreateNetwork
  BY <1>11 DEF CreateNetwork, Continues
<1>12. CASE GetPreviousRunning
  BY <1>12 DEF GetPreviousRunning
<1>13. CASE StopOld
  BY <1>13 DEF StopOld
<1>14. CASE CreateContainers
  BY <1>14 DEF CreateContainers
<1>15. CASE WaitHealthy
  BY <1>15 DEF WaitHealthy
<1>16. CASE DiscardNew
  BY <1>16 DEF DiscardNew
<1>17. CASE SaveRunning
  BY <1>17 DEF SaveRunning, UpdateStatus
<1>18. CASE RemoveOld
  BY <1>18 DEF RemoveOld
<1>19. CASE MarkStopped
  <2>1. PICK e \in previous :
          /\ status' = IF app THEN [status EXCEPT ![e] = "stopped"] ELSE status
          /\ previous' = previous \ {e}
          /\ wpc' = IF app THEN "markStopped" ELSE "cleanupErr"
    BY <1>19 DEF MarkStopped
  <2>2. /\ wpc = "markStopped"
        /\ UNCHANGED <<app, kind, queue, hpc, stale, cur, containers, uploads,
                       bpc, replay, listed, dpc, copy, crashes>>
    BY <1>19 DEF MarkStopped
  <2>3. TypeOK' /\ RowsNeedApp'
    BY <2>1, <2>2
  <2>4. Used'
    BY <2>1, <2>2
  <2>5. OkMeansSettled' /\ NoOrphan'
    BY <2>1, <2>2
  <2>6. PreviousComplete'
    BY <2>1, <2>2
  <2>7. QED
    BY <2>3, <2>4, <2>5, <2>6
<1>20. CASE FinishRollout
  BY <1>20 DEF FinishRollout
<1>21. CASE CleanupSource
  BY <1>21 DEF CleanupSource
<1>22. CASE FailRead
  BY <1>22 DEF FailRead
<1>23. CASE FailWrite
  BY <1>23 DEF FailWrite
<1>24. ASSUME NEW pc \in {"load", "clone", "build", "network", "previous"},
             JobFails(pc)
       PROVE IInv'
  BY <1>24 DEF JobFails
<1>25. CASE NoRollbackImage \/ CloneFails
  BY <1>24, <1>25 DEF NoRollbackImage, CloneFails
<1>26. CASE NoBuildContext \/ NoDockerfile \/ NoSiblingImage \/ ImageBuildFails
  BY <1>24, <1>26
  DEF NoBuildContext, NoDockerfile, NoSiblingImage, ImageBuildFails
<1>27. CASE NetworkFails \/ DependencyCycle
  BY <1>24, <1>27 DEF NetworkFails, DependencyCycle
<1>28. QED
  BY <1>1, <1>2, <1>3, <1>4, <1>5, <1>6, <1>7, <1>8, <1>9, <1>10, <1>11, <1>12,
     <1>13, <1>14, <1>15, <1>16, <1>17, <1>18, <1>19, <1>20, <1>21, <1>22,
     <1>23, <1>25, <1>26, <1>27 DEF Worker

\* Creating a deployment keeps IInv: the new row is with its handler.
LEMMA SaveStep ==
  ASSUME IInv, NEW d \in Ids, NEW k \in UserKinds \cup {"restore"},
         SavePending(d, k), UNCHANGED <<replay, listed>>,
         bpc' = bpc \/ (bpc = "restore" /\ bpc' = "off")
  PROVE  IInv'
<1> USE DEF IInv, SavePending, IsNext, GotoH, workerVars, deleteVars,
            NotDeleting
<1>1. TypeOK'
  BY DEF TypeOK, Statuses, Active, HandlerPcs, BootPcs
<1>2. Used'
  BY DEF Used, TypeOK, HasRow, Queued, Processed
<1>3. RowsNeedApp'
  BY DEF RowsNeedApp, TypeOK
<1>4. OkMeansSettled'
  <2>1. wpc # "idle" => cur # d
    BY DEF Used, Processed, TypeOK
  <2>2. QED
    BY <2>1 DEF OkMeansSettled, TypeOK
<1>5. PreviousComplete'
  BY DEF PreviousComplete, NotDeleting, Running, TypeOK
<1>6. NoOrphan'
  BY DEF NoOrphan, TypeOK, Queued, Processed
<1>7. QED
  BY <1>1, <1>2, <1>3, <1>4, <1>5, <1>6

\* A step of a request's handler keeps IInv.
LEMMA HandlerStep ==
  ASSUME IInv, NEW d \in Ids,
         CreateDeployment(d) \/ DropRequest(d) \/ Handler(d)
  PROVE  IInv'
<1> USE DEF IInv, GotoH, dbVars, workerVars, diskVars, bootVars,
            deleteVars, NotDeleting
<1>1. CASE CreateDeployment(d)
  BY <1>1, SaveStep
  DEF CreateDeployment, AutoDeployKinds, GithubWebhook, DeployWebhook,
      TriggerDeployment, RollbackDeployment, DeployUpload, DeployDockerfile,
      UserKinds
<1>2. CASE DropRequest(d)
  BY <1>2 DEF DropRequest, TypeOK, HandlerPcs, Used, HasRow, Queued, Processed,
              RowsNeedApp, OkMeansSettled, PreviousComplete, NotDeleting, Running, NoOrphan
<1>3. CASE SendJob(d)
  <2>1. /\ queue' = Append(queue, d) /\ Len(queue) < QueueCap
        /\ hpc[d] = "saved"
        /\ hpc' \in [Ids -> HandlerPcs]
        /\ \A e \in Ids : hpc[e] # "new" => hpc'[e] # "new"
        /\ \A e \in Ids \ {d} : hpc'[e] = hpc[e]
        /\ UNCHANGED <<app, status, kind, stale, wpc, cur, previous,
                       containers, uploads, bpc, replay, listed, dpc, copy,
                       crashes>>
    BY <1>3 DEF SendJob, TypeOK, HandlerPcs
  <2>2. /\ queue' \in Seq(Ids) /\ Len(queue') <= QueueCap
        /\ \A e : In(e, queue') <=> In(e, queue) \/ e = d
    BY <2>1, InAppend DEF TypeOK
  <2>3. TypeOK'
    BY <2>1, <2>2 DEF TypeOK
  <2>4. Used'
    BY <2>1, <2>2 DEF Used, HasRow, Queued, Processed, TypeOK
  <2>5. NoOrphan'
    BY <2>1, <2>2 DEF NoOrphan, Queued, Processed
  <2>6. QED
    BY <2>1, <2>3, <2>4, <2>5 DEF RowsNeedApp, OkMeansSettled,
       PreviousComplete, NotDeleting, Running
<1>4. CASE ListStale(d)
  BY <1>4 DEF ListStale, TypeOK, HandlerPcs, Used, HasRow, Queued, Processed,
              RowsNeedApp, OkMeansSettled, PreviousComplete, NotDeleting, Running, NoOrphan
<1>5. CASE SupersedeOne(d)
  <2>1. /\ hpc' = hpc \/ hpc' = [hpc EXCEPT ![d] = "done"]
        /\ hpc[d] = "supersede"
        /\ stale' \in [Ids -> SUBSET Ids]
        /\ UNCHANGED <<app, kind, queue, wpc, cur, previous, containers,
                       uploads, bpc, replay, listed, dpc, copy, crashes>>
    BY <1>5 DEF SupersedeOne, TypeOK
  <2>2. /\ status' \in [Ids -> Statuses \cup {"none"}]
        /\ \A x \in Ids : \/ status'[x] = status[x]
                          \/ app /\ HasRow(x) /\ status'[x] = "stopped"
    BY <1>5 DEF SupersedeOne, SaveStatus, TypeOK, Statuses
  <2>3. TypeOK'
    BY <2>1, <2>2 DEF TypeOK, HandlerPcs
  <2>4. Used'
    BY <2>1, <2>2 DEF Used, HasRow, Queued, Processed, TypeOK
  <2>5. RowsNeedApp' /\ OkMeansSettled'
    BY <2>1, <2>2 DEF RowsNeedApp, OkMeansSettled, TypeOK, WorkerPcs, Active
  <2>6. PreviousComplete'
    BY <2>1, <2>2 DEF PreviousComplete, NotDeleting, Running
  <2>7. NoOrphan'
    BY <2>1, <2>2 DEF NoOrphan, Queued, Processed, Active, TypeOK
  <2>8. QED
    BY <2>3, <2>4, <2>5, <2>6, <2>7
<1>6. CASE FinishRequest(d)
  BY <1>6 DEF FinishRequest, TypeOK, HandlerPcs, Used, HasRow, Queued,
              Processed, RowsNeedApp, OkMeansSettled, PreviousComplete,
              Running, NoOrphan
<1>7. QED
  BY <1>1, <1>2, <1>3, <1>4, <1>5, <1>6 DEF Handler

\* A step of the startup task keeps IInv.
LEMMA BootStep == IInv /\ Boot => IInv'
<1> SUFFICES ASSUME IInv, Boot PROVE IInv'
  OBVIOUS
<1> USE DEF IInv, dbVars, handlerVars, workerVars, diskVars, bootFrame,
            deleteVars, NotDeleting
<1>1. CASE CollectInterrupted
  BY <1>1 DEF CollectInterrupted, TypeOK, BootPcs, Used, HasRow, Queued,
              Processed, RowsNeedApp, OkMeansSettled, PreviousComplete,
              Running, NoOrphan
<1>2. ASSUME NEW d \in Ids, ReplayJob(d) PROVE IInv'
  <2>1. /\ queue' = Append(queue, d) /\ Len(queue) < QueueCap
        /\ HasRow(d)
        /\ replay' = replay \ {d}
        /\ UNCHANGED <<app, status, kind, hpc, stale, wpc, cur, previous,
                       containers, uploads, bpc, listed, dpc, copy, crashes>>
    BY <1>2 DEF ReplayJob
  <2>2. /\ queue' \in Seq(Ids) /\ Len(queue') <= QueueCap
        /\ \A e : In(e, queue') <=> In(e, queue) \/ e = d
    BY <2>1, InAppend DEF TypeOK
  <2>3. TypeOK'
    BY <2>1, <2>2 DEF TypeOK
  <2>4. Used'
    BY <2>1, <2>2 DEF Used, HasRow, Queued, Processed
  <2>5. NoOrphan'
    BY <2>1, <2>2 DEF NoOrphan, Queued, Processed
  <2>6. QED
    BY <2>1, <2>3, <2>4, <2>5 DEF RowsNeedApp, OkMeansSettled,
       PreviousComplete, NotDeleting, Running
<1>3. ASSUME NEW d \in Ids, ReplayFails(d) PROVE IInv'
  BY <1>3 DEF ReplayFails, TypeOK, BootPcs, Used, HasRow, Queued, Processed,
              RowsNeedApp, OkMeansSettled, PreviousComplete, NotDeleting, Running, NoOrphan
<1>4. ASSUME NEW d \in Ids, MarkReplayedFailed(d) PROVE IInv'
  <2>1. /\ bpc = "fail" /\ bpc' = "replay"
        /\ replay' = replay \ {d}
        /\ UNCHANGED <<app, kind, queue, hpc, stale, wpc, cur, previous,
                       containers, uploads, listed, dpc, copy, crashes>>
    BY <1>4 DEF MarkReplayedFailed
  <2>2. /\ status' \in [Ids -> Statuses \cup {"none"}]
        /\ status'[d] \notin Active
        /\ \A x \in Ids : \/ status'[x] = status[x]
                          \/ app /\ HasRow(x) /\ status'[x] = "failed"
    BY <1>4 DEF MarkReplayedFailed, HasRow, SaveStatus, TypeOK, Statuses,
                Active, RowsNeedApp
  <2>3. TypeOK'
    BY <2>1, <2>2 DEF TypeOK, BootPcs
  <2>4. Used'
    BY <2>1, <2>2 DEF Used, HasRow, Queued, Processed
  <2>5. RowsNeedApp' /\ OkMeansSettled'
    BY <2>1, <2>2 DEF RowsNeedApp, OkMeansSettled, TypeOK, WorkerPcs, Active
  <2>6. PreviousComplete'
    BY <2>1, <2>2 DEF PreviousComplete, NotDeleting, Running
  <2>7. NoOrphan'
    BY <2>1, <2>2 DEF NoOrphan, Queued, Processed, Active, TypeOK
  <2>8. QED
    BY <2>3, <2>4, <2>5, <2>6, <2>7
<1>5. CASE ListContainers
  BY <1>5 DEF ListContainers, TypeOK, BootPcs, Used, HasRow, Queued, Processed,
              RowsNeedApp, OkMeansSettled, PreviousComplete, NotDeleting, Running, NoOrphan
<1>6. CASE RestoreApp
  <2>1. /\ bpc = "restore" /\ bpc' = "off"
        /\ UNCHANGED <<replay, listed>>
    BY <1>6 DEF RestoreApp
  <2>2. CASE \E d \in Ids : SavePending(d, "restore")
    BY <2>1, <2>2, SaveStep
  <2>3. CASE UNCHANGED <<status, kind, queue, diskVars, replay, listed,
                         bootFrame>>
    BY <2>1, <2>3 DEF TypeOK, BootPcs, Used, HasRow, Queued, Processed,
       RowsNeedApp, OkMeansSettled, PreviousComplete, NotDeleting, Running, NoOrphan
  <2>4. QED
    BY <1>6, <2>2, <2>3 DEF RestoreApp
<1>7. QED
  BY <1>1, <1>2, <1>3, <1>4, <1>5, <1>6 DEF Boot

\* Deleting the app keeps IInv: while it lasts IInv claims little, and at the
\* end no row is left to be orphaned.
LEMMA DeleteStep == IInv /\ Delete => IInv'
<1> SUFFICES ASSUME IInv, Delete PROVE IInv'
  OBVIOUS
<1> USE DEF IInv, dbVars, handlerVars, workerVars, diskVars, bootVars, TypeOK,
            DeletePcs, Statuses, Active, NotDeleting, Used, HasRow, Queued,
            Processed, RowsNeedApp, OkMeansSettled, PreviousComplete, Running,
            NoOrphan
<1>1. CASE DeleteRead
  <2>1. UNCHANGED <<app, status, kind, queue, hpc, stale, wpc, cur, previous,
                    containers, uploads, bpc, replay, listed, crashes>>
    BY <1>1 DEF DeleteRead
  <2>2. CASE dpc' = "runtime" /\ copy' = copy
    BY <2>1, <2>2
  <2>3. CASE dpc' = "stop" /\ \E d \in Ids :
               HasRow(d) /\ copy' = [id |-> d, status |-> status[d]]
    <3>1. PICK d \in Ids : HasRow(d) /\ copy' = [id |-> d, status |-> status[d]]
      BY <2>3
    <3>2. copy' \in [id : Ids, status : Statuses \cup {"none"}]
      BY <3>1
    <3>3. copy' # NoCopy
      <4>1. copy'.id # 0
        BY <3>1 DEF Ids
      <4>2. QED
        BY <4>1 DEF NoCopy
    <3>4. hpc[copy'.id] # "new"
      BY <3>1
    <3>5. QED
      BY <2>1, <2>3, <3>2, <3>3, <3>4
  <2>4. QED
    BY <1>1, <2>2, <2>3 DEF DeleteRead, Resolved
<1>2. CASE StopService
  <2>1. copy.id \in Ids /\ copy.status \in Statuses \cup {"none"}
    BY <1>2 DEF StopService
  <2>2. TypeOK'
    BY <1>2, <2>1 DEF StopService, SaveStatus
  <2>3. Used'
    BY <1>2, <2>1 DEF StopService, SaveStatus
  <2>4. RowsNeedApp'
    BY <1>2, <2>1 DEF StopService, SaveStatus
  <2>5. QED
    BY <1>2, <2>2, <2>3, <2>4 DEF StopService
<1>3. CASE DeleteRuntime
  BY <1>3 DEF DeleteRuntime
<1>4. CASE DeleteApp
  BY <1>4 DEF DeleteApp
<1>5. CASE DeleteFails
  BY <1>5 DEF DeleteFails
<1>6. QED
  BY <1>1, <1>2, <1>3, <1>4, <1>5 DEF Delete, FinishDelete

\* A crash keeps IInv: whatever it interrupts, the startup task collects.
LEMMA CrashStep == IInv /\ Crash => IInv'
<1> SUFFICES ASSUME IInv, Crash PROVE IInv'
  OBVIOUS
<1> USE DEF IInv, Crash, EndJob, dbVars, diskVars, NotDeleting, DeletePcs
<1>1. TypeOK'
  BY DEF TypeOK, HandlerPcs, WorkerPcs, BootPcs
<1>2. Used'
  BY InEmpty DEF Used, HasRow, Queued, Processed, TypeOK
<1>3. RowsNeedApp' /\ OkMeansSettled' /\ PreviousComplete'
  BY DEF RowsNeedApp, OkMeansSettled, PreviousComplete
<1>4. NoOrphan'
  BY DEF NoOrphan
<1>5. QED
  BY <1>1, <1>2, <1>3, <1>4

\* Every step keeps IInv.
LEMMA NextIInv == IInv /\ [Next]_vars => IInv'
<1> SUFFICES ASSUME IInv, [Next]_vars PROVE IInv'
  OBVIOUS
<1>1. ASSUME NEW d \in Ids,
             CreateDeployment(d) \/ DropRequest(d) \/ Handler(d)
      PROVE  IInv'
  BY <1>1, HandlerStep
<1>2. CASE Worker
  BY <1>2, WorkerStep
<1>3. CASE Boot
  BY <1>3, BootStep
<1>4. CASE Delete
  BY <1>4, DeleteStep
<1>5. CASE Crash
  BY <1>5, CrashStep
<1>6. CASE UNCHANGED vars
  BY <1>6 DEF IInv, vars, dbVars, handlerVars, workerVars, diskVars, bootVars,
              deleteVars,
              TypeOK, Used, HasRow, Queued, Processed, RowsNeedApp,
              OkMeansSettled, PreviousComplete, NotDeleting, Running, NoOrphan
<1>7. QED
  BY <1>1, <1>2, <1>3, <1>4, <1>5, <1>6 DEF Next

\* IInv is an invariant of the deployment pipeline.
THEOREM Invariance == Spec => []IInv
<1>1. QED
  BY InitIInv, NextIInv, PTL DEF Spec

\* Every variable keeps its type: the job channel never exceeds its capacity
\* and a worker that is not idle has a deployment (deployment_tx, run).
THEOREM TypeCorrect == Spec => []TypeOK
<1>1. IInv => TypeOK
  BY DEF IInv
<1>2. QED
  BY <1>1, Invariance, PTL

\* No accepted deployment is lost (queue_deployment, run, process_job,
\* replay_interrupted_deployments), whatever crashes and deletions do.
THEOREM NoDeploymentOrphaned == Spec => []NoOrphan
<1>1. IInv => NoOrphan
  BY DEF IInv
<1>2. QED
  BY <1>1, Invariance, PTL

\* When deploy_services has marked the predecessors, the deployment it rolled
\* out is the only Running one.
THEOREM RolloutIsSole == Spec => []SoleAfterRollout
<1>1. IInv => SoleAfterRollout
  BY DEF IInv, PreviousComplete, SoleAfterRollout
<1>2. QED
  BY <1>1, Invariance, PTL

-----------------------------------------------------------------------------
(* An undisturbed app *)

\* The process starts with nothing queued, built or uploaded.
LEMMA InitSteady == Init => SteadyInv
<1> SUFFICES ASSUME Init PROVE SteadyInv
  OBVIOUS
<1>1. AppStands /\ KindOnceUsed
  BY DEF Init, AppStands, KindOnceUsed, Running
<1>2. SourcesOwned /\ ContainersFollow
  BY DEF Init, SourcesOwned, ContainersFollow, Running
<1>3. JobsRunOnce
  BY InEmpty DEF Init, JobsRunOnce, Undisturbed, Queued, Processed
<1>4. RowsSettle /\ NobodySupersedes
  BY DEF Init, RowsSettle, NobodySupersedes, Running
<1>5. QED
  BY <1>1, <1>2, <1>3, <1>4 DEF SteadyInv

\* Receiving the first job of a channel without repetitions leaves one without
\* repetitions and without that job.
LEMMA TailOnce ==
  ASSUME NEW S, NEW s \in Seq(S), s # <<>>,
         \A i, j \in 1..Len(s) : s[i] = s[j] => i = j
  PROVE  /\ \A i, j \in 1..Len(Tail(s)) : Tail(s)[i] = Tail(s)[j] => i = j
         /\ ~In(Head(s), Tail(s))
<1>1. /\ Len(Tail(s)) = Len(s) - 1
      /\ \A i \in 1..Len(Tail(s)) : Tail(s)[i] = s[i + 1]
      /\ Head(s) = s[1] /\ Len(s) \in Nat /\ Len(s) >= 1
  OBVIOUS
<1>2. QED
  BY <1>1 DEF In

\* Sending a job that is not in the channel repeats none.
LEMMA AppendOnce ==
  ASSUME NEW S, NEW s \in Seq(S), NEW e \in S, ~In(e, s),
         \A i, j \in 1..Len(s) : s[i] = s[j] => i = j
  PROVE  \A i, j \in 1..Len(Append(s, e)) :
            Append(s, e)[i] = Append(s, e)[j] => i = j
  BY DEF In

\* A step of the worker keeps SteadyInv.
LEMMA SteadyWorker == IInv /\ SteadyInv /\ Worker => SteadyInv'
<1> SUFFICES ASSUME IInv, SteadyInv, Worker PROVE SteadyInv'
  OBVIOUS
<1> USE DEF SteadyInv, AppStands, KindOnceUsed, SourcesOwned,
            JobsRunOnce, RowsSettle, ContainersFollow, NobodySupersedes,
            Over, Queued, Processed, Running, Undisturbed, NoWebhooks,
            NotDeleting, SaveStatus, Goto, EndJob, workerFrame, handlerVars,
            bootVars, deleteVars, diskVars, Superseded, IInv, TypeOK,
            PreviousComplete, RowsNeedApp
<1>1. CASE Recv
  <2>1. queue \in Seq(Ids) /\ queue # <<>>
    BY <1>1 DEF Recv
  <2>2. /\ cur' \in Ids
        /\ In(cur', queue)
        /\ \A d : In(d, queue') => In(d, queue)
        /\ \A d : In(d, queue) => d = cur' \/ In(d, queue')
    BY <1>1, <2>1, InTail DEF Recv
  <2>3. Undisturbed =>
          /\ \A i, j \in 1..Len(queue') : queue'[i] = queue'[j] => i = j
          /\ ~In(cur', queue')
    BY <1>1, <2>1, TailOnce DEF Recv
  <2>4. /\ wpc = "idle" /\ wpc' = "load"
        /\ UNCHANGED <<app, status, kind, hpc, stale, previous, containers,
                       uploads, bpc, replay, listed, dpc, copy, crashes>>
    BY <1>1 DEF Recv
  <2>5. AppStands' /\ KindOnceUsed' /\ SourcesOwned'
    BY <2>2, <2>4
  <2>6. JobsRunOnce'
    BY <2>2, <2>3, <2>4
  <2>7. \A d \in Ids : Undisturbed /\ Over(d) => Over(d)'
    BY <2>2, <2>4
  <2>8. RowsSettle' /\ ContainersFollow' /\ NobodySupersedes'
    BY <2>4, <2>7
  <2>9. QED
    BY <2>5, <2>6, <2>8
<1>2. CASE Load
  BY <1>2 DEF Load
<1>3. CASE SetCloning
  BY <1>3 DEF SetCloning, UpdateStatus
<1>4. CASE CloneRepo
  BY <1>4 DEF CloneRepo, Continues
<1>5. CASE CheckClone
  BY <1>5 DEF CheckClone, ShouldContinue
<1>6. CASE SetBuilding
  BY <1>6 DEF SetBuilding, UpdateStatus
<1>7. CASE BuildImages
  BY <1>7 DEF BuildImages, Continues
<1>8. CASE CheckBuild
  BY <1>8 DEF CheckBuild, ShouldContinue
<1>9. CASE SetStarting
  BY <1>9 DEF SetStarting, UpdateStatus
<1>10. CASE CheckStarting
  BY <1>10 DEF CheckStarting, ShouldContinue
<1>11. CASE CreateNetwork
  BY <1>11 DEF CreateNetwork, Continues
<1>12. CASE GetPreviousRunning
  BY <1>12 DEF GetPreviousRunning
<1>13. CASE StopOld
  BY <1>13 DEF StopOld
<1>14. CASE CreateContainers
  BY <1>14 DEF CreateContainers
<1>15. CASE WaitHealthy
  BY <1>15 DEF WaitHealthy
<1>16. CASE DiscardNew
  BY <1>16 DEF DiscardNew
<1>17. CASE SaveRunning
  BY <1>17 DEF SaveRunning, UpdateStatus
<1>18. CASE RemoveOld
  BY <1>18 DEF RemoveOld
<1>19. CASE MarkStopped
  BY <1>19 DEF MarkStopped
<1>20. CASE FinishRollout
  BY <1>20 DEF FinishRollout
<1>21. CASE CleanupSource
  BY <1>21 DEF CleanupSource
<1>22. CASE FailRead
  BY <1>22 DEF FailRead
<1>23. CASE FailWrite
  BY <1>23 DEF FailWrite
<1>24. ASSUME NEW pc \in {"load", "clone", "build", "network", "previous"},
             JobFails(pc)
       PROVE SteadyInv'
  BY <1>24 DEF JobFails
<1>25. CASE NoRollbackImage \/ CloneFails
  BY <1>24, <1>25 DEF NoRollbackImage, CloneFails
<1>26. CASE NoBuildContext \/ NoDockerfile \/ NoSiblingImage \/ ImageBuildFails
  BY <1>24, <1>26
  DEF NoBuildContext, NoDockerfile, NoSiblingImage, ImageBuildFails
<1>27. CASE NetworkFails \/ DependencyCycle
  BY <1>24, <1>27 DEF NetworkFails, DependencyCycle
<1>28. QED
  BY <1>1, <1>2, <1>3, <1>4, <1>5, <1>6, <1>7, <1>8, <1>9, <1>10, <1>11, <1>12,
     <1>13, <1>14, <1>15, <1>16, <1>17, <1>18, <1>19, <1>20, <1>21, <1>22,
     <1>23, <1>25, <1>26, <1>27 DEF Worker

\* Creating a deployment keeps SteadyInv: its number was in nobody's hands.
LEMMA SteadySave ==
  ASSUME IInv, SteadyInv, NEW d \in Ids, NEW k \in UserKinds \cup {"restore"},
         SavePending(d, k), UNCHANGED <<replay, listed>>,
         bpc' = bpc \/ (bpc = "restore" /\ bpc' = "off")
  PROVE  SteadyInv'
<1> USE DEF IInv, SteadyInv, SavePending, IsNext, GotoH, workerVars,
            deleteVars, NotDeleting, TypeOK, Undisturbed, Queued, Processed
<1>1. AppStands' /\ KindOnceUsed'
  BY DEF AppStands, KindOnceUsed, Running
<1>2. SourcesOwned' /\ JobsRunOnce'
  BY DEF SourcesOwned, JobsRunOnce, Used
<1>3. \A e \in Ids : Undisturbed /\ Over(e) => Over(e)' /\ e # d
  BY DEF Over
<1>4. Processed(d) => FALSE
  BY DEF Used
<1>5. RowsSettle' /\ ContainersFollow'
  BY <1>3, <1>4 DEF RowsSettle, ContainersFollow, Running, Used
<1>6. NobodySupersedes'
  <2>1. NoWebhooks' => NoWebhooks
    BY DEF NoWebhooks, KindOnceUsed
  <2>2. QED
    BY <1>3, <1>4, <2>1 DEF NobodySupersedes
<1>7. QED
  BY <1>1, <1>2, <1>5, <1>6

\* A step of a request's handler keeps SteadyInv.
LEMMA SteadyHandler ==
  ASSUME IInv, SteadyInv, NEW d \in Ids,
         CreateDeployment(d) \/ DropRequest(d) \/ Handler(d)
  PROVE  SteadyInv'
<1> USE DEF GotoH, dbVars, workerVars, diskVars, bootVars, deleteVars,
            SaveStatus
<1>1. CASE CreateDeployment(d)
  BY <1>1, SteadySave
  DEF CreateDeployment, AutoDeployKinds, GithubWebhook, DeployWebhook,
      TriggerDeployment, RollbackDeployment, DeployUpload, DeployDockerfile,
      UserKinds
<1> USE DEF SteadyInv, AppStands, KindOnceUsed, SourcesOwned,
            JobsRunOnce, RowsSettle, ContainersFollow, NobodySupersedes,
            Over, Queued, Processed, Running, Undisturbed, NoWebhooks,
            NotDeleting, IInv, TypeOK
<1>2. CASE DropRequest(d)
  BY <1>2 DEF DropRequest
<1>3. CASE SendJob(d)
  <2>1. /\ queue' = Append(queue, d)
        /\ hpc[d] = "saved"
        /\ hpc' = [hpc EXCEPT ![d] =
                      IF kind[d] = "webhook" THEN "list" ELSE "done"]
        /\ UNCHANGED <<app, status, kind, stale, wpc, cur, previous,
                       containers, uploads, bpc, replay, listed, dpc, copy,
                       crashes>>
    BY <1>3 DEF SendJob
  <2>2. \A e : In(e, queue') <=> In(e, queue) \/ e = d
    BY <2>1, InAppend
  <2>3. Undisturbed =>
          \A i, j \in 1..Len(queue') : queue'[i] = queue'[j] => i = j
    BY <2>1, AppendOnce
  <2>4. AppStands' /\ KindOnceUsed' /\ SourcesOwned'
    BY <2>1, <2>2
  <2>5. JobsRunOnce'
    BY <2>1, <2>2, <2>3
  <2>6. \A e \in Ids : Undisturbed /\ Over(e) => Over(e)'
    BY <2>1, <2>2
  <2>7. RowsSettle' /\ ContainersFollow' /\ NobodySupersedes'
    BY <2>1, <2>6
  <2>8. QED
    BY <2>4, <2>5, <2>7
<1>4. CASE ListStale(d)
  BY <1>4 DEF ListStale
<1>5. CASE SupersedeOne(d)
  <2>1. /\ hpc' = hpc \/ hpc' = [hpc EXCEPT ![d] = "done"]
        /\ hpc[d] = "supersede"
        /\ UNCHANGED <<app, kind, queue, wpc, cur, previous, containers,
                       uploads, bpc, replay, listed, dpc, copy, crashes>>
    BY <1>5 DEF SupersedeOne
  <2>2. \A x \in Ids : status'[x] = status[x] \/ status'[x] = "stopped"
    BY <1>5 DEF SupersedeOne
  <2>3. \A e \in Ids : Over(e) => Over(e)'
    BY <2>1
  <2>4. AppStands' /\ KindOnceUsed' /\ SourcesOwned'
    BY <2>1, <2>2
  <2>5. JobsRunOnce' /\ RowsSettle'
    BY <2>1, <2>2, <2>3
  <2>6. ContainersFollow' /\ NobodySupersedes'
    BY <2>1, <2>2, <2>3
  <2>7. QED
    BY <2>4, <2>5, <2>6
<1>6. CASE FinishRequest(d)
  BY <1>6 DEF FinishRequest
<1>7. QED
  BY <1>1, <1>2, <1>3, <1>4, <1>5, <1>6 DEF Handler

\* A step of the startup task keeps SteadyInv.
LEMMA SteadyBoot == IInv /\ SteadyInv /\ Boot => SteadyInv'
<1> SUFFICES ASSUME IInv, SteadyInv, Boot PROVE SteadyInv'
  OBVIOUS
<1> USE DEF dbVars, handlerVars, workerVars, diskVars, bootFrame, deleteVars,
            SaveStatus
<1>1. CASE RestoreApp
  <2>1. /\ bpc = "restore" /\ bpc' = "off"
        /\ UNCHANGED <<replay, listed>>
    BY <1>1 DEF RestoreApp
  <2>2. CASE \E d \in Ids : SavePending(d, "restore")
    BY <2>1, <2>2, SteadySave
  <2>3. CASE UNCHANGED <<status, kind, queue, diskVars, replay, listed,
                         bootFrame>>
    BY <2>1, <2>3
    DEF SteadyInv, AppStands, KindOnceUsed, SourcesOwned,
        JobsRunOnce, RowsSettle, ContainersFollow, NobodySupersedes,
        Queued, Processed, Running, Undisturbed, NotDeleting
  <2>4. QED
    BY <1>1, <2>2, <2>3 DEF RestoreApp
<1>2. CASE ~RestoreApp
  <2>1. /\ bpc # "off"
        /\ UNCHANGED <<app, kind, hpc, wpc, cur, uploads, dpc, crashes>>
        /\ \A x \in Ids : status'[x] = status[x] \/ status'[x] = "failed"
        /\ \A x \in Ids : Queued(x) => Queued(x)'
    <3>1. CASE CollectInterrupted \/ ListContainers
      BY <3>1 DEF CollectInterrupted, ListContainers, Queued
    <3>2. ASSUME NEW d \in Ids, ReplayJob(d) PROVE <2>1!:
      BY <3>2, InAppend DEF ReplayJob, Queued, IInv, TypeOK
    <3>3. ASSUME NEW d \in Ids, ReplayFails(d) \/ MarkReplayedFailed(d)
          PROVE <2>1!:
      BY <3>3 DEF ReplayFails, MarkReplayedFailed, Queued, IInv, TypeOK
    <3>4. QED
      BY <1>2, <3>1, <3>2, <3>3 DEF Boot
  <2>2. ~Undisturbed /\ ~Undisturbed'
    BY <2>1 DEF SteadyInv, JobsRunOnce, Undisturbed
  <2>3. AppStands' /\ KindOnceUsed' /\ SourcesOwned'
    BY <2>1
    DEF SteadyInv, AppStands, KindOnceUsed, SourcesOwned,
        Running, Processed, NotDeleting, IInv, TypeOK
  <2>4. QED
    BY <2>2, <2>3
    DEF SteadyInv, JobsRunOnce, RowsSettle, ContainersFollow, NobodySupersedes
<1>3. QED
  BY <1>1, <1>2

\* Deleting the app keeps SteadyInv, which is silent once somebody asked for it.
LEMMA SteadyDelete == IInv /\ SteadyInv /\ Delete => SteadyInv'
<1> SUFFICES ASSUME IInv, SteadyInv, Delete PROVE SteadyInv'
  OBVIOUS
<1>1. /\ dpc' # "idle"
      /\ dpc' = "done" => status' = [d \in Ids |-> "none"]
      /\ UNCHANGED <<kind, hpc, queue, wpc, cur, uploads, crashes>>
  BY DEF Delete, FinishDelete, DeleteRead, StopService, DeleteRuntime,
         DeleteApp, DeleteFails, dbVars, handlerVars, workerVars, diskVars
<1>2. ~Undisturbed'
  BY <1>1 DEF Undisturbed
<1>3. AppStands' /\ KindOnceUsed' /\ SourcesOwned'
  BY <1>1
  DEF SteadyInv, AppStands, KindOnceUsed, SourcesOwned,
      Running, Queued, Processed, NotDeleting
<1>4. QED
  BY <1>2, <1>3
  DEF SteadyInv, JobsRunOnce, RowsSettle, ContainersFollow, NobodySupersedes

\* A crash keeps SteadyInv, which is about a process that never died.
LEMMA SteadyCrash == IInv /\ SteadyInv /\ Crash => SteadyInv'
<1> SUFFICES ASSUME IInv, SteadyInv, Crash PROVE SteadyInv'
  OBVIOUS
<1>1. crashes' # 0
  BY DEF Crash, IInv, TypeOK
<1>2. AppStands' /\ KindOnceUsed'
  BY DEF Crash, SteadyInv, AppStands, KindOnceUsed, dbVars, IInv, TypeOK
<1>3. QED
  BY <1>1, <1>2
  DEF SteadyInv, SourcesOwned, JobsRunOnce, RowsSettle,
      ContainersFollow, NobodySupersedes, Undisturbed

\* Every step keeps SteadyInv.
LEMMA NextSteady == IInv /\ SteadyInv /\ [Next]_vars => SteadyInv'
<1> SUFFICES ASSUME IInv, SteadyInv, [Next]_vars PROVE SteadyInv'
  OBVIOUS
<1>1. ASSUME NEW d \in Ids,
             CreateDeployment(d) \/ DropRequest(d) \/ Handler(d)
      PROVE  SteadyInv'
  BY <1>1, SteadyHandler
<1>2. CASE Worker
  BY <1>2, SteadyWorker
<1>3. CASE Boot
  BY <1>3, SteadyBoot
<1>4. CASE Delete
  BY <1>4, SteadyDelete
<1>5. CASE Crash
  BY <1>5, SteadyCrash
<1>6. CASE UNCHANGED vars
  BY <1>6
  DEF vars, dbVars, handlerVars, workerVars, diskVars, bootVars, deleteVars,
      SteadyInv, AppStands, KindOnceUsed, SourcesOwned,
      JobsRunOnce, RowsSettle, ContainersFollow, NobodySupersedes, Over,
      Queued, Processed, Running, Undisturbed, NoWebhooks, NotDeleting
<1>7. QED
  BY <1>1, <1>2, <1>3, <1>4, <1>5, <1>6 DEF Next

\* SteadyInv is an invariant of the deployment pipeline.
THEOREM SteadyInvariance == Spec => []SteadyInv
<1>1. QED
  BY InitSteady, NextSteady, Invariance, PTL DEF Spec

\* What a step does to the Running deployments: it adds none, and a rollout ends with its
\* own at most; or it saves its own, which takes over; or the process dies.
RunningEffect ==
  \/ /\ Running' \subseteq Running /\ crashes' = crashes
     /\ ~TakesOver \/ TakesOver' \/ Running' \subseteq {cur}
  \/ /\ Running' \subseteq Running \cup {cur} /\ crashes' = crashes
     /\ ~TakesOver /\ TakesOver'
  \/ Running' = Running /\ crashes' = crashes + 1

\* The worker has such an effect.
LEMMA WorkerRuns ==
  ASSUME IInv, NotDeleting, Worker
  PROVE  RunningEffect
<1> USE DEF IInv, TypeOK, SaveStatus, Goto, EndJob, workerFrame, TakesOver
<1>1. CASE SaveRunning
  <2>1. CASE app
    BY <1>1, <2>1 DEF SaveRunning, UpdateStatus, RunningEffect, Running
  <2>2. CASE ~app
    BY <1>1, <2>2 DEF SaveRunning, UpdateStatus, RunningEffect, Running
  <2>3. QED
    BY <2>1, <2>2
<1>2. CASE MarkStopped
  <2>1. CASE app
    BY <1>2, <2>1 DEF MarkStopped, RunningEffect, Running
  <2>2. CASE ~app
    <3>1. status' = status /\ crashes' = crashes
      BY <1>2, <2>2 DEF MarkStopped
    <3>2. Running' = {}
      BY <2>2, <3>1 DEF Running, RowsNeedApp
    <3>3. QED
      BY <3>1, <3>2 DEF RunningEffect
  <2>3. QED
    BY <2>1, <2>2
<1>3. CASE FinishRollout
  BY <1>3 DEF FinishRollout, RunningEffect, Running, PreviousComplete
<1>4. CASE RemoveOld
  BY <1>4 DEF RemoveOld, RunningEffect, Running
<1>5. CASE ~(SaveRunning \/ MarkStopped \/ FinishRollout \/ RemoveOld)
  <2>1. /\ ~TakesOver /\ crashes' = crashes
        /\ \A d \in Ids : status'[d] = "running" => status[d] = "running"
    BY <1>5
    DEF Worker, Recv, Load, JobFails, NoRollbackImage, SetCloning,
        UpdateStatus, CloneRepo, CloneFails, CheckClone, SetBuilding,
        BuildImages, NoBuildContext, NoDockerfile, NoSiblingImage,
        ImageBuildFails, CheckBuild, SetStarting, CheckStarting,
        CreateNetwork, NetworkFails, DependencyCycle, GetPreviousRunning,
        StopOld, CreateContainers, WaitHealthy, DiscardNew, CleanupSource,
        FailRead, FailWrite, Continues, ShouldContinue
  <2>2. QED
    BY <2>1 DEF RunningEffect, Running
<1>6. QED
  BY <1>1, <1>2, <1>3, <1>4, <1>5

\* So has every other step, and a deletion that ends well leaves nobody Running.
LEMMA EveryoneRuns ==
  ASSUME IInv, [Next]_vars, NotDeleting'
  PROVE  (RunningEffect /\ NotDeleting) \/ Running' = {}
<1> USE DEF IInv, TypeOK, SaveStatus
<1> DEFINE Quiet == /\ UNCHANGED <<wpc, cur, crashes, dpc>>
                    /\ \A d \in Ids : status'[d] = "running" => status[d] = "running"
<1>1. ASSUME Quiet PROVE RunningEffect /\ NotDeleting
  BY <1>1 DEF RunningEffect, Running, TakesOver, NotDeleting
<1>2. ASSUME NEW d \in Ids, NEW k, SavePending(d, k) PROVE Quiet
  BY <1>2 DEF SavePending, workerVars, deleteVars
<1>3. ASSUME NEW d \in Ids, CreateDeployment(d) \/ DropRequest(d) \/ Handler(d)
      PROVE  Quiet
  <2>1. CASE CreateDeployment(d)
    BY <1>2, <2>1 DEF CreateDeployment, GithubWebhook, DeployWebhook,
      TriggerDeployment, RollbackDeployment, DeployUpload, DeployDockerfile
  <2>2. CASE DropRequest(d) \/ Handler(d)
    BY <2>2 DEF DropRequest, Handler, SendJob, ListStale, SupersedeOne,
                FinishRequest, dbVars, workerVars, deleteVars
  <2>3. QED
    BY <1>3, <2>1, <2>2
<1>4. CASE Worker
  <2>1. dpc' = dpc
    BY <1>4
    DEF Worker, Recv, Load, JobFails, NoRollbackImage, SetCloning,
        UpdateStatus, CloneRepo, CloneFails, CheckClone, SetBuilding,
        BuildImages, NoBuildContext, NoDockerfile, NoSiblingImage,
        ImageBuildFails, CheckBuild, SetStarting, CheckStarting,
        CreateNetwork, NetworkFails, DependencyCycle, GetPreviousRunning,
        StopOld, CreateContainers, WaitHealthy, DiscardNew, SaveRunning,
        RemoveOld, MarkStopped, FinishRollout, CleanupSource, FailRead,
        FailWrite, Continues, ShouldContinue, workerFrame, deleteVars
  <2>2. QED
    BY <1>4, <2>1, WorkerRuns DEF NotDeleting
<1>5. ASSUME Boot PROVE Quiet
  <2>1. CASE RestoreApp
    BY <1>2, <2>1 DEF RestoreApp, bootFrame, workerVars, deleteVars
  <2>2. CASE ~RestoreApp
    BY <1>5, <2>2
    DEF Boot, CollectInterrupted, ReplayJob, ReplayFails, MarkReplayedFailed,
        ListContainers, bootFrame, workerVars, deleteVars
  <2>3. QED
    BY <2>1, <2>2
<1>6. CASE Delete
  <2>1. status' = [d \in Ids |-> "none"]
    BY <1>6 DEF Delete, FinishDelete, DeleteRead, StopService, DeleteRuntime,
                DeleteApp, DeleteFails, NotDeleting
  <2>2. QED
    BY <2>1 DEF Running
<1>7. CASE Crash
  BY <1>7 DEF Crash, dbVars, Running, RunningEffect, NotDeleting
<1>8. CASE UNCHANGED vars
  <2>1. Quiet
    BY <1>8 DEF vars, dbVars, workerVars, deleteVars
  <2>2. QED
    BY <1>1, <2>1
<1>9. QED
  BY <1>1, <1>3, <1>4, <1>5, <1>6, <1>7, <1>8 DEF Next

\* The bound on the Running deployments is kept.
LEMMA NextCounted == IInv /\ RunningCounted /\ [Next]_vars /\ IInv' => RunningCounted'
<1> SUFFICES ASSUME IInv, RunningCounted, [Next]_vars, IInv', NotDeleting'
             PROVE  Cardinality(Running') <= 1 + crashes' + IF TakesOver' THEN 1 ELSE 0
  BY DEF RunningCounted
<1> DEFINE n == Cardinality(Running)
           m == Cardinality(Running')
<1>1. crashes \in Nat /\ crashes' \in Nat
  BY DEF IInv, TypeOK
<1>2. /\ IsFiniteSet(Running) /\ IsFiniteSet(Running')
      /\ n \in Nat /\ m \in Nat
  <2>1. IsFiniteSet(Ids)
    BY FS_Interval DEF Ids
  <2>2. Running \in SUBSET Ids /\ Running' \in SUBSET Ids
    BY DEF Running
  <2>3. IsFiniteSet(Running) /\ IsFiniteSet(Running')
    BY <2>1, <2>2, FS_Subset
  <2>4. QED
    BY <2>3, FS_CardinalityType
<1>3. /\ Running' = {} => m = 0
      /\ Running' \subseteq {cur} => m <= 1
      /\ Running' \subseteq Running => m <= n
      /\ Running' \subseteq Running \cup {cur} => m <= n + 1
  <2>1. IsFiniteSet({cur}) /\ Cardinality({cur}) = 1 /\ Cardinality({}) = 0
    BY FS_Singleton, FS_EmptySet
  <2>2. /\ IsFiniteSet(Running \cup {cur})
        /\ Cardinality(Running \cup {cur}) \in {n, n + 1}
    BY <1>2, FS_AddElement
  <2>3. Running' \subseteq {cur} => m <= 1
    BY <2>1, FS_Subset
  <2>4. Running' \subseteq Running => m <= n
    BY <1>2, FS_Subset
  <2>5. Running' \subseteq Running \cup {cur} => m <= Cardinality(Running \cup {cur})
    BY <2>2, FS_Subset
  <2>6. Running' = {} => m = 0
    BY <2>1
  <2> HIDE DEF n, m
  <2>7. Running' \subseteq Running \cup {cur} => m <= n + 1
    BY <1>2, <2>2, <2>5
  <2>8. QED
    BY <2>3, <2>4, <2>6, <2>7
<1>4. (RunningEffect /\ NotDeleting) \/ Running' = {}
  BY EveryoneRuns
<1>5. NotDeleting => n <= 1 + crashes + IF TakesOver THEN 1 ELSE 0
  BY DEF RunningCounted
<1> HIDE DEF n, m
<1>6. m <= 1 + crashes' + IF TakesOver' THEN 1 ELSE 0
  <2>1. CASE Running' = {} \/ (Running' \subseteq {cur})
    <3>1. m <= 1
      BY <1>3, <2>1
    <3>2. \A x, c \in Nat : x <= 1 => x <= 1 + c + 0 /\ x <= 1 + c + 1
      OBVIOUS
    <3>3. m <= 1 + crashes' + 0 /\ m <= 1 + crashes' + 1
      BY <1>1, <1>2, <3>1, <3>2
    <3>4. QED
      BY <3>3
  <2>2. CASE /\ Running' \subseteq Running /\ crashes' = crashes /\ NotDeleting
             /\ ~TakesOver \/ TakesOver'
    BY <1>1, <1>2, <1>3, <1>5, <2>2
  <2>3. CASE /\ Running' \subseteq Running \cup {cur} /\ crashes' = crashes
             /\ ~TakesOver /\ TakesOver' /\ NotDeleting
    BY <1>1, <1>2, <1>3, <1>5, <2>3
  <2>4. CASE Running' = Running /\ crashes' = crashes + 1 /\ NotDeleting
    BY <1>1, <1>2, <1>3, <1>5, <2>4
  <2>5. QED
    BY <1>4, <2>1, <2>2, <2>3, <2>4 DEF RunningEffect
<1>7. QED
  BY <1>6 DEF m

\* Whatever webhooks, rollbacks and the startup task do, an idle worker leaves at most
\* one Running deployment, and one more for every crash there was (deploy_services,
\* mark_deployment_stopped).
THEOREM IdleMeansOne == Spec => []OneRunningWhenIdle
<1>1. Init => RunningCounted
  <2> SUFFICES ASSUME Init PROVE RunningCounted
    OBVIOUS
  <2>1. Running = {} /\ crashes = 0
    BY DEF Init, Running
  <2>2. Cardinality(Running) = 0
    BY <2>1, FS_EmptySet
  <2>3. QED
    BY <2>1, <2>2 DEF RunningCounted
<1>2. IInv /\ RunningCounted => OneRunningWhenIdle
  BY DEF RunningCounted, OneRunningWhenIdle, TakesOver, IInv, TypeOK
<1>3. QED
  BY <1>1, <1>2, NextCounted, Invariance, PTL DEF Spec

\* The rows agree with docker and the disk through every failure of a job
\* (deploy_services, cleanup_uploaded_source).
THEOREM RowsAgreeWithDisk == Spec => []RowsMatchDisk
<1>1. SteadyInv => RowsMatchDisk
  BY DEF SteadyInv, ContainersFollow, SourcesOwned, RowsMatchDisk
<1>2. QED
  BY <1>1, SteadyInvariance, PTL

\* What a step of an undisturbed app writes to the rows: a handler creates one
\* or stops others, the worker saves its own before it is Running and stops
\* those of its predecessors.
LEMMA RowsWritten ==
  ASSUME IInv, SteadyInv, Undisturbed, [Next]_vars, NEW d \in Ids
  PROVE  \/ status'[d] = status[d]
         \/ hpc[d] = "new" /\ status[d] = "none"
         \/ ToBeSuperseded(d) /\ status'[d] = "stopped"
         \/ Processed(d) /\ status[d] # "running"
         \/ wpc = "markStopped" /\ d \in previous /\ status'[d] = "stopped"
<1> DEFINE Goal == \/ status'[d] = status[d]
                   \/ hpc[d] = "new" /\ status[d] = "none"
                   \/ ToBeSuperseded(d) /\ status'[d] = "stopped"
                   \/ Processed(d) /\ status[d] # "running"
                   \/ wpc = "markStopped" /\ d \in previous
                      /\ status'[d] = "stopped"
<1> SUFFICES Goal
  OBVIOUS
<1> USE DEF IInv, SteadyInv, TypeOK, Undisturbed, SaveStatus
<1>1. ASSUME NEW e \in Ids, NEW k, SavePending(e, k)
      PROVE  Goal
  BY <1>1 DEF SavePending, IsNext, Used, HasRow
<1>2. ASSUME NEW e \in Ids, CreateDeployment(e)
      PROVE  Goal
  BY <1>1, <1>2 DEF CreateDeployment, GithubWebhook, DeployWebhook,
      TriggerDeployment, RollbackDeployment, DeployUpload, DeployDockerfile
<1>3. ASSUME NEW e \in Ids, DropRequest(e) \/ Handler(e)
      PROVE  Goal
  <2>1. CASE SupersedeOne(e)
    BY <2>1 DEF SupersedeOne, ToBeSuperseded, KindOnceUsed
  <2>2. CASE ~SupersedeOne(e)
    BY <1>3, <2>2
    DEF DropRequest, Handler, SendJob, ListStale, FinishRequest, dbVars
  <2>3. QED
    BY <2>1, <2>2
<1>4. CASE Worker
  <2>1. CASE MarkStopped
    BY <2>1 DEF MarkStopped
  <2>2. CASE ~MarkStopped
    <3>1. \/ status' = status
          \/ /\ wpc \in {"setCloning", "setBuilding", "setStarting", "save",
                         "failWrite"}
             /\ \A e \in Ids : e # cur => status'[e] = status[e]
      BY <1>4, <2>2
      DEF Worker, Recv, Load, JobFails, NoRollbackImage, SetCloning,
          UpdateStatus, CloneRepo, CloneFails, CheckClone, SetBuilding,
          BuildImages, NoBuildContext, NoDockerfile, NoSiblingImage,
          ImageBuildFails, CheckBuild, SetStarting, CheckStarting,
          CreateNetwork, NetworkFails, DependencyCycle, GetPreviousRunning,
          StopOld, CreateContainers, WaitHealthy, DiscardNew, SaveRunning,
          RemoveOld, FinishRollout, CleanupSource, FailRead, FailWrite,
          Continues, ShouldContinue
    <3>2. QED
      BY <3>1 DEF RowsSettle, Running, Over, Processed
  <2>3. QED
    BY <2>1, <2>2
<1>5. CASE Boot
  BY <1>5, <1>1
  DEF Boot, CollectInterrupted, ReplayJob, ReplayFails, MarkReplayedFailed,
      ListContainers, RestoreApp, JobsRunOnce
<1>6. CASE Delete
  BY <1>6 DEF Delete, FinishDelete, DeleteRead, StopService, DeleteRuntime,
              DeleteApp, DeleteFails, dbVars
<1>7. CASE Crash \/ UNCHANGED vars
  BY <1>7 DEF Crash, vars, dbVars
<1>8. QED
  BY <1>2, <1>3, <1>4, <1>5, <1>6, <1>7 DEF Next

\* What a step of an undisturbed app removes from docker: what a rollout made
\* before it failed, and its predecessors once it is saved.
LEMMA ContainersRemoved ==
  ASSUME IInv, SteadyInv, Undisturbed, StartFirst, [Next]_vars,
         NEW d \in containers, d \notin containers'
  PROVE  \/ wpc = "discard" /\ d = cur
         \/ wpc = "removeOld" /\ d \in previous
<1> USE DEF IInv, SteadyInv, Undisturbed
<1>1. ASSUME NEW e \in Ids, CreateDeployment(e) \/ DropRequest(e) \/ Handler(e)
      PROVE  FALSE
  BY <1>1 DEF CreateDeployment, GithubWebhook, DeployWebhook,
      TriggerDeployment, RollbackDeployment, DeployUpload, DeployDockerfile,
      SavePending, DropRequest, Handler, SendJob, ListStale, SupersedeOne,
      FinishRequest, diskVars
<1>2. CASE Worker
  BY <1>2
  DEF Worker, Recv, Load, JobFails, NoRollbackImage, SetCloning,
      UpdateStatus, CloneRepo, CloneFails, CheckClone, SetBuilding,
      BuildImages, NoBuildContext, NoDockerfile, NoSiblingImage,
      ImageBuildFails, CheckBuild, SetStarting, CheckStarting,
      CreateNetwork, NetworkFails, DependencyCycle, GetPreviousRunning,
      StopOld, CreateContainers, WaitHealthy, DiscardNew, SaveRunning,
      RemoveOld, MarkStopped, FinishRollout, CleanupSource, FailRead,
      FailWrite, Continues, ShouldContinue, diskVars
<1>3. CASE Boot
  BY <1>3
  DEF Boot, CollectInterrupted, ReplayJob, ReplayFails, MarkReplayedFailed,
      ListContainers, RestoreApp, JobsRunOnce
<1>4. CASE Delete
  BY <1>4 DEF Delete, FinishDelete, DeleteRead, StopService, DeleteRuntime,
              DeleteApp, DeleteFails, diskVars
<1>5. CASE Crash \/ UNCHANGED vars
  BY <1>5 DEF Crash, vars, diskVars
<1>6. QED
  BY <1>1, <1>2, <1>3, <1>4, <1>5 DEF Next

\* With start_first, and until a webhook supersedes, no step takes a serving app
\* down (deploy_services): a predecessor goes only when its successor, with its
\* containers, is recorded Running.
THEOREM StartFirstServes == Spec => KeepsServing
<1>1. ASSUME IInv, SteadyInv, [Next]_vars,
             Undisturbed, StartFirst, NoWebhooks, Serving
      PROVE  Serving'
  <2>1. PICK d \in Running : d \in containers
    BY <1>1 DEF Serving
  <2>2. CASE wpc \in {"removeOld", "markStopped"}
    <3>1. cur \in Ids /\ status[cur] = "running" /\ cur \in containers
      BY <1>1, <2>2 DEF SteadyInv, NobodySupersedes, ContainersFollow, IInv,
                        TypeOK
    <3>2. cur \notin previous
      BY <1>1, <2>2, <3>1 DEF SteadyInv, RowsSettle, Over, Processed
    <3>3. status'[cur] = "running"
      BY <1>1, <3>1, <3>2, RowsWritten DEF ToBeSuperseded, NoWebhooks
    <3>4. cur \in containers'
      BY <1>1, <2>2, <3>1, <3>2, ContainersRemoved
    <3>5. QED
      BY <3>1, <3>3, <3>4 DEF Serving, Running
  <2>3. CASE wpc \notin {"removeOld", "markStopped"}
    <3>1. d \in Ids /\ status[d] = "running"
      BY <2>1 DEF Running
    <3>2. status'[d] = "running"
      BY <1>1, <2>3, <3>1, RowsWritten DEF ToBeSuperseded, NoWebhooks
    <3>3. ~(wpc = "discard" /\ d = cur)
      BY <1>1, <2>1, <3>1 DEF SteadyInv, RowsSettle, Over, Processed
    <3>4. d \in containers'
      BY <1>1, <2>1, <2>3, <3>3, ContainersRemoved
    <3>5. QED
      BY <3>1, <3>2, <3>4 DEF Serving, Running
  <2>4. QED
    BY <2>2, <2>3
<1>2. IInv /\ SteadyInv /\ [Next]_vars =>
        [Undisturbed /\ StartFirst /\ NoWebhooks /\ Serving => Serving']_vars
  BY <1>1
<1>3. QED
  BY <1>2, Invariance, SteadyInvariance, PTL DEF Spec, KeepsServing

\* Without a crash or a deletion, a deployment that came up is stopped by its successor
\* or by a webhook that listed it before, and never failed or taken back; a row whose
\* job is over can only be stopped; and a Stopped row is overwritten by its own job only,
\* where there are webhooks (update_status, mark_deployment_stopped,
\* supersede_stale_deployments).
THEOREM RowsMoveForward == Spec => StatusMovesForward
<1> DEFINE Forward ==
      Undisturbed => \A d \in Ids :
          /\ status[d] = "running" =>
                \/ status'[d] = "running"
                \/ status'[d] = "stopped" /\ wpc = "markStopped" /\ d \in previous
                \/ status'[d] = "stopped" /\ ToBeSuperseded(d)
          /\ Over(d) => status'[d] \in {status[d], "stopped"}
          /\ status[d] = "stopped" /\ status'[d] # "stopped" =>
                Processed(d) /\ ~NoWebhooks
<1>1. ASSUME IInv, SteadyInv, [Next]_vars PROVE Forward
  <2> SUFFICES ASSUME Undisturbed, NEW d \in Ids
               PROVE  /\ status[d] = "running" =>
                            \/ status'[d] = "running"
                            \/ status'[d] = "stopped" /\ wpc = "markStopped" /\ d \in previous
                            \/ status'[d] = "stopped" /\ ToBeSuperseded(d)
                      /\ Over(d) => status'[d] \in {status[d], "stopped"}
                      /\ status[d] = "stopped" /\ status'[d] # "stopped" =>
                            Processed(d) /\ ~NoWebhooks
    OBVIOUS
  <2>1. NoWebhooks /\ status[d] = "stopped" => ~Processed(d)
    BY <1>1 DEF SteadyInv, NobodySupersedes, Over
  <2>2. \/ status'[d] = status[d]
        \/ hpc[d] = "new" /\ status[d] = "none"
        \/ ToBeSuperseded(d) /\ status'[d] = "stopped"
        \/ Processed(d) /\ status[d] # "running"
        \/ wpc = "markStopped" /\ d \in previous /\ status'[d] = "stopped"
    BY <1>1, RowsWritten
  <2>3. QED
    BY <2>1, <2>2 DEF Over
<1>2. IInv /\ SteadyInv /\ [Next]_vars => [Forward]_vars
  BY <1>1
<1>3. QED
  BY <1>2, Invariance, SteadyInvariance, PTL DEF Spec, StatusMovesForward

=============================================================================
