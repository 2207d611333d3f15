----------------------------- MODULE TaskProofs -----------------------------
(***************************************************************************)
(* Two long-lived tasks of the process.  Self-update: safety of the         *)
(* handshake with the deployment worker for every set of requests, every    *)
(* set of releases and every bound on the jobs.  Certificates: safety of    *)
(* the certificate task for any set of domains, any capacity of the         *)
(* channel, any lifetime and any number of failures and crashes.            *)
(***************************************************************************)
EXTENDS UpdateGate, Certificates, FiniteSetTheorems, TLAPS

-----------------------------------------------------------------------------
(* The self-update handshake *)

USE UpdateGateAssumption

\* Every version is a natural number, so versions compare.
LEMMA VersionsAreNat == Versions \subseteq Nat
  BY DEF Versions

\* The process starts without an update or a job: GateInv holds.
LEMMA InitGateInv == GateInit => GateInv
<1> SUFFICES ASSUME GateInit PROVE GateInv
  OBVIOUS
<1>1. Version0 \in Versions
  BY DEF Versions
<1>2. TypeOK
  <2>1. exe \in [version : Versions, ok : BOOLEAN]
    BY <1>1 DEF GateInit
  <2>2. jobs \in 0..MaxJobs
    BY DEF GateInit
  <2>3. /\ ipc \in [Requests -> InstallPcs]
        /\ target \in [Requests -> Versions]
        /\ staged \in [Versions -> Contents]
    BY <1>1 DEF GateInit, InstallPcs, Contents
  <2>4. QED
    BY <1>1, <2>1, <2>2, <2>3 DEF GateInit, TypeOK, WorkerPcs
<1>3. FlagCoversJob /\ NoJobDuringSwap
  BY DEF GateInit, FlagCoversJob, NoJobDuringSwap
<1>4. OneInstaller /\ LockHeld /\ PauseHeld /\ StagedVerified
  BY DEF GateInit, OneInstaller, LockHeld, PauseHeld, StagedVerified, InFlight,
         PausedPcs
<1>5. OnlyVerifiedBinary
  BY DEF GateInit, OnlyVerifiedBinary
<1>6. QED
  BY <1>2, <1>3, <1>4, <1>5 DEF GateInv

\* A worker step (begin_deployment, process_job's end) keeps GateInv: it enters
\* process_job only after it saw the pause off.
LEMMA WorkerStep == GateInv /\ Worker => GateInv'
<1> SUFFICES ASSUME GateInv, Worker PROVE GateInv'
  OBVIOUS
<1> USE DEF GateInv, TypeOK, Goto, installVars, WorkerPcs
<1>1. TypeOK'
  <2>1. wpc' \in WorkerPcs /\ running' \in BOOLEAN
    BY DEF Worker, Recv, BeginDeployment, CheckPaused, Retract, Wake,
           FinishJob, MarkFailed
  <2>2. jobs' \in 0..MaxJobs
    BY DEF Worker, Recv, BeginDeployment, CheckPaused, Retract, Wake,
           FinishJob, MarkFailed
  <2>3. UNCHANGED <<installVars, current>>
    BY DEF Worker, Recv, BeginDeployment, CheckPaused, Retract, Wake,
           FinishJob, MarkFailed
  <2>4. QED
    BY <2>1, <2>2, <2>3
<1>2. UNCHANGED <<installVars, current>>
  BY DEF Worker, Recv, BeginDeployment, CheckPaused, Retract, Wake,
         FinishJob, MarkFailed
<1>3. OneInstaller' /\ LockHeld' /\ PauseHeld' /\ StagedVerified'
      /\ OnlyVerifiedBinary'
  BY <1>2 DEF OneInstaller, LockHeld, PauseHeld, StagedVerified,
              OnlyVerifiedBinary, InFlight
<1>4. FlagCoversJob'
  BY DEF FlagCoversJob, Worker, Recv, BeginDeployment, CheckPaused, Retract,
         Wake, FinishJob, MarkFailed
<1>5. wpc' = "process" => wpc = "process" \/ ~paused
  BY DEF Worker, Recv, BeginDeployment, CheckPaused, Retract, Wake,
         FinishJob, MarkFailed
<1>6. NoJobDuringSwap'
  BY <1>2, <1>5 DEF NoJobDuringSwap, Committed, PauseHeld, PausedPcs
<1>7. QED
  BY <1>1, <1>3, <1>4, <1>6

\* A step of an installer keeps GateInv: only the holder of INSTALLING moves the
\* pause, and it commits only after it saw no deployment running.
LEMMA InstallerStep ==
  ASSUME GateInv, NEW r \in Requests, Installer(r) \/ InstallBlocker(r) \/ Disconnect(r)
                 \/ \E v \in Versions : InstallUpdate(r, v)
  PROVE  GateInv'
<1> USE VersionsAreNat
    DEF GateInv, TypeOK, GotoI, workerVars, InstallPcs, Contents, FlagCoversJob,
        OneInstaller, LockHeld, PauseHeld, NoJobDuringSwap, StagedVerified,
        OnlyVerifiedBinary, InFlight, Committed, PausedPcs, WorkerPcs
<1>1. CASE \E v \in Versions : InstallUpdate(r, v)
  BY <1>1 DEF InstallUpdate
<1>2. CASE SwapInstalling(r)
  BY <1>2 DEF SwapInstalling
<1>3. CASE PauseDeployments(r)
  BY <1>3 DEF PauseDeployments
<1>4. CASE CompareVersions(r)
  <2>1. target[r] \in Nat /\ current \in Nat
    OBVIOUS
  <2>2. target[r] > current => target[r] >= current
    BY <2>1
  <2>3. QED
    BY <1>4, <2>2 DEF CompareVersions
<1>5. CASE Download(r)
  BY <1>5 DEF Download
<1>6. CASE VerifyStaged(r)
  BY <1>6 DEF VerifyStaged
<1>7. CASE VerifyBinaryVersion(r)
  BY <1>7 DEF VerifyBinaryVersion
<1>8. CASE FetchReleases(r)
  BY <1>8 DEF FetchReleases
<1>9. CASE FetchChecksum(r)
  BY <1>9 DEF FetchChecksum
<1>10. CASE InstallBlocker(r)
  BY <1>10 DEF InstallBlocker
<1>11. CASE WaitForRunningDeployment(r)
  BY <1>11 DEF WaitForRunningDeployment
<1>12. CASE BackupExe(r)
  BY <1>12 DEF BackupExe
<1>13. CASE RenameStaged(r)
  BY <1>13 DEF RenameStaged
<1>14. CASE SpawnRestart(r)
  BY <1>14 DEF SpawnRestart
<1>15. CASE ResumeDeployments(r)
  BY <1>15 DEF ResumeDeployments
<1>16. CASE ReleaseInstalling(r)
  <2>1. \A q \in Requests : q # r => ~InFlight(q)
    BY <1>16 DEF ReleaseInstalling
  <2>2. \A q \in Requests : ~InFlight(q)'
    BY <1>16, <2>1 DEF ReleaseInstalling
  <2>3. TypeOK' /\ FlagCoversJob' /\ OnlyVerifiedBinary'
    BY <1>16 DEF ReleaseInstalling
  <2>4. QED
    BY <2>2, <2>3
<1>17. CASE Disconnect(r)
  BY <1>17 DEF Disconnect, AwaitPcs
<1>18. CASE Restart(r)
  <2>1. TypeOK'
    <3>1. current' \in Versions /\ jobs' \in 0..MaxJobs
      BY <1>18 DEF Restart
    <3>2. ipc' \in [Requests -> InstallPcs]
      BY <1>18 DEF Restart
    <3>3. QED
      BY <1>18, <3>1, <3>2 DEF Restart
  <2>2. \A q \in Requests : ipc'[q] \in {"idle", "done"}
    BY <1>18 DEF Restart
  <2>3. FlagCoversJob' /\ OnlyVerifiedBinary'
    BY <1>18 DEF Restart
  <2>4. QED
    BY <2>1, <2>2, <2>3
<1>19. QED
  BY <1>1, <1>2, <1>3, <1>4, <1>5, <1>6, <1>7, <1>8, <1>9, <1>10,
     <1>11, <1>12, <1>13, <1>14, <1>15, <1>16, <1>17, <1>18 DEF Installer

\* GateInv is inductive.
LEMMA NextGateInv == GateInv /\ [GateNext]_gateVars => GateInv'
<1> SUFFICES ASSUME GateInv, [GateNext]_gateVars PROVE GateInv'
  OBVIOUS
<1>1. CASE Worker
  BY <1>1, WorkerStep
<1>2. ASSUME NEW r \in Requests,
             Installer(r) \/ InstallBlocker(r) \/ Disconnect(r)
               \/ \E v \in Versions : InstallUpdate(r, v)
      PROVE  GateInv'
  BY <1>2, InstallerStep
<1>3. CASE UNCHANGED gateVars
  BY <1>3 DEF gateVars, GateInv, TypeOK, FlagCoversJob, OneInstaller, LockHeld,
              PauseHeld, NoJobDuringSwap, StagedVerified, OnlyVerifiedBinary,
              InFlight, Committed
<1>4. QED
  BY <1>1, <1>2, <1>3 DEF GateNext

\* The inductive invariant holds in every reachable state.
LEMMA GateInvariance == GateSpec => []GateInv
  BY InitGateInv, NextGateInv, PTL DEF GateSpec

\* install_update and begin_deployment: flags, program counters and versions
\* keep their types.
THEOREM GateTypeCorrect == GateSpec => []TypeOK
  BY GateInvariance, PTL DEF GateInv

\* updates.rs: the re-exec never cuts a deployment off: no job is inside
\* process_job while an installer that saw none running swaps the binary.
THEOREM ReexecCutsNoJobOff == GateSpec => []NoJobDuringSwap
  BY GateInvariance, PTL DEF GateInv

\* updates.rs INSTALLING: two installs never run at once.
THEOREM InstallsExclude == GateSpec => []OneInstaller
  BY GateInvariance, PTL DEF GateInv

\* updates.rs verify_binary_version: only a verified binary, never an older
\* one, replaces the running one.
THEOREM BinaryIsVerified == GateSpec => []OnlyVerifiedBinary
  BY GateInvariance, PTL DEF GateInv

\* worker.rs deployment_running: once an installer has seen it false, no step
\* starts a job or lifts the pause until that installer resumes or restarts.
THEOREM PauseIsBinding == GateSpec => PauseHolds
<1> DEFINE Binding == (\E r \in Requests : Committed(r) /\ ipc'[r] = ipc[r])
                         => /\ paused'
                            /\ ~(wpc # "process" /\ wpc' = "process")
<1>1. GateInv /\ GateInv' /\ [GateNext]_gateVars => [Binding]_gateVars
  BY DEF GateInv, PauseHeld, NoJobDuringSwap, Committed, PausedPcs
<1>2. QED
  BY <1>1, GateInvariance, PTL DEF GateSpec, PauseHolds

-----------------------------------------------------------------------------
(* The refinement *)

\* A committed installer's peers are not committed (OneInstaller).
LEMMA CommittedAlone ==
  ASSUME GateInv, NEW r \in Requests, InFlight(r)
  PROVE  \A q \in Requests : q # r => ~Committed(q)
BY DEF GateInv, OneInstaller, InFlight, Committed

\* A worker step starts or ends a deployment, or changes nothing the lease sees.
LEMMA WorkerImplements ==
  ASSUME GateInv, Worker
  PROVE  [Lease!Next]_(Lease!vars)
<1>1. UNCHANGED <<ipc, exe, current>>
  BY DEF Worker, Recv, BeginDeployment, CheckPaused, Retract, Wake, FinishJob,
         MarkFailed, installVars
<1>2. \A r \in Requests : Committed(r)' <=> Committed(r)
  BY <1>1 DEF Committed
<1>3. CASE \E r \in Requests : Committed(r)
  <2>1. Holder = "update" /\ Holder' = "update"
    BY <1>2, <1>3 DEF Holder
  <2>2. QED
    BY <1>1, <2>1 DEF Lease!vars
<1>4. CASE \A r \in Requests : ~Committed(r)
  <2>1. Holder = IF wpc = "process" THEN "deployment" ELSE "nobody"
    BY <1>4 DEF Holder
  <2>2. Holder' = IF wpc' = "process" THEN "deployment" ELSE "nobody"
    BY <1>2, <1>4 DEF Holder
  <2>3. QED
    BY <1>1, <2>1, <2>2
       DEF Lease!vars, Lease!Next, Lease!StartDeployment, Lease!EndDeployment,
           Lease!Pass
<1>5. QED
  BY <1>3, <1>4

\* A step that leaves the worker, the versions and everybody's commitment alone
\* is a stutter of the lease.
LEMMA SameHolder ==
  ASSUME UNCHANGED <<wpc, exe, current>>,
         \A r \in Requests : Committed(r)' <=> Committed(r)
  PROVE  UNCHANGED Lease!vars
BY DEF Holder, Lease!vars

\* A committed installer that fails or is dropped gives up the hold.
LEMMA LeavesHold ==
  ASSUME GateInv, NEW r \in Requests, Committed(r),
         NEW pc, pc \notin {"backup", "rename", "accept", "restarting"},
         ipc' = [ipc EXCEPT ![r] = pc], UNCHANGED <<wpc, exe, current>>
  PROVE  Lease!GiveUp
<1>1. \A q \in Requests : ~Committed(q)'
  BY CommittedAlone DEF Committed, InFlight, GateInv, TypeOK
<1>2. wpc # "process"
  BY DEF GateInv, NoJobDuringSwap
<1>3. Holder = "update"
  BY DEF Holder
<1>4. Holder' = "nobody"
  BY <1>1, <1>2 DEF Holder
<1>5. QED
  BY <1>3, <1>4 DEF Lease!GiveUp, Lease!Pass

\* A step of an installer takes, uses or gives up the hold, or is a stutter.
LEMMA InstallerImplements ==
  ASSUME GateInv, NEW r \in Requests, Installer(r) \/ InstallBlocker(r) \/ Disconnect(r)
                 \/ \E v \in Versions : InstallUpdate(r, v)
  PROVE  [Lease!Next]_(Lease!vars)
<1> USE DEF workerVars, GotoI
<1>1. ipc \in [Requests -> InstallPcs]
  BY DEF GateInv, TypeOK
<1>2. CASE \/ \E v \in Versions : InstallUpdate(r, v)
           \/ InstallBlocker(r) \/ SwapInstalling(r) \/ PauseDeployments(r)
           \/ CompareVersions(r) \/ FetchReleases(r) \/ FetchChecksum(r)
           \/ Download(r) \/ VerifyStaged(r) \/ VerifyBinaryVersion(r)
           \/ SpawnRestart(r)
           \/ ResumeDeployments(r) \/ ReleaseInstalling(r)
  <2>1. UNCHANGED <<wpc, exe, current>>
    BY <1>2 DEF InstallUpdate, InstallBlocker, SwapInstalling, PauseDeployments,
                CompareVersions, FetchReleases, FetchChecksum, Download,
                VerifyStaged, VerifyBinaryVersion, SpawnRestart,
                ResumeDeployments, ReleaseInstalling
  <2>2. \A q \in Requests : Committed(q)' <=> Committed(q)
    BY <1>1, <1>2
       DEF InstallUpdate, InstallBlocker, SwapInstalling, PauseDeployments,
           CompareVersions, FetchReleases, FetchChecksum, Download,
           VerifyStaged, VerifyBinaryVersion, SpawnRestart,
           ResumeDeployments, ReleaseInstalling, Committed
  <2>3. QED
    BY <2>1, <2>2, SameHolder
<1>3. CASE WaitForRunningDeployment(r)
  <2>1. InFlight(r) /\ ~Committed(r) /\ UNCHANGED <<wpc, exe, current>>
    BY <1>3 DEF WaitForRunningDeployment, InFlight, Committed
  <2>2. \A q \in Requests : ~Committed(q)
    BY <2>1, CommittedAlone
  <2>3. CASE ~running /\ ipc' = [ipc EXCEPT ![r] = "backup"]
    <3>1. Committed(r)'
      BY <1>1, <2>3 DEF Committed
    <3>2. Holder' = "update"
      BY <3>1 DEF Holder
    <3>3. wpc # "process"
      BY <2>3 DEF GateInv, FlagCoversJob
    <3>4. Holder = "nobody"
      BY <2>2, <3>3 DEF Holder
    <3>5. QED
      BY <2>1, <3>2, <3>4 DEF Lease!Next, Lease!BeginSwap, Lease!Pass
  <2>4. CASE ipc' = [ipc EXCEPT ![r] = "failed"]
    <3>1. \A q \in Requests : ~Committed(q)'
      BY <1>1, <2>2, <2>4 DEF Committed
    <3>2. QED
      BY <2>1, <2>2, <3>1, SameHolder
  <2>5. QED
    BY <1>3, <2>3, <2>4 DEF WaitForRunningDeployment
<1>4. CASE BackupExe(r)
  <2>1. Committed(r) /\ UNCHANGED <<wpc, exe, current>>
    BY <1>4 DEF BackupExe, Committed
  <2>2. CASE ipc' = [ipc EXCEPT ![r] = "rename"]
    <3>1. \A q \in Requests : Committed(q)' <=> Committed(q)
      BY <1>1, <2>1, <2>2 DEF Committed
    <3>2. QED
      BY <2>1, <3>1, SameHolder
  <2>3. CASE ipc' = [ipc EXCEPT ![r] = "failed"]
    BY <2>1, <2>3, LeavesHold DEF Lease!Next
  <2>4. QED
    BY <1>4, <2>2, <2>3 DEF BackupExe
<1>5. CASE RenameStaged(r)
  <2>1. Committed(r) /\ UNCHANGED <<wpc, current>>
    BY <1>5 DEF RenameStaged, Committed
  <2>2. CASE /\ exe' = [version |-> target[r], ok |-> staged[target[r]] = "good"]
             /\ ipc' = [ipc EXCEPT ![r] = "accept"]
    <3>1. Committed(r)'
      BY <1>1, <2>2 DEF Committed
    <3>2. Holder = "update" /\ Holder' = "update"
      BY <2>1, <3>1 DEF Holder
    <3>3. target[r] \in Releases /\ target[r] >= current
      BY <1>5 DEF RenameStaged, GateInv, StagedVerified
    <3>4. exe'.version = target[r]
      BY <2>2
    <3>5. QED
      BY <2>1, <3>2, <3>3, <3>4 DEF Lease!Next, Lease!Install
  <2>3. CASE UNCHANGED exe /\ ipc' = [ipc EXCEPT ![r] = "failed"]
    BY <2>1, <2>3, LeavesHold DEF Lease!Next
  <2>4. QED
    BY <1>5, <2>2, <2>3 DEF RenameStaged
<1>6. CASE Disconnect(r)
  <2>1. UNCHANGED <<wpc, exe, current>> /\ ipc' = [ipc EXCEPT ![r] = "done"]
    BY <1>6 DEF Disconnect
  <2>2. CASE Committed(r)
    BY <2>1, <2>2, LeavesHold DEF Lease!Next
  <2>3. CASE ~Committed(r)
    <3>1. \A q \in Requests : Committed(q)' <=> Committed(q)
      BY <1>1, <2>1, <2>3 DEF Committed
    <3>2. QED
      BY <2>1, <3>1, SameHolder
  <2>4. QED
    BY <2>2, <2>3
<1>7. CASE Restart(r)
  <2>1. Holder = "update"
    BY <1>7 DEF Restart, Committed, Holder
  <2>2. \A q \in Requests : ~Committed(q)'
    BY <1>7 DEF Restart, Committed
  <2>3. wpc' # "process" /\ current' = exe.version /\ UNCHANGED exe
    BY <1>7 DEF Restart
  <2>4. Holder' = "nobody"
    BY <2>2, <2>3 DEF Holder
  <2>5. QED
    BY <2>1, <2>3, <2>4 DEF Lease!Next, Lease!Reexec
<1>8. QED
  BY <1>2, <1>3, <1>4, <1>5, <1>6, <1>7 DEF Installer

\* The handshake of begin_deployment and install_update implements the lease:
\* flags stored and loaded one at a time give deployments and updates exclusive
\* use of the process, for any number of install requests and releases.
THEOREM GateImplementsLease == GateSpec => ImplementsLease
<1>1. GateInit => Lease!Init
  BY DEF GateInit, Lease!Init, Holder, Committed
<1>2. GateInv /\ [GateNext]_gateVars => [Lease!Next]_(Lease!vars)
  <2> SUFFICES ASSUME GateInv, [GateNext]_gateVars PROVE [Lease!Next]_(Lease!vars)
    OBVIOUS
  <2>1. CASE Worker
    BY <2>1, WorkerImplements
  <2>2. ASSUME NEW r \in Requests,
               Installer(r) \/ InstallBlocker(r) \/ Disconnect(r)
                 \/ \E v \in Versions : InstallUpdate(r, v)
        PROVE  [Lease!Next]_(Lease!vars)
    BY <2>2, InstallerImplements
  <2>3. CASE UNCHANGED gateVars
    BY <2>3, SameHolder DEF gateVars, Committed
  <2>4. QED
    BY <2>1, <2>2, <2>3 DEF GateNext
<1>3. QED
  BY <1>1, <1>2, GateInvariance, PTL DEF GateSpec, ImplementsLease, Lease!Spec

HIDE UpdateGateAssumption

-----------------------------------------------------------------------------
(* The certificate task *)

USE CertificatesAssumption

(* Sets of domains have sizes, and taking one out makes the set smaller:   *)
(* the permits of the reissue handler can be counted.                      *)
LEMMA DomainSizes ==
  ASSUME NEW S \in SUBSET Domains
  PROVE  /\ Cardinality(S) \in Nat
         /\ \A d \in S : Cardinality(S \ {d}) = Cardinality(S) - 1
<1>1. IsFiniteSet(S)
  BY FS_Subset
<1>2. QED
  BY <1>1, FS_CardinalityType, FS_RemoveElement

LEMMA NoDomains == Cardinality({}) = 0
  BY FS_EmptySet

(* try_send keeps the channel a sequence of domains and stays below the    *)
(* places that are reserved.                                               *)
LEMMA TrySendFits ==
  ASSUME Shapes, PlacesReserved, NEW d \in Domains
  PROVE  /\ TrySend(d) \in Seq(Domains)
         /\ Len(TrySend(d)) + Cardinality(reissue.todo) <= QueueCap
         /\ \A i \in DOMAIN queue :
               i \in DOMAIN TrySend(d) /\ TrySend(d)[i] = queue[i]
<1>1. Cardinality(reissue.todo) \in Nat
  BY DomainSizes DEF Shapes
<1>2. queue \in Seq(Domains)
  BY DEF Shapes
<1>3. QED
  BY <1>1, <1>2 DEF TrySend, Permits, PlacesReserved

(* The cache stays a cache when a row is written or removed.               *)
LEMMA KeysStay ==
  ASSUME Shapes, NEW d \in Domains
  PROVE  /\ Rewritten(d) \in [Domains -> Keys \cup {None}]
         /\ Removed(d) \in [Domains -> Keys \cup {None}]
         /\ \A e \in Domains \ {d} :
               Rewritten(d)[e] = tls[e] /\ Removed(d)[e] = tls[e]
         /\ Removed(d)[d] # None => ~Removed(d)[d].same
<1>1. tls \in [Domains -> Keys \cup {None}]
  BY DEF Shapes
<1>2. CASE tls[d] = None
  BY <1>1, <1>2 DEF Rewritten, Removed
<1>3. CASE tls[d] # None
  <2>1. tls[d] \in Keys
    BY <1>1, <1>3
  <2>2. /\ [tls[d] EXCEPT !.fresh = FALSE] \in Keys
        /\ [tls[d] EXCEPT !.fresh = FALSE, !.same = FALSE] \in Keys
        /\ ~[tls[d] EXCEPT !.fresh = FALSE, !.same = FALSE].same
    BY <2>1 DEF Keys
  <2>3. /\ Rewritten(d) = [tls EXCEPT ![d] = [tls[d] EXCEPT !.fresh = FALSE]]
        /\ Removed(d) = [tls EXCEPT ![d] = [tls[d] EXCEPT !.fresh = FALSE,
                                                        !.same = FALSE]]
    BY <1>1, <1>3, <2>1 DEF Rewritten, Removed, Keys
  <2>4. QED
    BY <1>1, <2>2, <2>3
<1>4. QED
  BY <1>2, <1>3

(* Nothing is stored, queued or cached when the process first starts.      *)
LEMMA InitTaskInv == Init => TaskInv
<1> SUFFICES ASSUME Init PROVE TaskInv
  OBVIOUS
<1>1. Shapes
  BY DEF Init, Shapes, Idle, Quiet, Certs, Steps
<1>2. PlacesReserved
  BY NoDomains DEF Init, PlacesReserved, Quiet
<1>3. ChallengesOfOpenOrder /\ ReissueFollowsUp
  BY DEF Init, ChallengesOfOpenOrder, ReissueFollowsUp
<1>4. OrdersAreDue
  BY DEF Init, OrdersAreDue, Idle, Steps
<1>5. CacheTellsApart /\ HandshakeServesStored
  BY DEF Init, CacheTellsApart, HandshakeServesStored
<1>6. QED
  BY <1>1, <1>2, <1>3, <1>4, <1>5 DEF TaskInv

(* What ensure_certificate makes of the task: idle or on with the pass, or *)
(* at the beginning of an order for a domain that needs it.                *)
LEMMA EnsureShape ==
  ASSUME Shapes, NEW d \in Domains, NEW pass \in SUBSET Domains,
         EnsureCertificate(d, pass)
  PROVE  /\ worker' \in [pc : {"idle", "pass"} \cup Steps,
                         dom : Domains \cup {None}, valid : BOOLEAN,
                         pass : SUBSET Domains]
         /\ worker'.pc \in Steps =>
               worker'.dom = d /\ (cert[d] = None \/ cert[d] <= Window)
         /\ NeedsRenewal(d) => worker'.pc \in Steps
<1>1. CASE NeedsRenewal(d)
  <2>1. worker' = [pc |-> "account", dom |-> d, valid |-> FALSE, pass |-> pass]
    BY <1>1 DEF EnsureCertificate, Idle
  <2>2. QED
    BY <1>1, <2>1 DEF NeedsRenewal, Steps
<1>2. CASE ~NeedsRenewal(d)
  <2>1. worker' = [pc |-> IF pass = {} THEN "idle" ELSE "pass",
                   dom |-> None, valid |-> FALSE, pass |-> pass]
    BY <1>2 DEF EnsureCertificate, Idle
  <2>2. worker'.pc \in {"idle", "pass"} /\ worker'.pc \notin Steps
    BY <2>1 DEF Steps
  <2>3. QED
    BY <1>2, <2>1, <2>2
<1>3. QED
  BY <1>1, <1>2

-----------------------------------------------------------------------------
(* The task                                                                *)

(* Taking a request, whether it is served or skipped, keeps TaskInv: a     *)
(* reissued domain leaves the channel and the list of asked ones together. *)
LEMMA TakeRequestStep == TaskInv /\ TakeRequest => TaskInv'
<1> SUFFICES ASSUME TaskInv, TakeRequest PROVE TaskInv'
  OBVIOUS
<1> USE DEF TaskInv
<1>1. queue \in Seq(Domains) /\ queue # <<>> /\ Head(queue) \in Domains
  BY DEF Shapes, TakeRequest
<1>2. queue' \in Seq(Domains) /\ Len(queue') = Len(queue) - 1
  BY <1>1 DEF TakeRequest
<1>3. \A i \in DOMAIN queue :
         queue[i] = Head(queue) \/ \E j \in DOMAIN queue' : queue'[j] = queue[i]
  <2> SUFFICES ASSUME NEW i \in DOMAIN queue, i # 1
               PROVE  \E j \in DOMAIN queue' : queue'[j] = queue[i]
    BY <1>1
  <2>1. i - 1 \in DOMAIN queue' /\ queue'[i - 1] = queue[i]
    BY <1>1 DEF TakeRequest
  <2>2. QED
    BY <2>1
<1>4. challenges = {} /\ worker.pc \notin Steps
  BY DEF TakeRequest, ChallengesOfOpenOrder, Steps
<1>5. UNCHANGED <<mode, cert, challenges, reissue, tls, served>>
  BY DEF TakeRequest
<1>6. PlacesReserved'
  <2>1. Cardinality(reissue.todo) \in Nat
    BY DomainSizes DEF Shapes
  <2>2. QED
    BY <1>1, <1>2, <1>5, <2>1 DEF PlacesReserved
<1>7. ChallengesOfOpenOrder' /\ CacheTellsApart' /\ HandshakeServesStored'
  BY <1>4, <1>5 DEF ChallengesOfOpenOrder, CacheTellsApart,
                    HandshakeServesStored
<1>8. CASE /\ Allowed(Head(queue))
           /\ EnsureCertificate(Head(queue), {})
           /\ asked' = IF NeedsRenewal(Head(queue)) THEN asked
                       ELSE asked \ {Head(queue)}
  <2>1. /\ worker' \in [pc : {"idle", "pass"} \cup Steps,
                        dom : Domains \cup {None}, valid : BOOLEAN,
                        pass : SUBSET Domains]
        /\ worker'.pc \in Steps =>
              /\ worker'.dom = Head(queue)
              /\ cert[Head(queue)] = None \/ cert[Head(queue)] <= Window
        /\ NeedsRenewal(Head(queue)) => worker'.pc \in Steps
    BY <1>1, <1>8, EnsureShape
  <2>2. Shapes'
    BY <1>1, <1>2, <1>5, <1>8, <2>1 DEF Shapes
  <2>3. OrdersAreDue'
    BY <1>5, <2>1 DEF OrdersAreDue
  <2>4. ReissueFollowsUp'
    BY <1>3, <1>4, <1>5, <1>8, <2>1 DEF ReissueFollowsUp
  <2>5. QED
    BY <1>6, <1>7, <2>2, <2>3, <2>4
<1>9. CASE worker' = worker /\ asked' = asked \ {Head(queue)}
  <2>1. Shapes'
    BY <1>2, <1>5, <1>9 DEF Shapes
  <2>2. OrdersAreDue'
    BY <1>5, <1>9 DEF OrdersAreDue
  <2>3. ReissueFollowsUp'
    BY <1>3, <1>4, <1>5, <1>9 DEF ReissueFollowsUp
  <2>4. QED
    BY <1>6, <1>7, <2>1, <2>2, <2>3
<1>10. QED
  BY <1>8, <1>9 DEF TakeRequest

(* The beginning of a renewal pass, or one that is given up, keeps TaskInv.*)
LEMMA RenewalPassStep == TaskInv /\ RenewalPass => TaskInv'
<1> SUFFICES ASSUME TaskInv, RenewalPass PROVE TaskInv'
  OBVIOUS
<1> USE DEF TaskInv
<1>1. UNCHANGED <<mode, cert, queue, challenges, reissue, tls, served, asked>>
  BY DEF RenewalPass
<1>2. worker.pc \notin Steps /\ challenges = {}
  BY DEF RenewalPass, Steps, ChallengesOfOpenOrder
<1>3. /\ worker' \in [pc : {"idle", "pass"} \cup Steps,
                      dom : Domains \cup {None}, valid : BOOLEAN,
                      pass : SUBSET Domains]
      /\ worker'.pc \notin Steps
  <2>1. CASE worker' = worker
    BY <1>2, <2>1 DEF Shapes
  <2>2. CASE worker' = IF Managed = {} THEN Idle
                       ELSE [Idle EXCEPT !.pc = "pass", !.pass = Managed]
    BY <2>2 DEF Idle, Managed, Steps
  <2>3. QED
    BY <2>1, <2>2 DEF RenewalPass
<1>4. Shapes'
  BY <1>1, <1>3 DEF Shapes
<1>5. ChallengesOfOpenOrder' /\ OrdersAreDue'
  BY <1>1, <1>2, <1>3 DEF ChallengesOfOpenOrder, OrdersAreDue
<1>6. ReissueFollowsUp'
  BY <1>1, <1>2 DEF ReissueFollowsUp
<1>7. PlacesReserved' /\ CacheTellsApart' /\ HandshakeServesStored'
  BY <1>1 DEF PlacesReserved, CacheTellsApart, HandshakeServesStored
<1>8. QED
  BY <1>4, <1>5, <1>6, <1>7

(* The next domain of the pass is one of the managed ones it began with.   *)
LEMMA PassDomainStep ==
  ASSUME TaskInv, NEW d \in Domains, PassDomain(d)
  PROVE  TaskInv'
<1> USE DEF TaskInv
<1>1. UNCHANGED <<mode, cert, queue, challenges, reissue, tls, served, asked>>
  BY DEF PassDomain, ghosts
<1>2. worker.pc \notin Steps /\ challenges = {}
  BY DEF PassDomain, Steps, ChallengesOfOpenOrder
<1>3. worker.pass \ {d} \in SUBSET Domains
  BY DEF Shapes
<1>4. /\ worker' \in [pc : {"idle", "pass"} \cup Steps,
                      dom : Domains \cup {None}, valid : BOOLEAN,
                      pass : SUBSET Domains]
      /\ worker'.pc \in Steps =>
            worker'.dom = d /\ (cert[d] = None \/ cert[d] <= Window)
  BY <1>3, EnsureShape DEF PassDomain
<1>5. Shapes'
  BY <1>1, <1>4 DEF Shapes
<1>6. ChallengesOfOpenOrder' /\ OrdersAreDue'
  BY <1>1, <1>2, <1>4 DEF ChallengesOfOpenOrder, OrdersAreDue
<1>7. ReissueFollowsUp'
  BY <1>1, <1>2 DEF ReissueFollowsUp
<1>8. PlacesReserved' /\ CacheTellsApart' /\ HandshakeServesStored'
  BY <1>1 DEF PlacesReserved, CacheTellsApart, HandshakeServesStored
<1>9. QED
  BY <1>5, <1>6, <1>7, <1>8

(* Inside an order the domain stays the same, and only its own token is    *)
(* added.                                                                  *)
LEMMA OrderStep ==
  ASSUME TaskInv, \/ OpenOrder \/ Authorize \/ FinalizeOrder
               \/ \E d \in Domains : ServeChallenge(d)
  PROVE  TaskInv'
<1> USE DEF TaskInv
<1>1. UNCHANGED <<mode, cert, queue, reissue, tls, served, asked>>
  BY DEF OpenOrder, Authorize, FinalizeOrder, ServeChallenge, ghosts
<1>2. /\ worker.pc \in Steps
      /\ worker' \in [pc : {"idle", "pass"} \cup Steps,
                      dom : Domains \cup {None}, valid : BOOLEAN,
                      pass : SUBSET Domains]
      /\ worker'.pc \in Steps /\ worker'.dom = worker.dom
  BY DEF OpenOrder, Authorize, FinalizeOrder, ServeChallenge, Steps, Shapes
<1>3. challenges' \subseteq challenges \cup {worker.dom}
  BY DEF OpenOrder, Authorize, FinalizeOrder, ServeChallenge
<1>4. Shapes'
  BY <1>1, <1>2 DEF Shapes
<1>5. ChallengesOfOpenOrder' /\ OrdersAreDue'
  BY <1>1, <1>2, <1>3 DEF ChallengesOfOpenOrder, OrdersAreDue
<1>6. ReissueFollowsUp'
  BY <1>1, <1>2 DEF ReissueFollowsUp
<1>7. PlacesReserved' /\ CacheTellsApart' /\ HandshakeServesStored'
  BY <1>1 DEF PlacesReserved, CacheTellsApart, HandshakeServesStored
<1>8. QED
  BY <1>4, <1>5, <1>6, <1>7

(* The end of an order, good or bad, takes its token away and settles what *)
(* was asked; a new certificate outlives every cached key of the row.      *)
LEMMA OrderEnds ==
  ASSUME TaskInv, OrderFails \/ OrderSucceeds
  PROVE  TaskInv'
<1> USE DEF TaskInv
<1>1. UNCHANGED <<mode, queue, reissue, served>>
  BY DEF OrderFails, OrderSucceeds
<1>2. worker.pc \in Steps /\ worker.dom \in Domains
  BY DEF OrderFails, OrderSucceeds, Steps, Shapes
<1>3. /\ worker' \in [pc : {"idle", "pass"} \cup Steps,
                      dom : Domains \cup {None}, valid : BOOLEAN,
                      pass : SUBSET Domains]
      /\ worker'.pc \notin Steps
  <2>1. worker' = [pc |-> IF worker.pass = {} THEN "idle" ELSE "pass",
                   dom |-> None, valid |-> FALSE, pass |-> worker.pass]
    BY DEF OrderFails, OrderSucceeds, OrderOver, Idle
  <2>2. worker'.pc \in {"idle", "pass"} /\ worker'.pc \notin Steps
    BY <2>1 DEF Steps
  <2>3. QED
    BY <2>1, <2>2 DEF Shapes
<1>4. asked' = asked \ {worker.dom} /\ challenges' = challenges \ {worker.dom}
  BY DEF OrderFails, OrderSucceeds, OrderOver
<1>5. challenges' = {}
  BY <1>4 DEF ChallengesOfOpenOrder
<1>6. ChallengesOfOpenOrder' /\ OrdersAreDue'
  BY <1>3, <1>5 DEF ChallengesOfOpenOrder, OrdersAreDue
<1>7. ReissueFollowsUp'
  BY <1>1, <1>4 DEF ReissueFollowsUp
<1>8. PlacesReserved' /\ HandshakeServesStored'
  BY <1>1 DEF PlacesReserved, HandshakeServesStored
<1>9. Shapes' /\ CacheTellsApart'
  <2>1. CASE OrderFails
    <3>1. UNCHANGED <<cert, tls>>
      BY <2>1 DEF OrderFails
    <3>2. QED
      BY <1>1, <1>3, <1>4, <3>1 DEF Shapes, CacheTellsApart
  <2>2. CASE OrderSucceeds
    <3>1. /\ cert' = [cert EXCEPT ![worker.dom] = Life]
          /\ tls' = Rewritten(worker.dom)
      BY <2>2 DEF OrderSucceeds
    <3>2. cert' \in [Domains -> Certs]
      <4>1. Life \in Certs
        BY DEF Certs
      <4>2. QED
        BY <3>1, <4>1 DEF Shapes
    <3>3. tls' \in [Domains -> Keys \cup {None}]
      BY <1>2, <3>1, KeysStay
    <3>4. Shapes'
      BY <1>1, <1>3, <1>4, <3>2, <3>3 DEF Shapes
    <3>5. ASSUME NEW d \in Domains, d # worker.dom
          PROVE  cert'[d] = cert[d] /\ tls'[d] = tls[d]
      BY <1>2, <3>1, <3>5 DEF Shapes, Rewritten
    <3>6. cert[worker.dom] = None \/ cert[worker.dom] <= Window
      BY <1>2 DEF OrdersAreDue
    <3>7. ASSUME tls'[worker.dom] # None, tls'[worker.dom].same
          PROVE  ~tls'[worker.dom].fresh /\ tls'[worker.dom].left < Life
      <4>1. /\ tls[worker.dom] # None
            /\ tls'[worker.dom] = [tls[worker.dom] EXCEPT !.fresh = FALSE]
        BY <1>2, <3>1, <3>7 DEF Shapes, Rewritten
      <4>2. tls[worker.dom] \in Keys
        BY <1>2, <4>1 DEF Shapes
      <4>3. /\ ~tls'[worker.dom].fresh
            /\ tls[worker.dom].same
            /\ tls'[worker.dom].left = tls[worker.dom].left
        BY <3>7, <4>1, <4>2 DEF Keys
      <4>4. cert[worker.dom] # None /\ tls[worker.dom].left <= cert[worker.dom]
        BY <1>2, <4>1, <4>3 DEF CacheTellsApart
      <4>5. cert[worker.dom] \in Nat /\ tls[worker.dom].left \in Nat
        BY <1>2, <4>2, <4>4 DEF Shapes, Certs, Keys
      <4>6. QED
        BY <3>6, <4>3, <4>4, <4>5
    <3>8. cert'[worker.dom] = Life /\ Life # None
      BY <1>2, <3>1 DEF Shapes
    <3>9. CacheTellsApart'
      <4> SUFFICES ASSUME NEW d \in Domains, tls'[d] # None, tls'[d].same
                   PROVE  /\ cert'[d] # None
                          /\ tls'[d].left <= cert'[d]
                          /\ tls'[d].fresh => tls'[d].left = cert'[d]
                          /\ ~tls'[d].fresh /\ cert'[d] # 0
                                => tls'[d].left < cert'[d]
        BY DEF CacheTellsApart
      <4>1. CASE d = worker.dom
        <5>1. tls'[d] \in Keys
          BY <3>3
        <5>2. QED
          BY <3>7, <3>8, <4>1, <5>1 DEF Keys
      <4>2. CASE d # worker.dom
        BY <3>5, <4>2 DEF CacheTellsApart
      <4>3. QED
        BY <4>1, <4>2
    <3>10. QED
      BY <3>4, <3>9
  <2>3. QED
    BY <2>1, <2>2
<1>10. QED
  BY <1>6, <1>7, <1>8, <1>9

-----------------------------------------------------------------------------
(* The users                                                               *)

(* The requests of SaveApp, UpdateSettings and IssueDashboardCertificate   *)
(* go through try_send, which leaves the reserved places alone.            *)
LEMMA AskStep ==
  ASSUME TaskInv, NEW d \in Domains,
         mode' \in [Domains -> {"none", "http", "https"}],
         queue' = TrySend(d) \/ queue' = queue,
         UNCHANGED <<cert, worker, challenges, reissue, tls, served, asked>>
  PROVE  TaskInv'
<1> USE DEF TaskInv
<1>1. /\ queue' \in Seq(Domains)
      /\ Len(queue') + Cardinality(reissue.todo) <= QueueCap
      /\ \A i \in DOMAIN queue : i \in DOMAIN queue' /\ queue'[i] = queue[i]
  <2>1. CASE queue' = TrySend(d)
    BY <2>1, TrySendFits
  <2>2. CASE queue' = queue
    BY <2>2 DEF Shapes, PlacesReserved
  <2>3. QED
    BY <2>1, <2>2
<1>2. Shapes'
  BY <1>1 DEF Shapes
<1>3. PlacesReserved' /\ ReissueFollowsUp'
  BY <1>1 DEF PlacesReserved, ReissueFollowsUp
<1>4. ChallengesOfOpenOrder' /\ OrdersAreDue'
  BY DEF ChallengesOfOpenOrder, OrdersAreDue
<1>5. CacheTellsApart' /\ HandshakeServesStored'
  BY DEF CacheTellsApart, HandshakeServesStored
<1>6. QED
  BY <1>2, <1>3, <1>4, <1>5

(* A reissue begins by taking its places in the channel.                   *)
LEMMA ReissueBegins ==
  ASSUME TaskInv, NEW ds \in SUBSET Domains, ReissueCertificate(ds)
  PROVE  TaskInv'
<1> USE DEF TaskInv
<1>1. UNCHANGED <<mode, cert, queue, worker, challenges, tls, served, asked>>
  BY DEF ReissueCertificate, task, ghosts
<1>2. /\ reissue = [step |-> "idle", todo |-> {}]
      /\ reissue' = [step |-> "delete", todo |-> ds]
      /\ Len(queue) + Cardinality(ds) <= QueueCap
  BY DEF ReissueCertificate, Quiet
<1>3. reissue.step \notin Domains
  BY <1>2
<1>4. Shapes'
  BY <1>1, <1>2 DEF Shapes
<1>5. PlacesReserved'
  BY <1>1, <1>2 DEF PlacesReserved
<1>6. ReissueFollowsUp'
  BY <1>1, <1>3 DEF ReissueFollowsUp, Shapes
<1>7. ChallengesOfOpenOrder' /\ OrdersAreDue'
  BY <1>1 DEF ChallengesOfOpenOrder, OrdersAreDue
<1>8. CacheTellsApart' /\ HandshakeServesStored'
  BY <1>1 DEF CacheTellsApart, HandshakeServesStored
<1>9. QED
  BY <1>4, <1>5, <1>6, <1>7, <1>8

LEMMA UserStep == TaskInv /\ User => TaskInv'
<1> SUFFICES ASSUME TaskInv, User PROVE TaskInv'
  OBVIOUS
<1>1. mode \in [Domains -> {"none", "http", "https"}]
  BY DEF TaskInv, Shapes
<1>2. ASSUME NEW d \in Domains, NEW m \in {"none", "http", "https"},
             SaveApp(d, m)
      PROVE  TaskInv'
  <2>1. mode' \in [Domains -> {"none", "http", "https"}]
    BY <1>1, <1>2 DEF SaveApp
  <2>2. QED
    BY <1>2, <2>1, AskStep DEF SaveApp
<1>3. ASSUME NEW m \in {"none", "https"}, UpdateSettings(m)
      PROVE  TaskInv'
  <2>1. mode' \in [Domains -> {"none", "http", "https"}]
    BY <1>1, <1>3 DEF UpdateSettings
  <2>2. QED
    BY <1>3, <2>1, AskStep DEF UpdateSettings
<1>4. CASE IssueDashboardCertificate
  BY <1>1, <1>4, AskStep DEF IssueDashboardCertificate, ghosts
<1>5. QED
  BY <1>2, <1>3, <1>4, ReissueBegins DEF User

(* The row goes while its request is still to be sent: the handler itself  *)
(* follows it up.  A key that was cached for the row is never served again. *)
LEMMA ReissueDeleteStep ==
  ASSUME TaskInv, NEW d \in Domains, ReissueDelete(d)
  PROVE  TaskInv'
<1> USE DEF TaskInv
<1>1. UNCHANGED <<mode, queue, worker, challenges, served>>
  BY DEF ReissueDelete, task
<1>2. /\ reissue.step = "delete" /\ d \in reissue.todo
      /\ reissue' = [step |-> d, todo |-> reissue.todo]
  BY DEF ReissueDelete, Shapes
<1>3. asked' \subseteq asked \cup {d} /\ reissue.step \notin Domains
  BY <1>2 DEF ReissueDelete, ghosts
<1>4. \/ UNCHANGED <<cert, tls>>
      \/ cert' = [cert EXCEPT ![d] = None] /\ tls' = Removed(d)
  BY DEF ReissueDelete
<1>5. cert' \in [Domains -> Certs] /\ tls' \in [Domains -> Keys \cup {None}]
  <2>1. None \in Certs
    BY DEF Certs
  <2>2. CASE UNCHANGED <<cert, tls>>
    BY <2>2 DEF Shapes
  <2>3. CASE cert' = [cert EXCEPT ![d] = None] /\ tls' = Removed(d)
    <3>1. tls' \in [Domains -> Keys \cup {None}]
      BY <2>3, KeysStay
    <3>2. cert' \in [Domains -> Certs]
      BY <2>1, <2>3 DEF Shapes
    <3>3. QED
      BY <3>1, <3>2
  <2>4. QED
    BY <1>4, <2>2, <2>3
<1>6. reissue' \in [step : Domains \cup {"idle", "delete"}, todo : SUBSET Domains]
  BY <1>2 DEF Shapes
<1>7. Shapes'
  BY <1>1, <1>3, <1>5, <1>6 DEF Shapes
<1>8. PlacesReserved'
  BY <1>1, <1>2 DEF PlacesReserved
<1>9. ReissueFollowsUp'
  BY <1>1, <1>2, <1>3 DEF ReissueFollowsUp, Shapes
<1>10. ChallengesOfOpenOrder'
  BY <1>1 DEF ChallengesOfOpenOrder
<1>11. OrdersAreDue'
  <2>1. \A e \in Domains : cert'[e] = cert[e] \/ cert'[e] = None
    BY <1>4 DEF Shapes
  <2>2. QED
    BY <1>1, <2>1 DEF OrdersAreDue, Shapes
<1>12. CacheTellsApart'
  <2>1. CASE UNCHANGED <<cert, tls>>
    BY <2>1 DEF CacheTellsApart
  <2>2. CASE cert' = [cert EXCEPT ![d] = None] /\ tls' = Removed(d)
    <3>1. \A e \in Domains \ {d} : cert'[e] = cert[e] /\ tls'[e] = tls[e]
      BY <2>2, KeysStay DEF Shapes
    <3>2. tls'[d] # None => ~tls'[d].same
      BY <2>2, KeysStay
    <3>3. QED
      BY <3>1, <3>2 DEF CacheTellsApart
  <2>3. QED
    BY <1>4, <2>1, <2>2
<1>13. HandshakeServesStored'
  BY <1>1 DEF HandshakeServesStored
<1>14. QED
  BY <1>7, <1>8, <1>9, <1>10, <1>11, <1>12, <1>13

(* permit.send: there is a place, so the request is in the channel when    *)
(* the handler turns to its next domain.                                   *)
LEMMA ReissueSendStep ==
  ASSUME TaskInv, NEW d \in Domains, ReissueSend(d)
  PROVE  TaskInv'
<1> USE DEF TaskInv
<1>1. UNCHANGED <<mode, cert, worker, challenges, tls, served, asked>>
  BY DEF ReissueSend, ghosts
<1>2. reissue.step = d /\ d \in reissue.todo /\ reissue.todo \in SUBSET Domains
  BY DEF ReissueSend, PlacesReserved, Shapes
<1>3. /\ Cardinality(reissue.todo) \in Nat
      /\ Cardinality(reissue.todo \ {d}) = Cardinality(reissue.todo) - 1
      /\ Cardinality(reissue.todo \ {d}) \in Nat
  BY <1>2, DomainSizes
<1>4. queue \in Seq(Domains) /\ Len(queue) \in Nat
  BY DEF Shapes
<1>5. Len(queue) < QueueCap
  BY <1>2, <1>3, <1>4 DEF PlacesReserved
<1>6. queue' = Append(queue, d)
  BY <1>5 DEF ReissueSend
<1>7. /\ queue' \in Seq(Domains)
      /\ Len(queue') = Len(queue) + 1
      /\ \A i \in DOMAIN queue : i \in DOMAIN queue' /\ queue'[i] = queue[i]
      /\ Len(queue') \in DOMAIN queue' /\ queue'[Len(queue')] = d
  BY <1>4, <1>6
<1>8. /\ reissue'.todo = reissue.todo \ {d}
      /\ reissue'.step \in {"idle", "delete"}
      /\ reissue'.step = "idle" => reissue'.todo = {}
      /\ reissue' \in [step : Domains \cup {"idle", "delete"},
                       todo : SUBSET Domains]
  BY <1>2 DEF ReissueSend, Quiet
<1>9. Shapes'
  BY <1>1, <1>7, <1>8 DEF Shapes
<1>10. PlacesReserved'
  <2>1. Len(queue') + Cardinality(reissue'.todo) <= QueueCap
    BY <1>3, <1>4, <1>7, <1>8 DEF PlacesReserved
  <2>2. reissue'.step \notin Domains
    BY <1>8
  <2>3. QED
    BY <1>8, <2>1, <2>2 DEF PlacesReserved
<1>11. ReissueFollowsUp'
  BY <1>1, <1>2, <1>7 DEF ReissueFollowsUp
<1>12. ChallengesOfOpenOrder' /\ OrdersAreDue'
  BY <1>1 DEF ChallengesOfOpenOrder, OrdersAreDue
<1>13. CacheTellsApart' /\ HandshakeServesStored'
  BY <1>1 DEF CacheTellsApart, HandshakeServesStored
<1>14. QED
  BY <1>9, <1>10, <1>11, <1>12, <1>13

-----------------------------------------------------------------------------
(* Handshakes, time and crashes                                            *)

(* A cached key that passes load_cert's test is the row's own: one with    *)
(* the row's identifier from before a renewal has an earlier expiry.       *)
LEMMA HandshakeStep ==
  ASSUME TaskInv, NEW d \in Domains, Handshake(d)
  PROVE  TaskInv'
<1> USE DEF TaskInv
<1>1. UNCHANGED <<mode, cert, queue, worker, challenges, reissue, asked>>
  BY DEF Handshake, task, ghosts
<1>2. ChallengesOfOpenOrder' /\ OrdersAreDue'
  BY <1>1 DEF ChallengesOfOpenOrder, OrdersAreDue
<1>3. PlacesReserved' /\ ReissueFollowsUp'
  BY <1>1 DEF PlacesReserved, ReissueFollowsUp
<1>4. cert[d] \in Certs
  BY DEF Shapes
<1>5. CASE cert[d] = None \/ cert[d] = 0
  <2>1. /\ tls' = [tls EXCEPT ![d] = None]
        /\ served' = [served EXCEPT ![d] = "none"]
    BY <1>5 DEF Handshake
  <2>2. Shapes'
    BY <1>1, <2>1 DEF Shapes
  <2>3. CacheTellsApart' /\ HandshakeServesStored'
    BY <1>1, <2>1 DEF CacheTellsApart, HandshakeServesStored, Shapes
  <2>4. QED
    BY <1>2, <1>3, <2>2, <2>3
<1>6. CASE cert[d] # None /\ cert[d] # 0 /\ CacheHit(d)
  <2>1. /\ tls' = tls
        /\ served' = [served EXCEPT ![d] =
                         IF tls[d].fresh THEN "stored" ELSE "other"]
    BY <1>6 DEF Handshake
  <2>2. tls[d] # None /\ tls[d].same /\ tls[d].left = cert[d]
    BY <1>6 DEF CacheHit
  <2>3. cert[d] \in Nat
    BY <1>4, <1>6 DEF Certs
  <2>4. tls[d].fresh
    BY <1>6, <2>2, <2>3 DEF CacheTellsApart
  <2>5. served' = [served EXCEPT ![d] = "stored"]
    BY <2>1, <2>4
  <2>6. Shapes'
    BY <1>1, <2>1, <2>5 DEF Shapes
  <2>7. CacheTellsApart' /\ HandshakeServesStored'
    BY <1>1, <2>1, <2>5 DEF CacheTellsApart, HandshakeServesStored, Shapes
  <2>8. QED
    BY <1>2, <1>3, <2>6, <2>7
<1>7. CASE cert[d] # None /\ cert[d] # 0 /\ ~CacheHit(d)
  <2>1. /\ tls' = [tls EXCEPT ![d] =
                      [left |-> cert[d], same |-> TRUE, fresh |-> TRUE]]
        /\ served' = [served EXCEPT ![d] = "stored"]
    BY <1>7 DEF Handshake
  <2>2. cert[d] \in Nat
    BY <1>4, <1>7 DEF Certs
  <2>3. [left |-> cert[d], same |-> TRUE, fresh |-> TRUE] \in Keys
    BY <2>2 DEF Keys
  <2>4. Shapes'
    BY <1>1, <2>1, <2>3 DEF Shapes
  <2>5. CacheTellsApart'
    <3>1. \A e \in Domains \ {d} : tls'[e] = tls[e]
      BY <2>1 DEF Shapes
    <3>2. tls'[d] = [left |-> cert[d], same |-> TRUE, fresh |-> TRUE]
      BY <2>1 DEF Shapes
    <3>3. QED
      BY <1>1, <1>7, <2>2, <3>1, <3>2 DEF CacheTellsApart
  <2>6. HandshakeServesStored'
    BY <2>1 DEF HandshakeServesStored, Shapes
  <2>7. QED
    BY <1>2, <1>3, <2>4, <2>5, <2>6
<1>8. QED
  BY <1>5, <1>6, <1>7

(* Time takes the same from the row and from the key cached for it.        *)
LEMMA TickStep == TaskInv /\ Tick => TaskInv'
<1> SUFFICES ASSUME TaskInv, Tick PROVE TaskInv'
  OBVIOUS
<1> USE DEF TaskInv
<1>1. UNCHANGED <<mode, queue, worker, challenges, reissue, served, asked>>
  BY DEF Tick, ghosts
<1>2. worker.pc \notin Steps
  BY DEF Tick, Steps
<1>3. ChallengesOfOpenOrder' /\ OrdersAreDue'
  BY <1>1, <1>2 DEF ChallengesOfOpenOrder, OrdersAreDue
<1>4. PlacesReserved' /\ ReissueFollowsUp' /\ HandshakeServesStored'
  BY <1>1 DEF PlacesReserved, ReissueFollowsUp, HandshakeServesStored
<1>5. ASSUME NEW d \in Domains
      PROVE  /\ cert'[d] \in Certs
             /\ cert[d] \in {None, 0} => cert'[d] = cert[d]
             /\ cert[d] \notin {None, 0} => cert'[d] = cert[d] - 1
  <2>1. cert[d] \in Certs
    BY DEF Shapes
  <2>2. cert'[d] = IF cert[d] \in {None, 0} THEN cert[d] ELSE cert[d] - 1
    BY DEF Tick
  <2>3. CASE cert[d] \in {None, 0}
    BY <2>1, <2>2, <2>3
  <2>4. CASE cert[d] \notin {None, 0}
    BY <2>1, <2>2, <2>4 DEF Certs
  <2>5. QED
    BY <2>3, <2>4
<1>6. ASSUME NEW d \in Domains
      PROVE  /\ tls'[d] \in Keys \cup {None}
             /\ tls[d] = None => tls'[d] = None
             /\ tls[d] # None =>
                   /\ tls'[d].same = tls[d].same
                   /\ tls'[d].fresh = tls[d].fresh
                   /\ tls'[d].left =
                        IF tls[d].left = 0 THEN 0 ELSE tls[d].left - 1
  <2>1. tls[d] \in Keys \cup {None}
    BY DEF Shapes
  <2>2. CASE tls[d] = None
    BY <2>2 DEF Tick
  <2>3. CASE tls[d] # None
    <3>1. tls[d] \in Keys
      BY <2>1, <2>3
    <3>2. tls'[d] = [tls[d] EXCEPT !.left =
                        IF tls[d].left = 0 THEN 0 ELSE tls[d].left - 1]
      BY <2>3, <3>1 DEF Tick, Keys
    <3>3. QED
      BY <2>1, <2>3, <3>1, <3>2 DEF Keys
  <2>4. QED
    BY <2>2, <2>3
<1>7. Shapes'
  <2>1. cert' \in [Domains -> Certs] /\ tls' \in [Domains -> Keys \cup {None}]
    BY <1>5, <1>6 DEF Tick
  <2>2. QED
    BY <1>1, <2>1 DEF Shapes
<1>8. CacheTellsApart'
  <2> SUFFICES ASSUME NEW d \in Domains, tls'[d] # None, tls'[d].same
               PROVE  /\ cert'[d] # None
                      /\ tls'[d].left <= cert'[d]
                      /\ tls'[d].fresh => tls'[d].left = cert'[d]
                      /\ ~tls'[d].fresh /\ cert'[d] # 0
                            => tls'[d].left < cert'[d]
    BY DEF CacheTellsApart
  <2>1. /\ tls[d] # None /\ tls[d].same /\ tls'[d].fresh = tls[d].fresh
        /\ tls'[d].left = IF tls[d].left = 0 THEN 0 ELSE tls[d].left - 1
    BY <1>6
  <2>2. /\ cert[d] # None
        /\ tls[d].left <= cert[d]
        /\ tls[d].fresh => tls[d].left = cert[d]
        /\ ~tls[d].fresh /\ cert[d] # 0 => tls[d].left < cert[d]
    BY <2>1 DEF CacheTellsApart
  <2>3. tls[d].left \in Nat /\ cert[d] \in Nat
    BY <2>1, <2>2 DEF Shapes, Keys, Certs
  <2>4. cert'[d] = IF cert[d] = 0 THEN 0 ELSE cert[d] - 1
    BY <1>5, <2>2
  <2>5. QED
    BY <2>1, <2>2, <2>3, <2>4
<1>9. QED
  BY <1>3, <1>4, <1>7, <1>8

(* A crash forgets every key, request, token and asked domain at once.     *)
LEMMA CrashStep == TaskInv /\ Crash => TaskInv'
<1> SUFFICES ASSUME TaskInv, Crash PROVE TaskInv'
  OBVIOUS
<1> USE DEF TaskInv
<1>1. /\ queue' = <<>> /\ challenges' = {} /\ asked' = {}
      /\ worker' = [pc |-> "idle", dom |-> None, valid |-> FALSE, pass |-> {}]
      /\ reissue' = [step |-> "idle", todo |-> {}]
      /\ tls' = [d \in Domains |-> None]
      /\ UNCHANGED <<cert, served>>
  BY DEF Crash, Idle, Quiet
<1>2. mode' \in [Domains -> {"none", "http", "https"}]
  BY DEF Crash, Shapes
<1>3. Shapes'
  <2>1. /\ worker' \in [pc : {"idle", "pass"} \cup Steps,
                        dom : Domains \cup {None}, valid : BOOLEAN,
                        pass : SUBSET Domains]
        /\ worker'.pc \notin Steps
    BY <1>1 DEF Steps
  <2>2. reissue' \in [step : Domains \cup {"idle", "delete"},
                     todo : SUBSET Domains]
    BY <1>1
  <2>3. tls' \in [Domains -> Keys \cup {None}] /\ queue' \in Seq(Domains)
    BY <1>1
  <2>4. QED
    BY <1>1, <1>2, <2>1, <2>2, <2>3 DEF Shapes
<1>4. PlacesReserved'
  BY <1>1, NoDomains DEF PlacesReserved
<1>5. ChallengesOfOpenOrder' /\ ReissueFollowsUp'
  BY <1>1 DEF ChallengesOfOpenOrder, ReissueFollowsUp
<1>6. OrdersAreDue'
  BY <1>1 DEF OrdersAreDue, Steps
<1>7. CacheTellsApart' /\ HandshakeServesStored'
  BY <1>1 DEF CacheTellsApart, HandshakeServesStored
<1>8. QED
  BY <1>3, <1>4, <1>5, <1>6, <1>7

(* Every step keeps TaskInv.                                               *)
LEMMA NextTaskInv == TaskInv /\ [Next]_vars => TaskInv'
<1> SUFFICES ASSUME TaskInv, [Next]_vars PROVE TaskInv'
  OBVIOUS
<1>1. CASE User
  BY <1>1, UserStep
<1>2. CASE \E d \in Domains : ReissueDelete(d) \/ ReissueSend(d)
  BY <1>2, ReissueDeleteStep, ReissueSendStep
<1>3. CASE \E d \in Visited : Handshake(d)
  BY <1>3, HandshakeStep
<1>4. CASE Task
  <2>1. CASE TakeRequest \/ RenewalPass
    BY <2>1, TakeRequestStep, RenewalPassStep
  <2>2. CASE \E d \in Domains : PassDomain(d)
    BY <2>2, PassDomainStep
  <2>3. CASE \/ OpenOrder \/ Authorize \/ FinalizeOrder
             \/ \E d \in Domains : ServeChallenge(d)
    BY <2>3, OrderStep
  <2>4. CASE OrderFails \/ OrderSucceeds
    BY <2>4, OrderEnds
  <2>5. QED
    BY <1>4, <2>1, <2>2, <2>3, <2>4 DEF Task
<1>5. CASE Tick
  BY <1>5, TickStep
<1>6. CASE Crash
  BY <1>6, CrashStep
<1>7. CASE UNCHANGED vars
  BY <1>7 DEF vars, task, ghosts, TaskInv, Shapes, ChallengesOfOpenOrder,
              PlacesReserved, ReissueFollowsUp, OrdersAreDue, CacheTellsApart,
              HandshakeServesStored
<1>8. QED
  BY <1>1, <1>2, <1>3, <1>4, <1>5, <1>6, <1>7 DEF Next

-----------------------------------------------------------------------------
(* Attempts to renew                                                       *)

(* A step by which a domain is renewed or gives up its place in the pass   *)
(* only after an attempt: every interval of the window is accounted for.   *)
LEMMA KeepsUp ==
  ASSUME Shapes, Shapes', AttemptsKeepUp, tries' \in [Domains -> 0 .. Window],
         Domains \ Managed' \subseteq away',
         \A d \in Domains \ away' :
            \/ cert'[d] = None
            \/ cert'[d] # None /\ Window < cert'[d]
            \/ /\ d \notin away /\ cert'[d] = cert[d]
               /\ \/ tries'[d] = tries[d] /\ (Pending(d) => Pending(d)')
                  \/ tries'[d] = Least(tries[d] + 1, Window)
  PROVE  AttemptsKeepUp'
<1>1. \A d \in Domains : /\ tries[d] \in 0 .. Window /\ tries'[d] \in 0 .. Window
                         /\ cert[d] # None => cert[d] \in Nat
                         /\ cert'[d] # None => cert'[d] \in Nat
  BY DEF Shapes, Certs, AttemptsKeepUp
<1>2. ASSUME NEW d \in Domains \ away', cert'[d] # None
      PROVE  /\ Window <= tries'[d] + cert'[d]
             /\ ~Pending(d)' => tries'[d] = Window \/ Window < tries'[d] + cert'[d]
  <2>1. CASE Window < cert'[d]
    BY <1>1, <1>2, <2>1
  <2>2. CASE d \notin away /\ cert'[d] = cert[d] /\ tries'[d] = tries[d]
             /\ (Pending(d) => Pending(d)')
    BY <1>1, <1>2, <2>2 DEF AttemptsKeepUp
  <2>3. CASE d \notin away /\ cert'[d] = cert[d]
             /\ tries'[d] = Least(tries[d] + 1, Window)
    <3>1. Window <= tries[d] + cert[d]
      BY <1>2, <2>3 DEF AttemptsKeepUp
    <3>2. QED
      BY <1>1, <1>2, <2>3, <3>1 DEF Least
  <2>4. QED
    BY <1>2, <2>1, <2>2, <2>3
<1>3. QED
  BY <1>2 DEF AttemptsKeepUp

(* The steps of the task: a domain leaves the pass with an attempt or with *)
(* a certificate that is good enough.                                      *)
LEMMA TaskKeepsUp ==
  ASSUME TaskInv, TaskInv', AttemptsKeepUp, Task
  PROVE  AttemptsKeepUp'
<1>1. Shapes /\ Shapes' /\ worker.pc \in {"idle", "pass"} \cup Steps
  BY DEF TaskInv, Shapes
<1>2. /\ tries \in [Domains -> 0 .. Window] /\ Domains \ Managed \subseteq away
      /\ UNCHANGED mode /\ Managed' = Managed
  BY DEF AttemptsKeepUp, Task, TakeRequest, RenewalPass, OpenOrder, Authorize,
         FinalizeOrder, OrderFails, OrderSucceeds, PassDomain, ServeChallenge, Managed
<1>3. ASSUME UNCHANGED <<cert, tries, away>>,
             \A d \in Domains : \/ cert[d] # None /\ Window < cert[d]
                                \/ Pending(d) => Pending(d)'
      PROVE  AttemptsKeepUp'
  BY <1>1, <1>2, <1>3, KeepsUp
<1>4. \A ds \in SUBSET Domains :
        /\ Failed(ds) \in [Domains -> 0 .. Window]
        /\ \A d \in Domains : Failed(ds)[d] = IF d \in ds THEN Least(tries[d] + 1, Window)
                                               ELSE tries[d]
  BY <1>2 DEF Failed, Least
<1>5. ASSUME NEW e \in Domains, NEW pass \in SUBSET Domains,
             EnsureCertificate(e, pass), UNCHANGED due
      PROVE  \A d \in Domains :
                \/ cert[d] # None /\ Window < cert[d]
                \/ due \/ d \in pass \cup {e} => Pending(d)'
  <2>1. CASE NeedsRenewal(e)
    <3>1. worker' = [pc |-> "account", dom |-> e, valid |-> FALSE, pass |-> pass]
      BY <1>5, <2>1 DEF EnsureCertificate, Idle
    <3>2. QED
      BY <1>5, <3>1 DEF Pending, Steps
  <2>2. CASE ~NeedsRenewal(e)
    <3>1. worker' = [pc |-> IF pass = {} THEN "idle" ELSE "pass",
                     dom |-> None, valid |-> FALSE, pass |-> pass]
      BY <1>5, <2>2 DEF EnsureCertificate, Idle
    <3>2. cert[e] # None /\ cert[e] \in Nat /\ Window < cert[e]
      BY <1>1, <2>2 DEF NeedsRenewal, Shapes, Certs
    <3>3. QED
      BY <1>5, <3>1, <3>2 DEF Pending
  <2>3. QED
    BY <2>1, <2>2
<1>6. CASE TakeRequest
  <2>1. UNCHANGED <<cert, tries, away, due>> /\ worker.pc = "idle"
    BY <1>6 DEF TakeRequest
  <2>2. Head(queue) \in Domains
    BY <1>1, <1>6 DEF TakeRequest, Shapes
  <2>3. \A d \in Domains : Pending(d) => due
    BY <2>1 DEF Pending, Steps
  <2>4. CASE worker' = worker
    BY <1>3, <2>1, <2>4 DEF Pending
  <2>5. CASE EnsureCertificate(Head(queue), {})
    BY <1>3, <1>5, <2>1, <2>2, <2>3, <2>5
  <2>6. QED
    BY <1>6, <2>4, <2>5 DEF TakeRequest
<1>7. CASE RenewalPass
  <2>1. UNCHANGED <<cert, away>> /\ worker.pc = "idle" /\ Managed \in SUBSET Domains
    BY <1>7 DEF RenewalPass, Managed
  <2>2. CASE tries' = Failed(Managed)
    <3>1. \A d \in Domains \ away' : tries'[d] = Least(tries[d] + 1, Window)
      BY <1>2, <1>4, <2>1, <2>2
    <3>2. QED
      BY <1>1, <1>2, <1>4, <2>1, <2>2, <3>1, KeepsUp
  <2>3. CASE Managed = {} /\ tries' = tries
    <3>1. Domains \ away' = {}
      BY <1>2, <2>1, <2>3
    <3>2. QED
      BY <1>1, <1>2, <2>1, <2>3, <3>1, KeepsUp
  <2>4. CASE worker' = [Idle EXCEPT !.pc = "pass", !.pass = Managed] /\ tries' = tries
    <3>1. worker'.pc = "pass" /\ worker'.pass = Managed
      BY <2>4 DEF Idle
    <3>2. \A d \in Domains \ away' : Pending(d)'
      BY <1>2, <2>1, <3>1 DEF Pending
    <3>3. QED
      BY <1>1, <1>2, <2>1, <2>4, <3>2, KeepsUp
  <2>5. QED
    BY <1>7, <2>2, <2>3, <2>4 DEF RenewalPass
<1>8. ASSUME NEW e \in Domains, PassDomain(e)
      PROVE  AttemptsKeepUp'
  <2>1. /\ worker.pc = "pass" /\ e \in worker.pass
        /\ EnsureCertificate(e, worker.pass \ {e})
        /\ UNCHANGED <<cert, tries, away, due>>
    BY <1>8 DEF PassDomain, ghosts
  <2>2. worker.pass \ {e} \in SUBSET Domains
    BY <1>1 DEF Shapes
  <2>3. \A d \in Domains : Pending(d) => due \/ d \in (worker.pass \ {e}) \cup {e}
    BY <2>1 DEF Pending, Steps
  <2>4. QED
    BY <1>3, <1>5, <2>1, <2>2, <2>3
<1>9. CASE \/ OpenOrder \/ Authorize \/ FinalizeOrder
           \/ \E d \in Domains : ServeChallenge(d)
  <2>1. UNCHANGED <<cert, tries, away, due>>
    BY <1>9 DEF OpenOrder, Authorize, FinalizeOrder, ServeChallenge, ghosts
  <2>2. /\ worker'.pc \in Steps /\ worker'.dom = worker.dom
        /\ worker'.pass = worker.pass
    <3>1. worker \in [pc : {"idle", "pass"} \cup Steps, dom : Domains \cup {None},
                      valid : BOOLEAN, pass : SUBSET Domains]
      BY <1>1 DEF Shapes
    <3>2. CASE OpenOrder
      BY <3>1, <3>2 DEF OpenOrder, Steps
    <3>3. CASE Authorize
      BY <3>1, <3>3 DEF Authorize, Steps
    <3>4. CASE FinalizeOrder
      BY <3>1, <3>4 DEF FinalizeOrder, Steps
    <3>5. CASE \E d \in Domains : ServeChallenge(d)
      BY <3>1, <3>5 DEF ServeChallenge, Steps
    <3>6. QED
      BY <1>9, <3>2, <3>3, <3>4, <3>5
  <2>3. \A d \in Domains : Pending(d) => Pending(d)'
    BY <2>1, <2>2 DEF Pending, Steps
  <2>4. QED
    BY <1>3, <2>1, <2>3
<1>10. CASE OrderFails \/ OrderSucceeds
  <2>1. /\ worker.pc \in Steps /\ UNCHANGED due
        /\ worker' = [Idle EXCEPT !.pc = IF worker.pass = {} THEN "idle" ELSE "pass",
                                  !.pass = worker.pass]
    BY <1>10 DEF OrderFails, OrderSucceeds, OrderOver, Steps
  <2>2. worker.dom \in Domains
    BY <1>1, <2>1 DEF Shapes
  <2>3. /\ worker'.pass = worker.pass
        /\ worker.pass # {} => worker'.pc = "pass"
    BY <2>1 DEF Idle
  <2>4. \A d \in Domains \ {worker.dom} : Pending(d) => Pending(d)'
    BY <2>1, <2>3 DEF Pending
  <2>5. CASE OrderFails
    <3>1. UNCHANGED <<cert, away>> /\ tries' = Failed({worker.dom})
      BY <2>5 DEF OrderFails
    <3>2. {worker.dom} \in SUBSET Domains
      BY <2>2
    <3>3. /\ tries' \in [Domains -> 0 .. Window]
          /\ \A d \in Domains : tries'[d] = IF d = worker.dom THEN Least(tries[d] + 1, Window)
                                             ELSE tries[d]
      BY <1>4, <3>1, <3>2
    <3>4. QED
      BY <1>1, <1>2, <2>4, <3>1, <3>3, KeepsUp
  <2>6. CASE OrderSucceeds
    <3>1. /\ cert' = [cert EXCEPT ![worker.dom] = Life]
          /\ tries' = [tries EXCEPT ![worker.dom] = 0]
          /\ away' = IF worker.dom \in Managed THEN away \ {worker.dom} ELSE away
      BY <2>6 DEF OrderSucceeds
    <3>2. /\ tries' \in [Domains -> 0 .. Window]
          /\ \A d \in Domains \ {worker.dom} : cert'[d] = cert[d] /\ tries'[d] = tries[d]
          /\ cert'[worker.dom] = Life
      BY <1>1, <1>2, <2>2, <3>1 DEF Shapes
    <3>3. Domains \ Managed' \subseteq away'
      BY <1>2, <3>1
    <3>4. Life # None /\ Window < Life
      OBVIOUS
    <3>5. \A d \in Domains \ away' : d = worker.dom \/ d \notin away
      BY <3>1
    <3>6. QED
      BY <1>1, <2>4, <3>2, <3>3, <3>4, <3>5, KeepsUp
  <2>7. QED
    BY <1>10, <2>5, <2>6
<1>11. QED
  BY <1>6, <1>7, <1>8, <1>9, <1>10 DEF Task

(* The users: a domain that leaves the managed ones is away.               *)
LEMMA UserKeepsUp ==
  ASSUME TaskInv, TaskInv', AttemptsKeepUp,
         User \/ \E d \in Domains : ReissueSend(d) \/ Handshake(d)
  PROVE  AttemptsKeepUp'
<1>1. Shapes /\ Shapes' /\ tries \in [Domains -> 0 .. Window]
      /\ Domains \ Managed \subseteq away /\ Base \in Domains
  BY DEF TaskInv, AttemptsKeepUp
<1>2. UNCHANGED <<cert, tries, due, worker>>
  BY DEF User, SaveApp, UpdateSettings, IssueDashboardCertificate, ReissueCertificate,
         ReissueSend, Handshake, task, ghosts
<1>3. \A d \in Domains : Pending(d) => Pending(d)'
  BY <1>2 DEF Pending
<1>4. ASSUME NEW d \in Domains, NEW m, mode' = [mode EXCEPT ![d] = m],
             away' = Leaving(d, m)
      PROVE  AttemptsKeepUp'
  <2>1. away \subseteq away' /\ (m # "https" => d \in away')
    BY <1>4 DEF Leaving
  <2>2. Domains \ Managed' \subseteq away'
    BY <1>1, <1>4, <2>1 DEF Managed, Shapes
  <2>3. QED
    BY <1>1, <1>2, <1>3, <2>1, <2>2, KeepsUp
<1>5. CASE UNCHANGED <<mode, away>>
  <2>1. Domains \ Managed' \subseteq away'
    BY <1>1, <1>5 DEF Managed
  <2>2. QED
    BY <1>1, <1>2, <1>3, <1>5, <2>1, KeepsUp
<1>6. QED
  BY <1>1, <1>4, <1>5 DEF User, SaveApp, UpdateSettings, IssueDashboardCertificate,
         ReissueCertificate, ReissueSend, Handshake, task, ghosts

(* A certificate is removed: there is none that could lapse.               *)
LEMMA ReissueKeepsUp ==
  ASSUME TaskInv, TaskInv', AttemptsKeepUp, NEW d \in Domains, ReissueDelete(d)
  PROVE  AttemptsKeepUp'
<1>1. Shapes /\ Shapes' /\ tries \in [Domains -> 0 .. Window]
      /\ Domains \ Managed \subseteq away
  BY DEF TaskInv, AttemptsKeepUp
<1>2. UNCHANGED <<mode, due, worker>>
  BY DEF ReissueDelete, task
<1>3. Managed' = Managed /\ \A e \in Domains : Pending(e) => Pending(e)'
  BY <1>2 DEF Pending, Managed
<1>4. CASE UNCHANGED <<cert, away, tries>>
  BY <1>1, <1>3, <1>4, KeepsUp
<1>5. CASE /\ cert' = [cert EXCEPT ![d] = None] /\ tries' = [tries EXCEPT ![d] = 0]
           /\ away' = IF d \in Managed THEN away \ {d} ELSE away
  <2>1. /\ tries' \in [Domains -> 0 .. Window] /\ cert'[d] = None
        /\ \A e \in Domains \ {d} : cert'[e] = cert[e] /\ tries'[e] = tries[e]
    BY <1>1, <1>5 DEF Shapes
  <2>2. Domains \ Managed' \subseteq away' /\ \A e \in Domains \ away' : e = d \/ e \notin away
    BY <1>1, <1>3, <1>5
  <2>3. QED
    BY <1>1, <1>3, <2>1, <2>2, KeepsUp
<1>6. QED
  BY <1>4, <1>5 DEF ReissueDelete, ghosts

(* An interval passes: the pass of the last one made its attempt, which    *)
(* pays for the unit that is lost.                                         *)
LEMMA TickKeepsUp ==
  ASSUME TaskInv, TaskInv', AttemptsKeepUp, Tick
  PROVE  AttemptsKeepUp'
<1>1. /\ ~due /\ worker.pc = "idle" /\ due' = TRUE /\ UNCHANGED <<mode, tries, away>>
      /\ cert' = [d \in Domains |-> IF cert[d] \in {None, 0} THEN cert[d]
                                   ELSE cert[d] - 1]
  BY DEF Tick, ghosts
<1>2. \A d \in Domains : ~Pending(d) /\ Pending(d)'
  BY <1>1 DEF Pending, Steps
<1>3. Managed' = Managed
  BY <1>1 DEF Managed
<1>4. \A d \in Domains : tries[d] \in 0 .. Window /\ (cert[d] # None => cert[d] \in Nat)
  BY DEF TaskInv, Shapes, Certs, AttemptsKeepUp
<1>5. ASSUME NEW d \in Domains \ away, cert'[d] # None
      PROVE  Window <= tries[d] + cert'[d]
  <2>1. cert[d] # None /\ cert[d] \in Nat
    BY <1>1, <1>4, <1>5
  <2>2. Window <= tries[d] + cert[d] /\ (tries[d] = Window \/ Window < tries[d] + cert[d])
    BY <1>2, <2>1 DEF AttemptsKeepUp
  <2>3. cert'[d] = IF cert[d] = 0 THEN 0 ELSE cert[d] - 1
    BY <1>1, <2>1
  <2>4. QED
    BY <1>4, <2>1, <2>2, <2>3
<1>6. QED
  BY <1>1, <1>2, <1>3, <1>5 DEF AttemptsKeepUp

(* After a crash the pass is due at once.                                  *)
LEMMA CrashKeepsUp ==
  ASSUME TaskInv, TaskInv', AttemptsKeepUp, Crash
  PROVE  AttemptsKeepUp'
<1>1. Shapes /\ Shapes' /\ tries \in [Domains -> 0 .. Window]
      /\ Domains \ Managed \subseteq away /\ Base \in Domains
  BY DEF TaskInv, AttemptsKeepUp
<1>2. /\ mode' = [mode EXCEPT ![Base] = IF file THEN "https" ELSE "none"]
      /\ away' = IF file THEN away ELSE away \cup {Base}
      /\ due' = TRUE /\ UNCHANGED <<cert, tries>>
  BY DEF Crash
<1>3. \A d \in Domains : Pending(d)'
  BY <1>2 DEF Pending
<1>4. away \subseteq away' /\ (~file => Base \in away')
  BY <1>2
<1>5. Domains \ Managed' \subseteq away'
  BY <1>1, <1>2, <1>4 DEF Managed, Shapes
<1>6. QED
  BY <1>1, <1>2, <1>3, <1>4, <1>5, KeepsUp

(* Init and every step keep IInv.                                          *)
LEMMA InitIInv == Init => IInv
<1>1. Init => AttemptsKeepUp
  BY DEF Init, AttemptsKeepUp
<1>2. QED
  BY <1>1, InitTaskInv DEF IInv

LEMMA NextIInv == IInv /\ [Next]_vars => IInv'
<1> SUFFICES ASSUME IInv, [Next]_vars PROVE IInv'
  OBVIOUS
<1>1. TaskInv /\ TaskInv' /\ AttemptsKeepUp
  BY NextTaskInv DEF IInv
<1>2. CASE UNCHANGED vars
  <2>1. UNCHANGED <<mode, cert, due, worker, tries, away>>
    BY <1>2 DEF vars, task, ghosts
  <2>2. AttemptsKeepUp'
    BY <1>1, <2>1 DEF AttemptsKeepUp, Managed, Pending
  <2>3. QED
    BY <1>1, <2>2 DEF IInv
<1>3. CASE User \/ \E d \in Domains : ReissueSend(d) \/ Handshake(d)
  BY <1>1, <1>3, UserKeepsUp DEF IInv
<1>4. CASE \E d \in Domains : ReissueDelete(d)
  BY <1>1, <1>4, ReissueKeepsUp DEF IInv
<1>5. CASE Task
  BY <1>1, <1>5, TaskKeepsUp DEF IInv
<1>6. CASE Tick
  BY <1>1, <1>6, TickKeepsUp DEF IInv
<1>7. CASE Crash
  BY <1>1, <1>7, CrashKeepsUp DEF IInv
<1>8. QED
  BY <1>2, <1>3, <1>4, <1>5, <1>6, <1>7 DEF Next

LEMMA Invariance == Spec => []IInv
  BY InitIInv, NextIInv, PTL DEF Spec

(* The state stays typed, and requests and permits together never exceed   *)
(* the capacity of the channel of certificate requests.                    *)
THEOREM TypeCorrect == Spec => [](Shapes /\ PlacesReserved)
<1>1. IInv => Shapes /\ PlacesReserved
  BY DEF IInv, TaskInv
<1>2. QED
  BY <1>1, Invariance, PTL

(* request_certificate: whatever fails, and whenever the process crashes,  *)
(* the proxy answers a challenge only for the domain whose order is open.  *)
THEOREM TokensClose == Spec => []ChallengesOfOpenOrder
<1>1. IInv => ChallengesOfOpenOrder
  BY DEF IInv, TaskInv
<1>2. QED
  BY <1>1, Invariance, PTL

(* reissue_certificate: no certificate is removed without a request for a  *)
(* new one, whatever the other senders do to the channel in between.       *)
THEOREM ReissueIsFollowedUp == Spec => []ReissueFollowsUp
<1>1. IInv => ReissueFollowsUp
  BY DEF IInv, TaskInv
<1>2. QED
  BY <1>1, Invariance, PTL

(* load_cert: the identifier and the expiry together tell the cached key   *)
(* of an old certificate from the stored one.                              *)
THEOREM HandshakeIsCurrent == Spec => []HandshakeServesStored
<1>1. IInv => HandshakeServesStored
  BY DEF IInv, TaskInv
<1>2. QED
  BY <1>1, Invariance, PTL

(* ensure_certificate and the renewal interval: the certificate of a       *)
(* domain that stays managed lapses only when every attempt of the whole   *)
(* renewal window has failed, crashes or not.                              *)
THEOREM NoEarlyLapse == Spec => []NoLapse
<1>1. IInv => NoLapse
  <2> SUFFICES ASSUME IInv, NEW d \in Managed \ away, cert[d] = 0
               PROVE  tries[d] = Window
    BY DEF NoLapse
  <2>1. d \in Domains /\ cert[d] # None /\ tries[d] \in 0 .. Window
    BY DEF IInv, AttemptsKeepUp, Managed
  <2>2. Window <= tries[d] + cert[d]
    BY <2>1 DEF IInv, AttemptsKeepUp
  <2>3. QED
    BY <2>1, <2>2
<1>2. QED
  BY <1>1, Invariance, PTL
=============================================================================
