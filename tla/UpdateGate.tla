----------------------------- MODULE UpdateGate -----------------------------
(***************************************************************************)
(* The self-update handshake: install_update (containr-api updates.rs)     *)
(* pauses the deployment worker (containr-runtime worker.rs), downloads    *)
(* and verifies a release binary, waits for the running deployment, swaps  *)
(* the binary in and re-execs the process.  Worker and installer share two *)
(* atomics, DEPLOYMENTS_PAUSED and DEPLOYMENT_RUNNING; one atomic access   *)
(* is one step.                                                            *)
(***************************************************************************)
EXTENDS Naturals

CONSTANTS
    Requests,       \* install requests (POST /api/system/update)
    Releases,       \* versions published on github
    Version0,       \* the version containr starts with
    MaxJobs,        \* bound: jobs the worker receives per process lifetime
    CanDisconnect   \* whether the http client may go away during an install

ASSUME UpdateGateAssumption ==
    /\ Version0 \in Nat
    /\ Releases \subseteq Nat
    /\ MaxJobs \in Nat
    /\ CanDisconnect \in BOOLEAN

VARIABLES
    paused,      \* DEPLOYMENTS_PAUSED
    running,     \* DEPLOYMENT_RUNNING
    installing,  \* INSTALLING
    wpc,         \* the worker: run / begin_deployment
    jobs,        \* jobs received since the process started
    ipc,         \* [Requests -> program counter of install_update]
    target,      \* [Requests -> the version asked for]
    staged,      \* content of .containr-update-<version>, "none" if absent
    exe,         \* the binary on disk: [version, ok]
    current      \* version of the running process (CARGO_PKG_VERSION)

workerVars == <<running, wpc, jobs>>
installVars == <<paused, installing, ipc, target, staged, exe>>
gateVars == <<paused, running, installing, wpc, jobs, ipc, target, staged,
             exe, current>>

Versions == Releases \cup {Version0}

\* A staged file is missing, cut short by a dropped download, other bytes than
\* the checksum names, the published file but not a binary of that version that
\* runs here, or the release's binary.
Contents == {"none", "partial", "corrupt", "mislabelled", "good"}

\* The worker is between recv and begin_deployment ("begin"), between the
\* store to DEPLOYMENT_RUNNING and the load of DEPLOYMENTS_PAUSED ("check"),
\* about to clear the flag again ("retract"), asleep in the poll loop
\* ("sleep"), inside process_job ("process"), or past clearing the flag with
\* the failure still to be recorded ("mark").
WorkerPcs == {"recv", "begin", "check", "retract", "sleep", "process", "mark"}

\* install_update: "swap" INSTALLING, "pause", "compare" the versions, list the
\* "releases", fetch the "checksum", download to the staged file, "verify" and
\* "probe" it, "wait" for the running deployment, "backup", "rename", "accept"
\* (install returned Ok), "restarting" (task spawned); "failed"/"resume" undo
\* the pause.
InstallPcs == {"idle", "swap", "pause", "compare", "releases", "checksum",
               "download", "verify", "probe", "wait", "backup", "rename",
               "accept", "restarting", "failed", "resume", "done"}

\* The steps with an .await during which a dropped connection drops the handler.
AwaitPcs == {"releases", "checksum", "download", "verify", "probe", "wait",
             "backup", "rename", "accept"}

TypeOK ==
    /\ paused \in BOOLEAN
    /\ running \in BOOLEAN
    /\ installing \in BOOLEAN
    /\ wpc \in WorkerPcs
    /\ jobs \in 0..MaxJobs
    /\ ipc \in [Requests -> InstallPcs]
    /\ target \in [Requests -> Versions]
    /\ staged \in [Versions -> Contents]
    /\ exe \in [version : Versions, ok : BOOLEAN]
    /\ current \in Versions

GateInit ==
    /\ paused = FALSE
    /\ running = FALSE
    /\ installing = FALSE
    /\ wpc = "recv"
    /\ jobs = 0
    /\ ipc = [r \in Requests |-> "idle"]
    /\ target = [r \in Requests |-> Version0]
    /\ staged = [v \in Versions |-> "none"]
    /\ exe = [version |-> Version0, ok |-> TRUE]
    /\ current = Version0

-----------------------------------------------------------------------------
(* The worker *)

Goto(pc) == wpc' = pc

\* rx.recv() yields a job.
Recv ==
    /\ wpc = "recv"
    /\ jobs < MaxJobs
    /\ jobs' = jobs + 1
    /\ Goto("begin")
    /\ UNCHANGED <<running, installVars, current>>

\* DEPLOYMENT_RUNNING.store(true)
BeginDeployment ==
    /\ wpc = "begin"
    /\ running' = TRUE
    /\ Goto("check")
    /\ UNCHANGED <<jobs, installVars, current>>

\* Mutant: the pause is not looked at again once the flag is set.
CheckPausedSkipped ==
    /\ wpc = "check"
    /\ Goto("process")
    /\ UNCHANGED <<running, jobs, installVars, current>>

\* if !DEPLOYMENTS_PAUSED.load() { return }
CheckPaused ==
    /\ wpc = "check"
    /\ Goto(IF paused THEN "retract" ELSE "process")
    /\ UNCHANGED <<running, jobs, installVars, current>>

\* DEPLOYMENT_RUNNING.store(false), then sleep(PAUSE_POLL)
Retract ==
    /\ wpc = "retract"
    /\ running' = FALSE
    /\ Goto("sleep")
    /\ UNCHANGED <<jobs, installVars, current>>

Wake ==
    /\ wpc = "sleep"
    /\ Goto("begin")
    /\ UNCHANGED <<running, jobs, installVars, current>>

\* process_job and cleanup_uploaded_source are over, Ok or Err: the flag is
\* cleared first; a failure is recorded afterwards.
FinishJob ==
    /\ wpc = "process"
    /\ running' = FALSE
    /\ \/ Goto("recv")
       \/ Goto("mark")
    /\ UNCHANGED <<jobs, installVars, current>>

\* save_deployment with status Failed
MarkFailed ==
    /\ wpc = "mark"
    /\ Goto("recv")
    /\ UNCHANGED <<running, jobs, installVars, current>>

-----------------------------------------------------------------------------
(* The installer *)

GotoI(r, pc) == ipc' = [ipc EXCEPT ![r] = pc]

\* This platform has no binary, or the executable is a source build or in a
\* directory that cannot be written: 409 before anything is touched.
InstallBlocker(r) ==
    /\ ipc[r] = "idle"
    /\ GotoI(r, "done")
    /\ UNCHANGED <<paused, installing, target, staged, exe, workerVars, current>>

\* An admin asks for version v; require_admin_user, install_blocker and
\* parse_version have passed.
InstallUpdate(r, v) ==
    /\ ipc[r] = "idle"
    /\ target' = [target EXCEPT ![r] = v]
    /\ GotoI(r, "swap")
    /\ UNCHANGED <<paused, installing, staged, exe, workerVars, current>>

\* INSTALLING.swap(true): the loser answers 409.
SwapInstalling(r) ==
    /\ ipc[r] = "swap"
    /\ GotoI(r, IF installing THEN "done" ELSE "pause")
    /\ installing' = TRUE
    /\ UNCHANGED <<paused, target, staged, exe, workerVars, current>>

PauseDeployments(r) ==
    /\ ipc[r] = "pause"
    /\ paused' = TRUE
    /\ GotoI(r, "compare")
    /\ UNCHANGED <<installing, target, staged, exe, workerVars, current>>

\* install starts with `if *target <= current'.
CompareVersions(r) ==
    /\ ipc[r] = "compare"
    /\ GotoI(r, IF target[r] > current THEN "releases" ELSE "failed")
    /\ UNCHANGED <<paused, installing, target, staged, exe, workerVars, current>>

\* The releases on github and the asset lookup; a bad repository name, no
\* answer, a rate limit, a missing release or a missing asset is an error.
FetchReleases(r) ==
    /\ ipc[r] = "releases"
    /\ \/ /\ target[r] \in Releases
          /\ GotoI(r, "checksum")
       \/ GotoI(r, "failed")
    /\ UNCHANGED <<paused, installing, target, staged, exe, workerVars, current>>

\* Nothing is on disk yet when this fails.
FetchChecksum(r) ==
    /\ ipc[r] = "checksum"
    /\ \/ GotoI(r, "download")
       \/ GotoI(r, "failed")
    /\ UNCHANGED <<paused, installing, target, staged, exe, workerVars, current>>

\* download streams into the staged file, which File::create truncates; a
\* failure removes it.
Download(r) ==
    /\ ipc[r] = "download"
    /\ \/ \E content \in {"corrupt", "mislabelled", "good"} :
             /\ staged' = [staged EXCEPT ![target[r]] = content]
             /\ GotoI(r, "verify")
       \/ /\ staged' = [staged EXCEPT ![target[r]] = "none"]
          /\ GotoI(r, "failed")
    /\ UNCHANGED <<paused, installing, target, exe, workerVars, current>>

\* sha256 comparison and set_executable: the bytes are the published ones.
VerifyStaged(r) ==
    /\ ipc[r] = "verify"
    /\ \/ /\ staged[target[r]] \in {"mislabelled", "good"}
          /\ GotoI(r, "probe")
          /\ UNCHANGED staged
       \/ /\ staged' = [staged EXCEPT ![target[r]] = "none"]
          /\ GotoI(r, "failed")
    /\ UNCHANGED <<paused, installing, target, exe, workerVars, current>>

\* Mutant: the exit status counts, the version it prints does not.
VerifyBinaryVersionLax(r) ==
    /\ ipc[r] = "probe"
    /\ GotoI(r, "wait")
    /\ UNCHANGED <<paused, installing, target, staged, exe, workerVars, current>>

\* Mutant: the binary is swapped in before the running deployment is waited for.
VerifyBinaryVersionSwaps(r) ==
    /\ ipc[r] = "probe"
    /\ \/ /\ staged[target[r]] = "good"
          /\ exe' = [version |-> target[r], ok |-> TRUE]
          /\ GotoI(r, "wait")
          /\ UNCHANGED staged
       \/ /\ staged' = [staged EXCEPT ![target[r]] = "none"]
          /\ GotoI(r, "failed")
          /\ UNCHANGED exe
    /\ UNCHANGED <<paused, installing, target, workerVars, current>>

\* `<binary> --version' must run, in time, and print the target; even the right
\* binary may fail to.
VerifyBinaryVersion(r) ==
    /\ ipc[r] = "probe"
    /\ \/ /\ staged[target[r]] = "good"
          /\ GotoI(r, "wait")
          /\ UNCHANGED staged
       \/ /\ staged' = [staged EXCEPT ![target[r]] = "none"]
          /\ GotoI(r, "failed")
    /\ UNCHANGED <<paused, installing, target, exe, workerVars, current>>

\* One load of DEPLOYMENT_RUNNING by wait_for_running_deployment: done when it
\* is false, an error once the deadline (DEPLOYMENT_WAIT) has passed.
WaitForRunningDeployment(r) ==
    /\ ipc[r] = "wait"
    /\ \/ /\ ~running
          /\ GotoI(r, "backup")
          /\ UNCHANGED staged
       \/ /\ running
          /\ staged' = [staged EXCEPT ![target[r]] = "none"]
          /\ GotoI(r, "failed")
    /\ UNCHANGED <<paused, installing, target, exe, workerVars, current>>

\* tokio::fs::copy(exe, exe.previous)
BackupExe(r) ==
    /\ ipc[r] = "backup"
    /\ \/ /\ GotoI(r, "rename")
          /\ UNCHANGED staged
       \/ /\ staged' = [staged EXCEPT ![target[r]] = "none"]
          /\ GotoI(r, "failed")
    /\ UNCHANGED <<paused, installing, target, exe, workerVars, current>>

\* tokio::fs::rename(staged, exe) replaces the binary atomically.
RenameStaged(r) ==
    /\ ipc[r] = "rename"
    /\ staged' = [staged EXCEPT ![target[r]] = "none"]
    /\ \/ /\ exe' = [version |-> target[r], ok |-> staged[target[r]] = "good"]
          /\ GotoI(r, "accept")
       \/ /\ GotoI(r, "failed")
          /\ UNCHANGED exe
    /\ UNCHANGED <<paused, installing, target, workerVars, current>>

\* install returned Ok: the restart task is spawned and 202 is answered.
SpawnRestart(r) ==
    /\ ipc[r] = "accept"
    /\ GotoI(r, "restarting")
    /\ UNCHANGED <<paused, installing, target, staged, exe, workerVars, current>>

\* Mutant: a failed install forgets resume_deployments().
ResumeForgotten(r) ==
    /\ ipc[r] = "failed"
    /\ GotoI(r, "resume")
    /\ UNCHANGED <<paused, installing, target, staged, exe, workerVars, current>>

\* install returned Err: resume_deployments() first, INSTALLING after it.
ResumeDeployments(r) ==
    /\ ipc[r] = "failed"
    /\ paused' = FALSE
    /\ GotoI(r, "resume")
    /\ UNCHANGED <<installing, target, staged, exe, workerVars, current>>

ReleaseInstalling(r) ==
    /\ ipc[r] = "resume"
    /\ installing' = FALSE
    /\ GotoI(r, "done")
    /\ UNCHANGED <<paused, target, staged, exe, workerVars, current>>

\* The http client goes away: the server drops the handler at its .await and
\* nothing after it runs.  A staged file may stay behind in any shape.
Disconnect(r) ==
    /\ CanDisconnect
    /\ ipc[r] \in AwaitPcs
    /\ GotoI(r, "done")
    /\ \/ UNCHANGED staged
       \/ /\ ipc[r] = "download"
          /\ staged' = [staged EXCEPT ![target[r]] = "partial"]
    /\ UNCHANGED <<paused, installing, target, exe, workerVars, current>>

\* restart: exec of the binary on disk, or exit and a supervisor starts it.
\* The statics and every task of the old process are gone.
Restart(r) ==
    /\ ipc[r] = "restarting"
    /\ current' = exe.version
    /\ paused' = FALSE
    /\ running' = FALSE
    /\ installing' = FALSE
    /\ wpc' = "recv"
    /\ jobs' = 0
    /\ ipc' = [q \in Requests |-> IF ipc[q] = "idle" THEN "idle" ELSE "done"]
    /\ UNCHANGED <<target, staged, exe>>

-----------------------------------------------------------------------------

Worker ==
    \/ Recv \/ BeginDeployment \/ CheckPaused \/ Retract \/ Wake
    \/ FinishJob \/ MarkFailed

Installer(r) ==
    \/ SwapInstalling(r) \/ PauseDeployments(r) \/ CompareVersions(r)
    \/ FetchReleases(r) \/ FetchChecksum(r) \/ Download(r) \/ VerifyStaged(r)
    \/ VerifyBinaryVersion(r) \/ WaitForRunningDeployment(r) \/ BackupExe(r) \/ RenameStaged(r) \/ SpawnRestart(r)
    \/ ResumeDeployments(r) \/ ReleaseInstalling(r) \/ Restart(r)

GateNext ==
    \/ Worker
    \/ \E r \in Requests :
          \/ \E v \in Versions : InstallUpdate(r, v)
          \/ Installer(r)
          \/ InstallBlocker(r)
          \/ Disconnect(r)

GateSpec == GateInit /\ [][GateNext]_gateVars

\* The runtime keeps polling the worker task and every handler that is ready;
\* no step above waits on an event other than the ones its guard names.
FairGateSpec ==
    /\ GateSpec
    /\ WF_gateVars(Worker)
    /\ \A r \in Requests : WF_gateVars(Installer(r))

-----------------------------------------------------------------------------
(* Properties *)

\* Installer past the point where it saw DEPLOYMENT_RUNNING false.
Committed(r) == ipc[r] \in {"backup", "rename", "accept", "restarting"}

\* "queued deployments wait ... so the re-exec can't cut one off halfway"
\* (updates.rs install_update): from the moment an installer has seen no
\* deployment running until the exec, no job is inside process_job.
NoJobDuringSwap == \A r \in Requests : Committed(r) => wpc # "process"

\* "after pause_deployments, false means none will start until
\* resume_deployments" (worker.rs deployment_running): a step that enters
\* process_job never happens while an installer is committed, and no other
\* request lifts the pause it relies on.
PauseHolds ==
    [][(\E r \in Requests : Committed(r) /\ ipc'[r] = ipc[r])
          => /\ paused'
             /\ ~(wpc # "process" /\ wpc' = "process")]_gateVars

\* At most one request at a time is between INSTALLING.swap and its release
\* (updates.rs, the 409 "an update is already being installed").
InFlight(r) == ipc[r] \notin {"idle", "swap", "done"}

\* Two requests never both run install(), so nobody else touches the staged
\* file or the binary while one of them does.
OneInstaller ==
    \A q, r \in Requests : InFlight(q) /\ InFlight(r) => q = r

\* verify_binary_version: "so a broken or wrong download never replaces the
\* running binary", also when an earlier install left a partial staged file;
\* and the binary on disk is never older than the process.
OnlyVerifiedBinary == exe.ok /\ exe.version >= current

-----------------------------------------------------------------------------
(* The promise *)

\* Who holds the process: an installer that saw no deployment running, or the
\* job inside process_job.
Holder ==
    IF \E r \in Requests : Committed(r) THEN "update"
    ELSE IF wpc = "process" THEN "deployment" ELSE "nobody"

Lease == INSTANCE ProcessLease WITH
             holder <- Holder, installed <- exe.version, process <- current

\* install_update and begin_deployment together implement the lease: deployment
\* and update hand the process to each other only through a moment when nobody
\* holds it, the binary changes under the update's hold only, and the re-exec
\* starts the binary that was installed.
ImplementsLease == Lease!Spec

-----------------------------------------------------------------------------
(* The inductive invariant behind the safety properties *)

\* The flag covers process_job and the moment before its pause check.
FlagCoversJob == wpc \in {"check", "retract", "process"} => running

\* INSTALLING is held by whoever is in flight.
LockHeld == \A r \in Requests : InFlight(r) => installing

\* The pause is on from pause_deployments to resume_deployments.
PausedPcs == {"compare", "releases", "checksum", "download", "verify", "probe",
              "wait", "backup", "rename", "accept", "restarting", "failed"}

PauseHeld == \A r \in Requests : ipc[r] \in PausedPcs => paused

\* What install has established about its target and its staged file.
StagedVerified ==
    \A r \in Requests :
        /\ ipc[r] \in {"releases", "checksum", "download", "verify", "probe",
                      "wait", "backup", "rename"}
              => target[r] >= current
        /\ ipc[r] \in {"checksum", "download", "verify", "probe", "wait",
                      "backup", "rename"}
              => target[r] \in Releases
        /\ ipc[r] \in {"wait", "backup", "rename"}
              => staged[target[r]] = "good"

GateInv ==
    /\ TypeOK
    /\ FlagCoversJob
    /\ OneInstaller
    /\ LockHeld
    /\ PauseHeld
    /\ NoJobDuringSwap
    /\ StagedVerified
    /\ OnlyVerifiedBinary

-----------------------------------------------------------------------------
(* Liveness *)

\* An install whose client went away: INSTALLING is set and nobody is in flight.
Abandoned == installing /\ \A r \in Requests : ~InFlight(r)

\* A job the worker holds back is processed, or the process is replaced by the
\* new binary (which replays it), once the installs are over (begin_deployment,
\* install_update), unless an install was abandoned.
HeldJobRuns == (wpc = "begin") ~> (wpc \in {"process", "recv"} \/ Abandoned)

=============================================================================
