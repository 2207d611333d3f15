---------------------------- MODULE ProcessLease ----------------------------
(***************************************************************************)
(* What the self-update handshake promises: the process is held by nobody, *)
(* by one deployment or by one update.  Only the holder may touch the      *)
(* binary, and a re-exec happens under the update's hold and starts what   *)
(* was installed.  UpdateGate implements this with two flags and no lock.  *)
(***************************************************************************)
EXTENDS Naturals

CONSTANTS
    Releases,   \* versions that may be installed
    Version0    \* the version containr starts with

VARIABLES
    holder,     \* "nobody", "deployment" or "update"
    installed,  \* version of the binary on disk
    process     \* version of the running process

vars == <<holder, installed, process>>

Init == holder = "nobody" /\ installed = Version0 /\ process = Version0

\* The hold passes from one to another, through nobody.
Pass(from, to) ==
    /\ holder = from
    /\ holder' = to
    /\ UNCHANGED <<installed, process>>

StartDeployment == Pass("nobody", "deployment")
EndDeployment   == Pass("deployment", "nobody")
BeginSwap       == Pass("nobody", "update")
GiveUp          == Pass("update", "nobody")

\* A release that is not older than the process takes the binary's place.
Install ==
    /\ holder = "update"
    /\ holder' = "update"
    /\ installed' \in Releases
    /\ installed' >= process
    /\ UNCHANGED process

Reexec ==
    /\ holder = "update"
    /\ holder' = "nobody"
    /\ process' = installed
    /\ UNCHANGED installed

Next ==
    \/ StartDeployment \/ EndDeployment
    \/ BeginSwap \/ GiveUp
    \/ Install \/ Reexec

Spec == Init /\ [][Next]_vars
=============================================================================
