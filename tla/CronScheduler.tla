---------------------------- MODULE CronScheduler ----------------------------
(***************************************************************************)
(* The scheduler of cron services                                          *)
(* (crates/containr-runtime/src/cron_scheduler.rs) for one project.  One   *)
(* pass of poll_once reconciles the jobs it believes to be running, reads  *)
(* the project and its newest Running deployment, starts what is due and   *)
(* prunes what is no longer scheduled.  Every call of docker is awaited,   *)
(* so jobs end, users stop, edit and delete services, rollouts replace the *)
(* deployment and the clock moves in the middle of a pass.  Schedules and  *)
(* running jobs are kept in memory only: a crash forgets both.  Docker may *)
(* fail to inspect, to stop or to remove a container, which the code       *)
(* cannot tell from one that has ended, or ignores.                        *)
(***************************************************************************)
EXTENDS Naturals, FiniteSets

CONSTANTS
    Services,       \* cron services of the project
    NameOf,         \* NameOf[s]: the first 12 characters of its name
    Covered,        \* Covered[s]: services whose job names begin with the
                    \* prefix that a stop of s looks for
    Periods,        \* schedules: a job is due at every multiple; 0 is never
    MaxTime,        \* bound on the clock
    MaxDeps,        \* bound on the deployments
    MaxUserSteps,   \* bound on edits, stops and deletions
    MaxCrashes,     \* bound on the crashes
    Null

ASSUME CronAssumption ==
    /\ Periods \subseteq Nat
    /\ {MaxTime, MaxDeps, MaxUserSteps, MaxCrashes} \subseteq Nat
    /\ Null \notin Periods \cup Services
    /\ \A s \in Services, t \in 0 .. MaxTime : <<NameOf[s], t>> # Null

VARIABLES
    now,        \* the clock, in seconds
    dep,        \* the project's newest Running deployment, 0 for none
    row,        \* row[s]: the schedule in the service's row, Null if deleted
    schedules,  \* schedules[s]: CronScheduleState or Null
    jobs,       \* jobs[s]: name of the container in running_jobs, or Null
    conts,      \* the job containers docker has
    pc,         \* where poll_once is
    todo,       \* services the current loop has still to visit
    snap,       \* the project and deployment this pass has read
    cur,        \* the service being launched, or whose job is removed
    kept,       \* ghost: containers docker did not remove when asked
    lastSlot,   \* ghost: the slot of each service that was attempted last
    users,      \* edits, stops and deletions so far
    crashes     \* crashes so far

vars == <<now, dep, row, schedules, jobs, conts, pc, todo, snap, cur, kept,
          lastSlot, users, crashes>>

memory == <<schedules, jobs, pc, todo, snap, cur>>

NoPass == [dep |-> 0, row |-> [s \in Services |-> Null]]

Named(n) == {c \in conts : c.name = n}

Live == {c \in conts : c.run}

(* remove_container for each name: stop and removal may fail, which is     *)
(* logged and ignored, so a container may stay as it is or stay stopped.   *)
Remove(names) ==
    LET asked == {c \in conts : c.name \in names}
    IN  \E left \in SUBSET asked : \E halted \in SUBSET left :
            /\ conts' = (conts \ ((asked \ left) \cup halted))
                           \cup {[c EXCEPT !.run = FALSE] : c \in halted}
            /\ kept' = (kept \ names) \cup {c.name : c \in left}

-----------------------------------------------------------------------------
(* Schedules                                                               *)

(* Mutant: a slot that is due now counts as the next one. *)
NextScheduleStateInclusive(p, d) ==
    IF p = 0 THEN Null
    ELSE [sched |-> p, dep |-> d,
          next |-> CHOOSE t \in now .. now + p : t % p = 0]

(* next_schedule_state: the first occurrence after now. *)
NextScheduleState(p, d) ==
    IF p = 0 THEN Null
    ELSE [sched |-> p, dep |-> d,
          next |-> CHOOSE t \in now + 1 .. now + p : t % p = 0]

(* The services of this pass: none without a Running deployment. *)
ActiveKeys ==
    IF snap.dep = 0 THEN {} ELSE {s \in Services : snap.row[s] # Null}

(* The state poll_once works with: rebuilt from now when the schedule or   *)
(* the deployment changed.                                                 *)
CurrentState(s) ==
    IF schedules[s] = Null THEN NextScheduleState(snap.row[s], snap.dep)
    ELSE IF schedules[s].sched # snap.row[s] \/ schedules[s].dep # snap.dep
    THEN NextScheduleState(snap.row[s], snap.dep)
    ELSE schedules[s]

-----------------------------------------------------------------------------
(* One pass                                                                *)

PollBegin ==
    /\ pc = "idle"
    /\ pc' = "reconcile"
    /\ todo' = {s \in Services : jobs[s] # Null}
    /\ UNCHANGED <<now, dep, row, schedules, jobs, conts, snap, cur, kept,
                   lastSlot, users, crashes>>

(* reconcile_running_jobs, one job: is_running reports a container that is *)
(* gone, and one that docker fails to inspect, as not running.  The code   *)
(* goes on in the same way from "finished" and from "unseen".              *)
Inspect(s) ==
    LET running == \E c \in Named(jobs[s]) : c.run
    IN  /\ pc = "reconcile"
        /\ s \in todo
        /\ todo' = todo \ {s}
        /\ \/ running /\ UNCHANGED <<pc, cur>>
           \/ /\ pc' = IF running THEN "unseen" ELSE "finished"
              /\ cur' = s
        /\ UNCHANGED <<now, dep, row, schedules, jobs, conts, snap, kept,
                       lastSlot, users, crashes>>

(* Mutant: the finished job stays in running_jobs. *)
RemoveKeepsJob ==
    /\ pc \in {"finished", "unseen"}
    /\ Remove({jobs[cur]})
    /\ pc' = "reconcile"
    /\ cur' = Null
    /\ UNCHANGED <<now, dep, row, schedules, jobs, todo, snap, lastSlot, users,
                   crashes>>

(* Mutant: every job with the finished one's prefix is removed. *)
RemoveByPrefix ==
    /\ pc \in {"finished", "unseen"}
    /\ Remove({c.name : c \in {d \in conts : d.name[1] = jobs[cur][1]}})
    /\ jobs' = [jobs EXCEPT ![cur] = Null]
    /\ pc' = "reconcile"
    /\ cur' = Null
    /\ UNCHANGED <<now, dep, row, schedules, todo, snap, lastSlot, users,
                   crashes>>

(* The job is logged as finished, removed from docker and from             *)
(* running_jobs.                                                           *)
RemoveFinished ==
    /\ pc \in {"finished", "unseen"}
    /\ Remove({jobs[cur]})
    /\ jobs' = [jobs EXCEPT ![cur] = Null]
    /\ pc' = "reconcile"
    /\ cur' = Null
    /\ UNCHANGED <<now, dep, row, schedules, todo, snap, lastSlot, users,
                   crashes>>

(* list_apps and resolve_running_deployment. *)
PollList ==
    /\ pc = "reconcile"
    /\ todo = {}
    /\ snap' = [dep |-> dep, row |-> row]
    /\ pc' = "pass"
    /\ todo' = IF dep = 0 THEN {} ELSE {s \in Services : row[s] # Null}
    /\ UNCHANGED <<now, dep, row, schedules, jobs, conts, cur, kept, lastSlot,
                   users, crashes>>

(* A pass that cannot read the database ends with a warning, before this   *)
(* project or, at one that comes later, after it.                          *)
PollFails ==
    /\ pc \in {"reconcile", "pass"}
    /\ todo = {}
    /\ pc' = "idle"
    /\ snap' = NoPass
    /\ UNCHANGED <<now, dep, row, schedules, jobs, conts, todo, cur, kept,
                   lastSlot, users, crashes>>

(* Due, and the previous run is over. *)
DueForLaunch(s, st) == jobs[s] = Null /\ st # Null /\ (st # Null => now >= st.next)

(* One service of the pass: its next slot is taken before the job starts,  *)
(* so that a failing job waits for it.                                     *)
Visit(s) ==
    LET st == CurrentState(s)
    IN  /\ pc = "pass"
        /\ s \in todo
        /\ todo' = todo \ {s}
        /\ IF DueForLaunch(s, st)
           THEN /\ schedules' = [schedules EXCEPT
                       ![s] = NextScheduleState(snap.row[s], snap.dep)]
                /\ lastSlot' = [lastSlot EXCEPT ![s] = st.next]
                /\ cur' = s
                /\ pc' = "launch"
           ELSE /\ schedules' = [schedules EXCEPT ![s] = st]
                /\ UNCHANGED <<lastSlot, cur, pc>>
        /\ UNCHANGED <<now, dep, row, jobs, conts, snap, kept, users, crashes>>

(* launch_cron_job: the container gets a name of the service's first       *)
(* characters and the second.                                              *)
JobStarts(name) ==
    /\ Named(name) = {}
    /\ conts' = conts \cup {[name |-> name, svc |-> cur, run |-> TRUE]}
    /\ jobs' = [jobs EXCEPT ![cur] = name]
    /\ UNCHANGED kept

(* It can fail before the container is created.  When docker refuses to    *)
(* create or start it, and it does when the name is taken, whatever has    *)
(* that name is removed.  If the removal fails too, what was created stays *)
(* behind.                                                                 *)
JobFails(name) ==
    /\ UNCHANGED jobs
    /\ \/ UNCHANGED <<conts, kept>>
       \/ Remove({name})
       \/ /\ Named(name) = {}
          /\ \E run \in BOOLEAN :
                conts' = conts \cup {[name |-> name, svc |-> cur, run |-> run]}
          /\ kept' = kept \cup {name}

LaunchCronJob ==
    /\ pc = "launch"
    /\ pc' = "pass"
    /\ cur' = Null
    /\ LET name == <<NameOf[cur], now>> IN JobStarts(name) \/ JobFails(name)
    /\ UNCHANGED <<now, dep, row, schedules, todo, snap, lastSlot, users,
                   crashes>>

(* Mutant: jobs of services that are gone stay in running_jobs. *)
PruneSchedulesOnly ==
    /\ pc = "pass"
    /\ todo = {}
    /\ pc' = "idle"
    /\ schedules' = [s \in Services |->
                        IF s \in ActiveKeys THEN schedules[s] ELSE Null]
    /\ jobs' = [s \in Services |-> IF s \in ActiveKeys THEN jobs[s] ELSE Null]
    /\ snap' = NoPass
    /\ UNCHANGED <<now, dep, row, conts, todo, cur, kept, lastSlot, users,
                   crashes>>

(* The end of the pass: schedules of services that are gone are dropped,   *)
(* and their jobs killed.                                                  *)
Prune ==
    /\ pc = "pass"
    /\ todo = {}
    /\ pc' = "idle"
    /\ schedules' = [s \in Services |->
                        IF s \in ActiveKeys THEN schedules[s] ELSE Null]
    /\ Remove({jobs[s] : s \in Services \ ActiveKeys})
    /\ jobs' = [s \in Services |-> IF s \in ActiveKeys THEN jobs[s] ELSE Null]
    /\ snap' = NoPass
    /\ UNCHANGED <<now, dep, row, todo, cur, lastSlot, users, crashes>>

-----------------------------------------------------------------------------
(* Everything else                                                         *)

Tick ==
    /\ now < MaxTime
    /\ now' = now + 1
    /\ UNCHANGED <<dep, row, conts, memory, kept, lastSlot, users, crashes>>

(* The process in a job's container ends; nothing restarts it. *)
JobExits(c) ==
    /\ c \in Live
    /\ conts' = (conts \ {c}) \cup {[c EXCEPT !.run = FALSE]}
    /\ UNCHANGED <<now, dep, row, memory, kept, lastSlot, users, crashes>>

JobsOf(ss) == {c.name : c \in {d \in conts : d.svc \in ss}}

(* stop_app_service of a cron service: every container whose name starts   *)
(* with the service's prefix is removed, errors ignored.                   *)
StopCronService(s) ==
    /\ users < MaxUserSteps
    /\ row[s] # Null
    /\ dep # 0
    /\ users' = users + 1
    /\ Remove(JobsOf(Covered[s]))
    /\ UNCHANGED <<now, dep, row, memory, lastSlot, crashes>>

(* update_service with another schedule. *)
EditSchedule(s, p) ==
    /\ users < MaxUserSteps
    /\ row[s] # Null
    /\ p # row[s]
    /\ users' = users + 1
    /\ row' = [row EXCEPT ![s] = p]
    /\ UNCHANGED <<now, dep, conts, memory, kept, lastSlot, crashes>>

(* delete_app_service: a stop, whose failure to list the containers is     *)
(* ignored, then the row goes.                                             *)
DeleteCronService(s) ==
    /\ users < MaxUserSteps
    /\ row[s] # Null
    /\ users' = users + 1
    /\ row' = [row EXCEPT ![s] = Null]
    /\ Remove(JobsOf(Covered[s])) \/ UNCHANGED <<conts, kept>>
    /\ UNCHANGED <<now, dep, memory, lastSlot, crashes>>

(* A rollout ends and its deployment is the newest Running one. *)
Redeploy ==
    /\ dep < MaxDeps
    /\ \E s \in Services : row[s] # Null
    /\ dep' = dep + 1
    /\ UNCHANGED <<now, row, conts, memory, kept, lastSlot, users, crashes>>

(* The process dies and starts again: run creates both maps empty. *)
Crash ==
    /\ crashes < MaxCrashes
    /\ crashes' = crashes + 1
    /\ schedules' = [s \in Services |-> Null]
    /\ jobs' = [s \in Services |-> Null]
    /\ pc' = "idle"
    /\ todo' = {}
    /\ snap' = NoPass
    /\ cur' = Null
    /\ UNCHANGED <<now, dep, row, conts, kept, lastSlot, users>>

-----------------------------------------------------------------------------
Init ==
    /\ now = 0
    /\ dep = 0
    /\ row \in [Services -> Periods]
    /\ schedules = [s \in Services |-> Null]
    /\ jobs = [s \in Services |-> Null]
    /\ conts = {}
    /\ pc = "idle"
    /\ todo = {}
    /\ snap = NoPass
    /\ cur = Null
    /\ kept = {}
    /\ lastSlot = [s \in Services |-> 0]
    /\ users = 0
    /\ crashes = 0

Poll ==
    \/ PollBegin
    \/ PollList
    \/ LaunchCronJob
    \/ Prune
    \/ RemoveFinished
    \/ \E s \in Services : Inspect(s) \/ Visit(s)

User ==
    \E s \in Services :
        \/ StopCronService(s)
        \/ DeleteCronService(s)
        \/ \E p \in Periods : EditSchedule(s, p)

Next ==
    \/ Poll
    \/ PollFails
    \/ User
    \/ Tick
    \/ Redeploy
    \/ Crash
    \/ \E c \in conts : JobExits(c)

Spec == Init /\ [][Next]_vars

(* The loop polls for ever, the clock goes on, the database is not always  *)
(* unreadable and a job's process ends.                                    *)
FairSpec ==
    /\ Spec
    /\ WF_vars(PollBegin) /\ SF_vars(PollList)
    /\ WF_vars(RemoveFinished) /\ WF_vars(LaunchCronJob) /\ WF_vars(Prune)
    /\ WF_vars(Tick)
    /\ \A s \in Services : WF_vars(Inspect(s)) /\ WF_vars(Visit(s))
    /\ WF_vars(\E c \in conts : JobExits(c))

-----------------------------------------------------------------------------
(* Properties                                                              *)

States == [sched : Periods \ {0}, dep : 1 .. MaxDeps, next : Nat]

Names == {<<NameOf[s], t>> : s \in Services, t \in 0 .. MaxTime}

(* Containers have distinct names, and the scheduler's maps point at what  *)
(* it created.                                                             *)
TypeOK ==
    /\ now \in 0 .. MaxTime /\ dep \in 0 .. MaxDeps
    /\ row \in [Services -> Periods \cup {Null}]
    /\ schedules \in [Services -> States \cup {Null}]
    /\ jobs \in [Services -> Names \cup {Null}]
    /\ conts \subseteq [name : Names, svc : Services, run : BOOLEAN]
    /\ \A c, e \in conts : c.name = e.name => c = e
    /\ pc \in {"idle", "reconcile", "finished", "unseen", "pass", "launch"}
    /\ todo \subseteq Services
    /\ snap \in [dep : 0 .. MaxDeps, row : [Services -> Periods \cup {Null}]]
    /\ cur \in Services \cup {Null}
    /\ lastSlot \in [Services -> Nat]
    /\ kept \subseteq Names
    /\ {users, crashes} \subseteq Nat

(* running_jobs: until the process dies, a container of a job, ended or    *)
(* not, is one the scheduler will come back to and remove, or one that     *)
(* docker would not remove; so without such failures a service never has   *)
(* two jobs at the same time, whatever users, rollouts and the clock do.   *)
NothingForgotten ==
    /\ TypeOK
    /\ crashes = 0 => \A c \in conts : jobs[c.svc] = c.name \/ c.name \in kept

(* "advance first so a failing job waits for its next slot instead of      *)
(* being retried on every poll": no slot is attempted twice, also when the *)
(* schedule is edited, the project redeployed or the process restarted.    *)
SlotsAdvance ==
    [][\A s \in Services :
          pc = "pass" /\ pc' = "launch" /\ cur' = s =>
              lastSlot'[s] > lastSlot[s]]_vars

(* A job runs until its process ends, a user stops its service, or its     *)
(* service is no longer scheduled.  Nothing else disturbs it, but for two  *)
(* things the code cannot tell: a failed inspection passes for the end of  *)
(* the job, and of two services that share the first characters of their   *)
(* names the later one in a second finds its name taken and removes the    *)
(* other's job.  A service never does so to a job of its own that docker   *)
(* let it remove, also not to one that a crash made it forget.             *)
JobsRunToEnd ==
    [][\A c \in Live :
          \/ c \in conts'
          \/ JobExits(c)
          \/ \E s \in Services : /\ StopCronService(s) \/ DeleteCronService(s)
                                 /\ c.svc \in Covered[s]
          \/ /\ pc = "pass" /\ todo = {}
             /\ \E s \in Services \ ActiveKeys : jobs[s] = c.name
          \/ pc = "unseen" /\ jobs[cur] = c.name
          \/ /\ pc = "launch" /\ c.name = <<NameOf[cur], now>>
             /\ c.svc # cur \/ c.name \in kept]_vars

Waiting(s) ==
    /\ row[s] # Null /\ dep # 0
    /\ schedules[s] # Null
    /\ schedules[s] # Null => /\ schedules[s].sched = row[s]
                              /\ schedules[s].dep = dep
                              /\ now >= schedules[s].next

(* poll_once: a slot that has come is attempted, unless the schedule, the  *)
(* deployment or the process changes first.                                *)
DueRuns == \A s \in Services : Waiting(s) ~> ~Waiting(s)

-----------------------------------------------------------------------------
(* The inductive invariant behind them *)

(* A job's name says whose it is and when it was launched. *)
OwnNames ==
    /\ \A s \in Services : jobs[s] # Null => jobs[s][1] = NameOf[s]
    /\ \A c \in conts : c.name[1] = NameOf[c.svc] /\ c.name[2] <= now

(* Only scheduled services are visited, a job is launched for one that has *)
(* none, and one that was seen to be over does not run again.              *)
PassSound ==
    /\ pc \in {"pass", "launch"} => todo \subseteq ActiveKeys
    /\ pc = "launch" => cur \in Services /\ jobs[cur] = Null
    /\ pc \in {"finished", "unseen"} => cur \in Services
    /\ pc = "finished" => \A c \in Live : c.name # jobs[cur]

(* The next slot comes after the last one that was attempted. *)
SlotsAhead ==
    \A s \in Services :
        /\ lastSlot[s] <= now
        /\ schedules[s] # Null => lastSlot[s] < schedules[s].next

(* A container a crash left behind was launched before the next slot, so   *)
(* no launch ever meets its name.                                          *)
LeftoversOld ==
    \A c \in conts :
        jobs[c.svc] # c.name /\ c.name \notin kept =>
            /\ schedules[c.svc] # Null => c.name[2] < schedules[c.svc].next
            /\ pc = "launch" /\ cur = c.svc => c.name[2] < now

IInv ==
    /\ NothingForgotten
    /\ OwnNames
    /\ PassSound
    /\ SlotsAhead
    /\ LeftoversOld
=============================================================================
