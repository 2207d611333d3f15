--------------------------- MODULE ManagedServices ---------------------------
(***************************************************************************)
(* Managed databases and queues: creation from a template, start, stop,    *)
(* restart, move and deletion                                              *)
(* (crates/containr-api/src/domain/services/mod.rs with                    *)
(* crates/containr-runtime/src/database_manager.rs and queue_manager.rs),  *)
(* point-in-time recovery (database_manager/pitr.rs) and the restoration   *)
(* of missing containers when the process starts (server.rs).              *)
(*                                                                         *)
(* A handler works on its copy of the row, read when the request came in,  *)
(* and awaits docker between the steps.  A container has a fixed name and  *)
(* a fresh id; rows refer to it by id, cleanup goes by name.  Saving a row *)
(* is an upsert, so a handler that saves late brings a deleted row back.   *)
(* A handler may end before it saved: a call of docker or a save fails, or *)
(* the client is gone and the handler is dropped at an await.              *)
(***************************************************************************)
EXTENDS Naturals, FiniteSets

CONSTANTS
    Handlers,       \* requests that may be in flight together
    MaxOps,         \* bound on the requests
    MaxWrites,      \* bound on the writes into the database
    MaxCrashes,     \* bound on the crashes
    Kinds,          \* "db", "queue": what the service may be
    Ops,            \* the operations users ask for
    Null

Statuses == {"pending", "starting", "running", "stopped", "failed"}

UserOps == {"start", "stop", "restart", "move", "delete", "backup", "point",
            "recover"}

ASSUME ManagedAssumption ==
    /\ {MaxOps, MaxWrites, MaxCrashes} \subseteq Nat
    /\ Kinds \subseteq {"db", "queue"}
    /\ Ops \subseteq UserOps
    /\ Null \notin Nat
    /\ Null \notin [status : Statuses, cid : Nat \cup {Null}, group : BOOLEAN]

VARIABLES
    kind,       \* the service is a database or a queue
    row,        \* its row in the database, Null before and after
    cont,       \* id of the container with the service's name
    data,       \* content of the database's data directory; Null: missing
    archived,   \* contents set aside by recoveries
    backup,     \* content of the newest base backup
    points,     \* contents at which a restore point was made
    written,    \* ghost: the latest write, 0 for none
    ids,        \* container ids used so far
    h,          \* h[i]: the handler of request i
    ops,        \* requests so far
    crashes,    \* crashes so far
    pass,       \* how far the startup pass is with the database
    overlap,    \* ghost: the requests in flight were together with others
    raced,      \* ghost: some requests for this service were
    stray,      \* ghost: the container left behind without a row naming it
    torn,       \* ghost: the id in a row whose container a request took away
                \* and could not say so
    last        \* ghost: the request that ended last

vars == <<kind, row, cont, data, archived, backup, points, written, ids, h, ops,
          crashes, pass, overlap, raced, stray, torn, last>>

files == <<data, archived, backup, points, written>>

left == <<stray, torn>>

ghosts == <<overlap, raced, left>>

Request(pc, op, r, id, t) ==
    [pc |-> pc, op |-> op, copy |-> r, id |-> id, target |-> t]

Idle == Request("idle", "none", Null, Null, Null)

Busy == {i \in Handlers : h[i].pc # "idle"}

(* What is left behind when row and container no longer follow each other. *)
StrayOf(r, c) ==
    IF c = Null \/ (r # Null /\ c = r.cid) THEN stray ELSE c

TornOf(r, c) == IF r # Null /\ c # r.cid THEN r.cid ELSE torn

Settle(r, c) == stray' = StrayOf(r, c) /\ torn' = TornOf(r, c)

(* A request begins, alone or beside others; what requests that were       *)
(* together left behind is settled when the next one is alone.             *)
Together ==
    /\ overlap' = (Busy # {})
    /\ raced' = (raced \/ Busy # {})
    /\ IF overlap /\ Busy = {} THEN Settle(row, cont) ELSE UNCHANGED left

-----------------------------------------------------------------------------
(* Pieces of the handlers                                                  *)

(* ensure_database_not_starting *)
EnsureNotStarting(r) == r.status # "starting"

(* mark_database_starting *)
MarkStarting(r) == [status |-> "starting", cid |-> Null, group |-> r.group]

(* The row of a service whose container was stopped. *)
Stopped(r) == [status |-> "stopped", cid |-> Null, group |-> r.group]

(* move_service: the row with the other group. *)
Moved(r) == [status |-> r.status, cid |-> r.cid, group |-> ~r.group]

(* is_running: by the id in the copy; without an id it is not running.     *)
(* When docker cannot be asked the answer is no as well, so a handler may  *)
(* always be told that nothing runs.                                       *)
IsRunning(r) == r.cid # Null /\ cont = r.cid

Save(r) == row' = r

Finish(i, ok) ==
    /\ h' = [h EXCEPT ![i] = Idle]
    /\ last' = [op |-> h[i].op, ok |-> ok, target |-> h[i].target]

(* The handler ends on an error or is dropped; row and container are as    *)
(* far as it came.                                                         *)
EndUnsaved(i) == Finish(i, FALSE) /\ Settle(row', cont')

Goto(i, pc, r) ==
    /\ h' = [h EXCEPT ![i] = Request(pc, h[i].op, r, h[i].id, h[i].target)]
    /\ UNCHANGED last

(* The status a failed start is saved with; a queue's start and restart    *)
(* return without saving anything.                                         *)
SavesFailure(i) == kind = "db" \/ h[i].op \in {"create", "move"}

-----------------------------------------------------------------------------
(* Requests                                                                *)

(* create_template_service: the row is saved before the container starts.  *)
(* The service is a new one, with a directory and container of its own.    *)
Create(i) ==
    LET r == [status |-> IF kind = "db" THEN "starting" ELSE "pending",
              cid |-> Null, group |-> FALSE]
    IN  /\ h[i].pc = "idle"
        /\ ops < MaxOps
        /\ row = Null
        /\ Busy = {}
        /\ Save(r)
        /\ cont' = Null
        /\ data' = Null /\ archived' = {} /\ backup' = Null /\ points' = {}
        /\ written' = 0
        /\ ops' = ops + 1
        /\ h' = [h EXCEPT ![i] = Request("create", "create", r, Null, Null)]
        /\ last' = Null
        /\ overlap' = FALSE /\ raced' = FALSE
        /\ stray' = Null /\ torn' = Null
        /\ UNCHANGED <<ids, crashes, pass>>

FirstStep(op) ==
    IF op \in {"start", "move"} THEN "check"
    ELSE IF op \in {"stop", "restart", "delete"} THEN "stop"
    ELSE op

(* run_action, move_service, delete_service: the row is read, and a        *)
(* database that is starting refuses start, restart and move.              *)
Begin(i, op, t) ==
    /\ h[i].pc = "idle"
    /\ ops < MaxOps
    /\ row # Null
    /\ op \in {"backup", "point", "recover"} => kind = "db"
    /\ op = "recover" <=> t # Null
    /\ kind = "db" /\ op \in {"start", "restart", "move"} => EnsureNotStarting(row)
    /\ ops' = ops + 1
    /\ h' = [h EXCEPT ![i] = Request(FirstStep(op), op, row, Null, t)]
    /\ last' = Null
    /\ Together
    /\ UNCHANGED <<row, cont, files, ids, crashes, pass>>

(* run_database_action(Start) asks docker whether the container runs       *)
(* before it saves Starting.                                               *)
StartCheck(i) ==
    LET r == h[i].copy
    IN  /\ h[i].pc = "check" /\ h[i].op \in {"start", "restore"} /\ kind = "db"
        /\ \/ IsRunning(r) /\ Finish(i, FALSE) /\ UNCHANGED row
           \/ Save(MarkStarting(r)) /\ Goto(i, "create", MarkStarting(r))
        /\ UNCHANGED <<cont, files, ids, ops, crashes, pass, ghosts>>

(* run_queue_action(Start) asks nothing. *)
StartQueueCheck(i) ==
    /\ h[i].pc = "check" /\ h[i].op = "start" /\ kind = "queue"
    /\ Goto(i, "create", h[i].copy)
    /\ UNCHANGED <<row, cont, files, ids, ops, crashes, pass, ghosts>>

(* move_service stops a container that runs, by docker's word for a        *)
(* database and by the row for a queue; else it saves the new group.       *)
MoveCheck(i) ==
    LET r == h[i].copy
        runs == IF kind = "db" THEN IsRunning(r)
                ELSE r.cid # Null /\ r.status = "running"
    IN  /\ h[i].pc = "check" /\ h[i].op = "move"
        /\ \/ runs /\ Goto(i, "stop", r) /\ UNCHANGED row
           \/ (kind = "db" \/ ~runs) /\ Save(Moved(r)) /\ Finish(i, TRUE)
        /\ UNCHANGED <<cont, files, ids, ops, crashes, pass, ghosts>>

(* What is there once the container that the copy names is removed. *)
Removed(i) == IF cont = h[i].copy.cid THEN Null ELSE cont

(* The container that the copy names is stopped and removed by its id.     *)
(* What docker answers is not looked at: a removal it refuses leaves the   *)
(* container, and so does, for deletion, a stop that gave up at the proxy. *)
RemoveContainer(i) ==
    \/ cont' = Removed(i) /\ UNCHANGED stray
    \/ cont # Null /\ cont = h[i].copy.cid /\ stray' = cont /\ UNCHANGED cont

(* The stop ends the request: the proxy's container or the service's own   *)
(* network cannot be removed, the row cannot be saved, or the handler is   *)
(* dropped while docker works.                                             *)
StopFails(i) ==
    /\ cont' \in {cont, Removed(i)}
    /\ UNCHANGED row
    /\ EndUnsaved(i)

(* stop_database and what its caller does next.  Deletion ignores errors.  *)
(* A move saves the stopped row before it saves Starting.                  *)
StopDatabase(i) ==
    LET r == Stopped(h[i].copy)
        m == Moved(MarkStarting(r))
    IN  /\ h[i].pc = "stop" /\ kind = "db"
        /\ \/ /\ RemoveContainer(i)
              /\ \/ h[i].op = "stop" /\ Save(r) /\ Finish(i, TRUE)
                 \/ /\ h[i].op = "restart"
                    /\ Save(MarkStarting(r)) /\ Goto(i, "create", MarkStarting(r))
                 \/ h[i].op = "move" /\ Save(m) /\ Goto(i, "create", m)
                 \/ h[i].op = "move" /\ Save(Moved(r)) /\ Finish(i, FALSE)
                 \/ h[i].op = "recover" /\ Goto(i, "archive", r) /\ UNCHANGED row
                 \/ h[i].op = "delete" /\ Goto(i, "drop", r) /\ UNCHANGED row
              /\ UNCHANGED torn
           \/ StopFails(i)
        /\ UNCHANGED <<files, ids, ops, crashes, pass, overlap, raced>>

(* stop_queue leaves the row as it is when it names no container. *)
StopQueue(i) ==
    LET c == h[i].copy
        r == IF c.cid # Null THEN Stopped(c) ELSE c
        m == Moved(r)
    IN  /\ h[i].pc = "stop" /\ kind = "queue"
        /\ \/ /\ RemoveContainer(i)
              /\ \/ h[i].op = "stop" /\ Save(r) /\ Finish(i, TRUE)
                 \/ h[i].op = "restart" /\ Goto(i, "create", r) /\ UNCHANGED row
                 \/ h[i].op = "move" /\ Save(m) /\ Goto(i, "create", m)
                 \/ h[i].op = "delete" /\ Goto(i, "drop", r) /\ UNCHANGED row
              /\ UNCHANGED torn
           \/ StopFails(i)
        /\ UNCHANGED <<files, ids, ops, crashes, pass, overlap, raced>>

(* delete_service: the directory with the data, whose removal may fail     *)
(* unseen, then the row; the handler may be dropped between the two.       *)
DropData(i) ==
    /\ h[i].pc = "drop"
    /\ \/ /\ kind = "db"
          /\ data' = Null /\ archived' = {} /\ backup' = Null /\ points' = {}
          /\ written' = 0
       \/ UNCHANGED files
    /\ UNCHANGED cont
    /\ \/ row' = Null /\ Finish(i, TRUE) /\ UNCHANGED left
       \/ UNCHANGED row /\ EndUnsaved(i)
    /\ UNCHANGED <<ids, ops, crashes, pass, overlap, raced>>

(* The data directory of a database is made when it is missing. *)
MakeDir == IF kind = "db" /\ data = Null THEN 0 ELSE data

(* How far a start comes that ends before the wait: image and network; what *)
(* has the service's name is removed; creation.                             *)
PartlyStarted ==
    \/ UNCHANGED <<cont, ids, data>>
    \/ cont' = Null /\ data' \in {data, MakeDir} /\ UNCHANGED ids
    \/ cont' = ids + 1 /\ ids' = ids + 1 /\ data' = MakeDir

(* A step up to the wait fails, or the handler is dropped in one. *)
StartFails(i) ==
    /\ PartlyStarted
    /\ UNCHANGED row
    /\ \/ Goto(i, "fail", h[i].copy) /\ UNCHANGED left
       \/ h[i].op # "restore" /\ EndUnsaved(i)

NewContainer(i) ==
    /\ cont' = ids + 1
    /\ ids' = ids + 1
    /\ data' = MakeDir
    /\ h' = [h EXCEPT ![i] = Request("wait", h[i].op, h[i].copy, ids + 1,
                                     h[i].target)]
    /\ UNCHANGED <<row, left, last>>

(* start_database and start_queue *)
StartContainer(i) ==
    /\ h[i].pc = "create"
    /\ NewContainer(i) \/ StartFails(i)
    /\ UNCHANGED <<archived, backup, points, written, ops, crashes, pass,
                   overlap, raced>>

(* Mutant: the start is answered before the container is ready. *)
SaveRunningForgotten(i) ==
    /\ h[i].pc = "wait"
    /\ Finish(i, TRUE)
    /\ UNCHANGED <<row, cont, files, ids, ops, crashes, pass, ghosts>>

(* The data a recovering server ends with: it replays the log from the     *)
(* base backup to the target, and refuses to start when the target is      *)
(* older than the backup.                                                  *)
Recoverable(i) == h[i].op = "recover" => data # Null /\ data <= h[i].target

(* write_recovery_config: the server replays the log up to the target. *)
Replayed(i) == IF h[i].op = "recover" THEN h[i].target ELSE data

(* wait_for_ready succeeds, and the row is saved as Running. *)
SaveRunning(i) ==
    /\ h[i].pc = "wait"
    /\ cont = h[i].id
    /\ Recoverable(i)
    /\ data' = Replayed(i)
    /\ Save([status |-> "running", cid |-> h[i].id, group |-> h[i].copy.group])
    /\ Finish(i, TRUE)
    /\ UNCHANGED <<cont, archived, backup, points, written, ids, ops,
                   crashes, pass, ghosts>>

(* The service does not become ready in time: what has its name is         *)
(* removed, unless docker refuses, or cannot be asked about a database.    *)
NotReady(i) ==
    /\ h[i].pc = "wait"
    /\ cont' \in {cont, Null}
    /\ Goto(i, "fail", h[i].copy)
    /\ UNCHANGED <<row, files, ids, ops, crashes, pass, ghosts>>

(* start_proxy_frontend of a database fails: the database is stopped, and  *)
(* the error of that is ignored.  When the proxy's container cannot be     *)
(* removed, the database's is left and the row goes on naming it.          *)
ProxyFails(i) ==
    LET r == [status |-> "running", cid |-> h[i].id, group |-> h[i].copy.group]
    IN  /\ h[i].pc = "wait" /\ kind = "db"
        /\ cont = h[i].id
        /\ \/ Goto(i, "fail", r) /\ UNCHANGED cont
           \/ Goto(i, "fail", Stopped(r)) /\ cont' \in {cont, Null}
        /\ UNCHANGED <<row, files, ids, ops, crashes, pass, ghosts>>

(* The start failed; that the row cannot be saved is ignored. *)
SaveFailed(i) ==
    /\ h[i].pc = "fail"
    /\ \/ /\ SavesFailure(i)
          /\ Save([status |-> "failed", cid |-> h[i].copy.cid,
                   group |-> h[i].copy.group])
       \/ UNCHANGED row
    /\ UNCHANGED cont
    /\ EndUnsaved(i)
    /\ UNCHANGED <<files, ids, ops, crashes, pass, overlap, raced>>

(* The save after a check or a wait fails, or the handler is dropped there *)
(* (the startup pass has no client).                                       *)
CutShort(i) ==
    /\ h[i].pc \in {"check", "wait"}
    /\ UNCHANGED <<row, cont>>
    /\ EndUnsaved(i)
    /\ UNCHANGED <<files, ids, ops, crashes, pass, overlap, raced>>

-----------------------------------------------------------------------------
(* Point-in-time recovery                                                  *)

(* A client writes into the database while its server accepts writes. *)
WriteData ==
    /\ cont # Null
    /\ data # Null
    /\ written < MaxWrites
    /\ \A i \in Handlers : h[i].pc = "wait" => h[i].op # "recover"
    /\ written' = written + 1
    /\ data' = written + 1
    /\ UNCHANGED <<row, cont, archived, backup, points, ids, h, ops, crashes,
                   pass, ghosts, last>>

(* create_postgres_base_backup, with a label of its own. *)
BaseBackup(i) ==
    /\ h[i].pc = "backup"
    /\ \/ IsRunning(h[i].copy) /\ data # Null /\ backup' = data /\ Finish(i, TRUE)
       \/ Finish(i, FALSE) /\ UNCHANGED backup
    /\ UNCHANGED <<row, cont, data, archived, points, written, ids, ops, crashes,
                   pass, ghosts>>

(* create_postgres_restore_point: the point is made before the log is      *)
(* switched and archived, which may fail.                                  *)
RestorePoint(i) ==
    /\ h[i].pc = "point"
    /\ \/ /\ IsRunning(h[i].copy) /\ data # Null
          /\ points' = points \cup {data}
          /\ \E ok \in BOOLEAN : Finish(i, ok)
       \/ Finish(i, FALSE) /\ UNCHANGED points
    /\ UNCHANGED <<row, cont, data, archived, backup, written, ids, ops, crashes,
                   pass, ghosts>>

(* recover_postgres_to_target: without a base backup, or when the log of a *)
(* running server cannot be archived, it ends here.                        *)
RecoverBegin(i) ==
    /\ h[i].pc = "recover"
    /\ \/ Finish(i, FALSE)
       \/ backup # Null /\ Goto(i, "stop", h[i].copy)
    /\ UNCHANGED <<row, cont, files, ids, ops, crashes, pass, ghosts>>

(* Mutant: the data directory is deleted instead of renamed. *)
ArchiveDataDropped(i) ==
    /\ h[i].pc = "archive"
    /\ data' = Null
    /\ Goto(i, "copy", h[i].copy)
    /\ UNCHANGED <<row, cont, archived, backup, points, written, ids, ops,
                   crashes, pass, ghosts>>

(* archive_existing_data_dir *)
ArchiveData(i) ==
    /\ h[i].pc = "archive"
    /\ UNCHANGED <<row, cont>>
    /\ \/ /\ archived' = IF data = Null THEN archived ELSE archived \cup {data}
          /\ data' = Null
          /\ Goto(i, "copy", h[i].copy)
          /\ UNCHANGED left
       \/ EndUnsaved(i) /\ UNCHANGED <<data, archived>>
    /\ UNCHANGED <<backup, points, written, ids, ops, crashes, pass, overlap,
                   raced>>

(* copy_dir_recursive and write_recovery_config *)
CopyBackup(i) ==
    /\ h[i].pc = "copy"
    /\ UNCHANGED <<row, cont>>
    /\ \/ data' = backup /\ Goto(i, "create", h[i].copy) /\ UNCHANGED left
       \/ data' \in {Null, backup} /\ EndUnsaved(i)
    /\ UNCHANGED <<archived, backup, points, written, ids, ops, crashes, pass,
                   overlap, raced>>

-----------------------------------------------------------------------------
(* Crash and start                                                         *)

(* The process dies; docker, rows and files stay.  Anything may have       *)
(* happened to the containers before it is back (a reinstalled docker, a   *)
(* pruned host).                                                           *)
Crash ==
    /\ crashes < MaxCrashes
    /\ crashes' = crashes + 1
    /\ h' = [i \in Handlers |-> Idle]
    /\ overlap' = FALSE
    /\ pass' = "due"
    /\ last' = Null
    /\ cont' \in {cont, Null}
    /\ stray' = StrayOf(row, cont')
    /\ torn' = Null
    /\ UNCHANGED <<row, files, ids, ops, raced>>

(* restore_missing_containers lists the containers first. *)
RestoreList ==
    /\ pass = "due"
    /\ pass' = IF cont # Null THEN "seen" ELSE "missing"
    /\ torn' = Null
    /\ UNCHANGED <<row, cont, files, ids, h, ops, crashes, overlap, raced, stray,
                   last>>

(* Docker is not there, or the containers, the apps, the users or the      *)
(* databases of the user cannot be listed: the pass passes the database    *)
(* over.                                                                   *)
RestoreSkipped ==
    /\ pass \in {"due", "seen", "missing"}
    /\ pass' = "skipped"
    /\ UNCHANGED <<row, cont, files, ids, h, ops, crashes, ghosts, last>>

(* Mutant: the containers that are there are started again, the missing    *)
(* ones are not.                                                           *)
RestoreSeen(i) ==
    /\ pass \in {"seen", "missing"}
    /\ h[i].pc = "idle"
    /\ pass' = "done"
    /\ IF kind = "db" /\ row # Null /\ row.status = "running" /\ pass = "seen"
       THEN /\ h' = [h EXCEPT ![i] = Request("check", "restore", row, Null, Null)]
            /\ last' = Null
            /\ Together
       ELSE UNCHANGED <<h, last, ghosts>>
    /\ UNCHANGED <<row, cont, files, ids, ops, crashes>>

(* The rows are read after that, and a database recorded as running that   *)
(* was not listed goes through run_database_action(Start).                 *)
RestoreMissing(i) ==
    /\ pass \in {"seen", "missing"}
    /\ h[i].pc = "idle"
    /\ pass' = "done"
    /\ IF kind = "db" /\ row # Null /\ row.status = "running" /\ pass = "missing"
       THEN /\ h' = [h EXCEPT ![i] = Request("check", "restore", row, Null, Null)]
            /\ last' = Null
            /\ Together
       ELSE UNCHANGED <<h, last, ghosts>>
    /\ UNCHANGED <<row, cont, files, ids, ops, crashes>>

-----------------------------------------------------------------------------
(* The first start of the program, whose startup pass found no row. *)
Init ==
    /\ kind \in Kinds
    /\ row = Null
    /\ cont = Null
    /\ data = Null
    /\ archived = {}
    /\ backup = Null
    /\ points = {}
    /\ written = 0
    /\ ids = 0
    /\ h = [i \in Handlers |-> Idle]
    /\ ops = 0
    /\ crashes = 0
    /\ pass = "done"
    /\ overlap = FALSE
    /\ raced = FALSE
    /\ stray = Null
    /\ torn = Null
    /\ last = Null

Step(i) ==
    \/ Create(i)
    \/ \E op \in Ops \ {"recover"} : Begin(i, op, Null)
    \/ \E t \in points : "recover" \in Ops /\ Begin(i, "recover", t)
    \/ StartCheck(i) \/ StartQueueCheck(i) \/ MoveCheck(i)
    \/ StopDatabase(i) \/ StopQueue(i)
    \/ DropData(i)
    \/ StartContainer(i)
    \/ SaveRunning(i)
    \/ NotReady(i) \/ ProxyFails(i)
    \/ SaveFailed(i)
    \/ CutShort(i)
    \/ BaseBackup(i)
    \/ RestorePoint(i)
    \/ RecoverBegin(i)
    \/ ArchiveData(i)
    \/ CopyBackup(i)
    \/ RestoreMissing(i)

Next ==
    /\ \/ \E i \in Handlers : Step(i)
       \/ WriteData
       \/ Crash
       \/ RestoreList
       \/ RestoreSkipped
    /\ UNCHANGED kind

Spec == Init /\ [][Next]_vars

-----------------------------------------------------------------------------
(* Properties                                                              *)

Rows == [status : Statuses, cid : 1 .. ids \cup {Null}, group : BOOLEAN]

Pcs == {"idle", "check", "stop", "drop", "create", "wait", "fail", "backup",
        "point", "recover", "archive", "copy"}

Passes == {"due", "seen", "missing", "done", "skipped"}

Requests ==
    [pc : Pcs, op : UserOps \cup {"create", "restore", "none"},
     copy : Rows \cup {Null}, id : 1 .. ids \cup {Null},
     target : 0 .. MaxWrites \cup {Null}]

(* A row names a container once it runs, and none while it starts. *)
SoundRow(r) ==
    /\ r.status = "running" => r.cid # Null
    /\ r.status = "starting" => r.cid = Null

(* Rows refer to containers that were created, and a starting one to none. *)
TypeOK ==
    /\ kind \in Kinds
    /\ row \in Rows \cup {Null}
    /\ row # Null => SoundRow(row)
    /\ {cont, stray, torn} \subseteq 1 .. ids \cup {Null}
    /\ {data, backup} \subseteq 0 .. MaxWrites \cup {Null}
    /\ archived \subseteq 0 .. MaxWrites /\ points \subseteq 0 .. MaxWrites
    /\ written \in 0 .. MaxWrites
    /\ h \in [Handlers -> Requests]
    /\ ids \in Nat /\ ops \in 0 .. MaxOps /\ crashes \in 0 .. MaxCrashes
    /\ pass \in Passes
    /\ overlap \in BOOLEAN /\ raced \in BOOLEAN

Quiet == Busy = {} /\ ~overlap

(* run_database_action, run_queue_action, create_template_service,         *)
(* delete_service: a request that is answered with success leaves a row    *)
(* that says what docker has, whatever races, failures, dropped handlers   *)
(* and crashes came before it.  A stop or a deletion leaves no container,  *)
(* but one that docker refused to remove, or that an earlier request left  *)
(* without a row naming it.                                                *)
AnswersAreTrue ==
    /\ TypeOK
    /\ Quiet /\ last # Null =>
        (last.ok =>
            /\ last.op \in {"create", "start", "restart", "restore", "recover"} =>
                    /\ row # Null
                    /\ row.status = "running" /\ cont = row.cid
            /\ last.op = "stop" =>
                    /\ row # Null
                    /\ row.status # "running"
                    /\ cont \in {Null, stray}
            /\ last.op = "delete" =>
                    row = Null /\ cont \in {Null, stray})

(* The row says running only of a container that is there, or the service  *)
(* has a stray one in its place, or a request took the container away      *)
(* and ended before it could say so.                                       *)
RowIsTrue ==
    row # Null =>
        (row.status = "running" =>
            \/ cont = row.cid
            \/ cont # Null /\ cont = stray
            \/ row.cid = torn)

(* "on startup, apps and databases recorded as running whose containers    *)
(* are gone get redeployed or started again": whatever a crash took away   *)
(* and wherever it cut a request, once a startup pass that could list      *)
(* everything and the start it made are over, a database that is still     *)
(* recorded as running has its container.  The pass goes by name, so a     *)
(* stray container keeps it from starting the database, and it does not    *)
(* make good a request that fails after it looked.                         *)
RestoreHeals == kind = "db" /\ pass = "done" /\ Quiet => RowIsTrue

(* recover_postgres_to_target: whatever fails or crashes in a recovery,    *)
(* the latest write is in the data directory or in one set aside.          *)
WritesKept ==
    written > 0 /\ ~raced =>
        data = written \/ written \in archived

(* recover_postgres_to_target: a recovery answered with success serves the *)
(* data of its restore point.                                              *)
RecoveredToTarget ==
    kind = "db" /\ last # Null /\ ~overlap =>
        (last.op = "recover" /\ last.ok =>
            data \in {last.target, written} /\ last.target \in points)

(* recover_postgres_to_target: a recovery loses nothing and reaches its    *)
(* target.                                                                 *)
RecoveryIsSafe == WritesKept /\ RecoveredToTarget

(* "overlapping requests now return a clean conflict instead of deleting   *)
(* in-flight containers": while one request waits for its container to be  *)
(* ready, no other start or restart takes it away.                         *)
NoInFlightRemoved ==
    [][\A i \in Handlers :
          h[i].pc = "wait" /\ h'[i] = h[i] /\ cont = h[i].id =>
              \/ cont' = h[i].id
              \/ \E j \in Handlers :
                    h[j].pc # "idle" /\ (h[j].pc # "idle" =>
                        h[j].op \notin {"start", "restart"} /\ h'[j] # h[j])]_vars

-----------------------------------------------------------------------------
(* The inductive invariant                                                 *)

(* Where in its handler an operation is, and what it works on. *)
HandlersInv ==
    \A i \in Handlers :
        /\ h[i].pc = "idle" => h[i] = Idle
        /\ h[i].pc # "idle" =>
              h[i].op # "none" /\ h[i].copy # Null /\ SoundRow(h[i].copy)
        /\ h[i].pc = "check" => h[i].op \in {"start", "move", "restore"}
        /\ h[i].pc = "stop" =>
              h[i].op \in {"stop", "restart", "move", "recover", "delete"}
        /\ h[i].pc \in {"create", "wait", "fail"} =>
              h[i].op \in {"create", "start", "restart", "move", "restore",
                           "recover"}
        /\ h[i].pc = "drop" => h[i].op = "delete"
        /\ h[i].pc \in {"backup", "point", "recover"} => h[i].op = h[i].pc
        /\ h[i].pc \in {"archive", "copy"} => h[i].op = "recover"
        /\ h[i].pc = "wait" => h[i].id # Null
        /\ h[i].op \in {"backup", "point", "recover", "restore"} => kind = "db"
        /\ h[i].op = "recover" => h[i].target # Null

(* A request that was never together with another one is alone. *)
GhostsInv ==
    /\ overlap => raced
    /\ ~overlap => \A i, j \in Busy : i = j
    /\ ~overlap /\ last # Null => Busy = {}

(* The steps before a handler has changed anything. *)
Untouched == {"check", "stop", "backup", "point", "recover"}

(* A lone request finds the container the row names, a stray one or none,  *)
(* and so does the next one; a deletion is past the container it names.    *)
Tracked ==
    ~overlap =>
        /\ Busy = {} => cont \in {Null, stray} \/ (row # Null /\ cont = row.cid)
        /\ \A i \in Busy :
              /\ h[i].pc \in Untouched =>
                    /\ row # Null /\ h[i].copy = row
                    /\ cont \in {Null, stray, row.cid}
              /\ h[i].pc = "drop" => cont \in {Null, stray}

(* After the startup pass, or once it has seen a container, a database     *)
(* recorded as running runs, or the handler of the pass has yet to look.   *)
Healed ==
    kind = "db" /\ pass \in {"seen", "done"} /\ ~overlap =>
        /\ Busy = {} => RowIsTrue
        /\ \A i \in Busy :
              h[i].pc \in Untouched => RowIsTrue \/ h[i].op = "restore"

(* A recovery that is alone keeps its restore point. *)
TargetsKept ==
    ~overlap => \A i \in Busy : h[i].op = "recover" => h[i].target \in points

(* Without races, the latest write is set aside before the data directory  *)
(* is overwritten; one that a stray server accepts after that is newer     *)
(* than the target, which a recovering server refuses.                     *)
WritesInv ==
    ~raced =>
        /\ points \subseteq 0 .. written
        /\ {data, backup} \subseteq 0 .. written \cup {Null}
        /\ \A i \in Busy :
              /\ h[i].pc = "copy" => data = Null
              /\ h[i].pc \in {"create", "wait"} /\ h[i].op = "recover" =>
                    \/ written = 0
                    \/ written \in archived
                    \/ data = written /\ h[i].target < written

IInv ==
    /\ HandlersInv /\ GhostsInv
    /\ Tracked /\ Healed
    /\ TargetsKept /\ WritesInv
    /\ AnswersAreTrue /\ RecoveryIsSafe
=============================================================================
