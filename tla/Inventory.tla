----------------------------- MODULE Inventory ------------------------------
(***************************************************************************)
(* The handlers that create and change the services of a project           *)
(* (create_repository_service, create_stack_service,                       *)
(* add_services_to_project and update_service of                           *)
(* crates/containr-api/src/domain/services/mod.rs), the rows they save and *)
(* the volume directories update_service moves (shared_mounts.rs).         *)
(*                                                                         *)
(* A handler reads the project, builds its new services, checks host       *)
(* ports, awaits the DNS checks, checks domains, moves volume directories  *)
(* and saves the whole project.  Handlers of several clients interleave    *)
(* between these steps; nothing in the code serialises them.  The owner of *)
(* the projects is the one user, whose is_admin flag never changes.        *)
(***************************************************************************)
EXTENDS ServiceConfig

CONSTANTS
    Apps,           \* projects
    Ids,            \* service ids
    Clients,        \* browser tabs or CLI sessions of the owner
    Reserved,       \* host ports of the proxy and the API
    Edits,          \* changes a client makes to the settings it loaded
    NewRequests,    \* requests for new services
    InitialApps,    \* projects the database may hold at the start
    MaxHandlers,    \* bound on the number of handlers started
    MaxWrites       \* bound on the data versions written to volumes

VARIABLES
    db,         \* db[a]: the project row and its services, Null if none
    isAdmin,    \* is_admin of the owner
    view,       \* view[c]: the settings client c has loaded
    h,          \* h[c]: the handler running for c
    priv,       \* priv[i]: version of the data in service i's own volume
    shrd,       \* shrd[a]: version in the project's shared volume, 0 empty
    started,    \* handlers started so far
    writes,     \* volume writes so far
    drawn,      \* drawn[i]: the project id i was drawn for, Null if none
    raced,      \* ghost: a handler saved over a change it had not read
    lapped      \* ghost: a project changed while a handler had it in hand

ghosts == <<raced, lapped>>

vars == <<db, isAdmin, view, h, priv, shrd, started, writes, drawn, ghosts>>

Partial == MaxWrites + 1    \* part of the files of a version

Handler(pc, op, a, id, prev, next, deploy) ==
    [pc |-> pc, op |-> op, app |-> a, id |-> id, prev |-> prev,
     next |-> next, deploy |-> deploy, plan |-> "none", moved |-> FALSE,
     fresh |-> TRUE, seen |-> 0]

Idle == Handler("idle", "none", Null, Null, Null, Null, FALSE)

Busy == {c \in Clients : h[c].pc # "idle"}

Project ==
    [repo : BOOLEAN, env : EnvVar \cup {Null},
     services : SUBSET ContainerService(Ids)]

Rows == [Apps -> Project \cup {Null}]

Handlers ==
    [pc : {"dns", "apply", "save", "queue"}, op : {"create", "add", "update"},
     app : Apps, id : Ids, prev : Project \cup {Null}, next : Project,
     deploy : BOOLEAN, plan : {"none", "move", "copy"}, moved : BOOLEAN,
     fresh : BOOLEAN, seen : 0 .. Partial]

ServiceOf(app, id) == CHOOSE s \in app.services : s.id = id

HasService(app, id) == \E s \in app.services : s.id = id

AllDomains(app) == UNION {s.domains : s \in app.services}

AllPorts(app) == UNION {s.maps : s \in app.services}

RequiresSourceCheckout(app) == \E s \in app.services : ~s.image

ServiceIds(app) == {s.id : s \in app.services}

ProjectsIn(rows) == {a \in Apps : rows[a] # Null}

Present == ProjectsIn(db)

Stored == UNION {db[a].services : a \in Present}

(* Uuid::new_v4 *)
NewId == CHOOSE i \in Ids : drawn[i] = Null

(* Two services, of one project or of two, that name the same thing. *)
Clash(s, t) == s.maps \cap t.maps # {} \/ s.domains \cap t.domains # {}

Apart(app, other) ==
    \A s \in app.services, t \in other.services : ~Clash(s, t)

Consistent(app) == \A s, t \in app.services : s # t => ~Clash(s, t)

(* The database at the start was written by the same handlers. *)
ASSUME InventoryAssumption ==
    /\ MaxHandlers \in Nat
    /\ MaxWrites \in Nat
    /\ Null \notin Apps
    /\ InitialApps \subseteq Rows
    /\ \A rows \in InitialApps :
          /\ \A a \in ProjectsIn(rows) : Consistent(rows[a])
          /\ \A a, b \in ProjectsIn(rows) : a # b =>
                /\ Apart(rows[a], rows[b])
                /\ ServiceIds(rows[a]) \cap ServiceIds(rows[b]) = {}
    /\ \A e \in Edits : /\ e.repo \in BOOLEAN \cup {Absent}
                        /\ e.env \in EnvVarField
    /\ \A n \in NewRequests : /\ n.service \in ServiceRequest
                              /\ n.env \in EnvVarField \ {Invalid}
                              /\ {n.stack, n.repo, n.deploy} \subseteq BOOLEAN

(* The row of project a is written by c: every other handler has read what *)
(* is no longer so.                                                        *)
WriteRow(c, a, row, then) ==
    /\ db' = [db EXCEPT ![a] = row]
    /\ h' = [k \in Clients |->
                IF k = c THEN then
                ELSE IF k \in Busy THEN [h[k] EXCEPT !.fresh = FALSE]
                ELSE h[k]]
    /\ raced' = (raced \/ ~h[c].fresh)
    /\ lapped' = (lapped \/ \E k \in Busy \ {c} : h[k].app = a)

-----------------------------------------------------------------------------
(* Validation                                                              *)

(* Mutant: only the project itself is looked at. *)
PortMappingsValidLocal(a, app) ==
    /\ AllPorts(app) \cap Reserved = {}
    /\ \A s, t \in app.services : s # t => s.maps \cap t.maps = {}

PortsFree(a, app) ==
    \A b \in Present \ {a} : AllPorts(app) \cap AllPorts(db[b]) = {}

(* validate_port_mappings: reserved, twice in the project, other projects. *)
PortMappingsValid(a, app) ==
    /\ AllPorts(app) \cap Reserved = {}
    /\ \A s, t \in app.services : s # t => s.maps \cap t.maps = {}
    /\ PortsFree(a, app)

(* The part of validate_app_service_domains before its first await. *)
DomainsDistinct(app) ==
    /\ \A s \in app.services : s.domains # {} => IsPublicHttp(s)
    /\ \A s, t \in app.services : s # t => s.domains \cap t.domains = {}

(* get_app_by_domain for each domain, after the DNS answers. *)
DomainsFree(a, app) ==
    \A b \in Present \ {a} : AllDomains(app) \cap AllDomains(db[b]) = {}

(* A handler got past its checks; its client leaves the settings it had.   *)
Begin(c, op, a, id, prev, next, deploy) ==
    /\ started < MaxHandlers
    /\ PortMappingsValid(a, next)
    /\ DomainsDistinct(next)
    /\ h' = [h EXCEPT ![c] = Handler("dns", op, a, id, prev, next, deploy)]
    /\ view' = [view EXCEPT ![c] = Null]
    /\ started' = started + 1
    /\ drawn' = [drawn EXCEPT ![id] = a]
    /\ UNCHANGED <<db, isAdmin, priv, shrd, writes, ghosts>>

-----------------------------------------------------------------------------
(* Requests                                                                *)

(* get_service_settings: the client keeps what it was shown.  (It saves the *)
(* project when its webhook token is empty; every row the program writes    *)
(* has one, Project::new draws it and the column is not null.)              *)
LoadSettings(c, a, id) ==
    /\ h[c].pc = "idle"
    /\ a \in Present
    /\ HasService(db[a], id)
    /\ view' = [view EXCEPT ![c] =
          [app |-> a, id |-> id, req |-> ServiceSettings(ServiceOf(db[a], id))]]
    /\ UNCHANGED <<db, isAdmin, h, priv, shrd, started, writes, drawn, ghosts>>

(* Applies edit to the loaded settings. *)
Edited(req, edit) ==
    [f \in DOMAIN req |-> IF f \in DOMAIN edit THEN edit[f] ELSE req[f]]

(* What becomes of service s when the one with the given id is updated. *)
Rebuilt(s, id, req) ==
    BuildService(IF s.id = id THEN req ELSE ServiceRequestFromModel(s),
                 s, isAdmin)

(* Mutant: the siblings are left out. *)
RebuiltServicesTargetOnly(app, id, req) ==
    LET built == BuildService(req, ServiceOf(app, id), isAdmin)
    IN  IF built # {} THEN {built} ELSE {}

(* All services of the project go through build_services, the one being    *)
(* updated under its new name, its siblings as requests made from their    *)
(* rows.  Empty when any of them is refused or two names are equal.        *)
RebuiltServices(app, id, req) ==
    IF \A s \in app.services : /\ Rebuilt(s, id, req) # {}
                               /\ s.id # id => s.name # req.name
    THEN {UNION {Rebuilt(s, id, req) : s \in app.services}}
    ELSE {}

(* update_service.  repo, when present, sets or clears github_url, which   *)
(* may be cleared only when no service is built from source.               *)
UpdateService(c, edit, repo, appEnv) ==
    /\ h[c].pc = "idle"
    /\ view[c] # Null
    /\ LET a == view[c].app
           id == view[c].id
       IN  /\ a \in Present
           /\ HasService(db[a], id)
           /\ Edited(view[c].req, edit) \in ServiceRequest
           /\ \E services \in RebuiltServices(db[a], id,
                                              Edited(view[c].req, edit)),
                env \in BuildAppEnvVars(appEnv, db[a].env) :
                 LET url == IF repo = Absent THEN db[a].repo ELSE repo
                     next == [repo |-> url, env |-> env,
                              services |-> services]
                 IN  /\ RequiresSourceCheckout(next) /\ ~url => ~db[a].repo
                     /\ Begin(c, "update", a, id, db[a], next, FALSE)

(* A project row is drawn for a new id: no other handler has it in hand. *)
FreshProject(a) ==
    /\ a \notin Present
    /\ \A k \in Busy : h[k].app # a

(* A project of one service, built from its repository or from an image; a *)
(* repository is needed for a source build that is to be deployed at once. *)
(* Its variables are taken as they are sent.                               *)
CreateRepositoryService(c, a, n) ==
    \E s \in BuildService(n.service,
                         NewService(NewId, n.service), isAdmin) :
        LET env == IF n.env \in {Absent, Null} THEN Null
                   ELSE [val |-> n.env.val, secret |-> n.env.secret = TRUE]
            next == [repo |-> n.repo, env |-> env, services |-> {s}]
        IN  /\ n.deploy /\ RequiresSourceCheckout(next) => n.repo
            /\ Begin(c, "create", a, s.id, Null, next, n.deploy)

(* A project of images, always deployed. *)
CreateStackService(c, a, n) ==
    /\ n.service.image
    /\ \E s \in BuildService(n.service,
                            NewService(NewId, n.service), isAdmin),
          env \in BuildAppEnvVars(n.env, Null) :
          Begin(c, "create", a, s.id, Null,
                [repo |-> FALSE, env |-> env, services |-> {s}], TRUE)

(* A project builds from one repository, set by the first service that     *)
(* names one; of the shared variables only missing keys are added.         *)
AddServicesToProject(c, a, n) ==
    /\ \A s \in db[a].services : s.name # n.service.name
    /\ n.stack => n.service.image
    /\ \E s \in BuildService(n.service,
                            NewService(NewId, n.service), isAdmin),
          env \in BuildAppEnvVars(n.env, Null) :
          LET next == [repo |-> db[a].repo \/ (n.repo /\ ~n.stack),
                       env |-> IF db[a].env = Null THEN env ELSE db[a].env,
                       services |-> db[a].services \cup {s}]
              deploy == n.stack \/ n.deploy
          IN  /\ deploy /\ RequiresSourceCheckout(next) => next.repo
              /\ Begin(c, "add", a, s.id, db[a], next, deploy)

(* create_service: a request that names a project adds to it, another one  *)
(* makes a project of its own.  Templates are in ManagedServices.          *)
CreateService(c, a, n) ==
    /\ h[c].pc = "idle"
    /\ \E i \in Ids : drawn[i] = Null
    /\ \/ a \in Present /\ AddServicesToProject(c, a, n)
       \/ FreshProject(a) /\ n.stack /\ CreateStackService(c, a, n)
       \/ FreshProject(a) /\ ~n.stack /\ CreateRepositoryService(c, a, n)

-----------------------------------------------------------------------------
(* The rest of a handler                                                   *)

Stop(c) == h' = [h EXCEPT ![c] = Idle]

(* The volume of a service under row app. *)
VolumeOf(app, id) == ServiceOf(app, id).mounts

Managed(m) == m # Null /\ m.host = Null

(* The data the service of handler r finds in it. *)
Visible(app, r) ==
    IF r.op # "update" THEN 0
    ELSE IF ~Managed(VolumeOf(app, r.id)) THEN 0
    ELSE IF VolumeOf(app, r.id).shared THEN shrd[r.app]
    ELSE priv[r.id]

(* What update_service has to do with the directories of the volume.       *)
MountSwitch(r) ==
    LET before == VolumeOf(r.prev, r.id)
        after  == VolumeOf(r.next, r.id)
    IN  IF r.op # "update" THEN "none"
        ELSE IF ~Managed(before) \/ ~Managed(after) THEN "none"
        ELSE IF ~before.shared /\ after.shared THEN "share"
        ELSE IF before.shared /\ ~after.shared THEN "unshare"
        ELSE "none"

(* shared_mounts::plan.  Sharing is refused when both places hold data;    *)
(* empty directories need no work.                                         *)
PlanMounts(r) ==
    IF MountSwitch(r) = "share" /\ priv[r.id] # 0
    THEN IF shrd[r.app] # 0 THEN {} ELSE {"move"}
    ELSE IF MountSwitch(r) = "unshare" /\ priv[r.id] = 0 /\ shrd[r.app] # 0
    THEN {"copy"}
    ELSE {"none"}

(* The DNS answers arrive: the checks after them and the plan. *)
CheckDomains(c) ==
    /\ h[c].pc = "dns"
    /\ \/ /\ DomainsFree(h[c].app, h[c].next)
          /\ \E p \in PlanMounts(h[c]) :
                h' = [h EXCEPT ![c] =
                        [h[c] EXCEPT !.pc = "apply", !.plan = p,
                                     !.seen = Visible(h[c].prev, h[c])]]
       \/ /\ \/ AllDomains(h[c].next) # {}
             \/ PlanMounts(h[c]) = {}
          /\ Stop(c)
    /\ UNCHANGED <<db, isAdmin, view, priv, shrd, started, writes, drawn, ghosts>>

(* shared_mounts::apply, nothing to do or done. *)
ToSave(c, moved) ==
    h' = [h EXCEPT ![c] = [h[c] EXCEPT !.pc = "save", !.moved = moved]]

(* What copy_dir leaves in the service's own volume: a copy of what is     *)
(* shared by now, or part of it when it fails.                             *)
Copied(own, shared) == IF shared = 0 THEN own ELSE shared

CopiedPart(own, shared) == IF shared = 0 THEN {own} ELSE {own, Partial}

(* shared_mounts::apply.  The rename refuses a target with data in it; a   *)
(* failed migration answers an error, and a failed copy leaves the files   *)
(* it had copied.                                                          *)
ApplyMounts(c) ==
    LET i == h[c].id
        a == h[c].app
    IN  /\ h[c].pc = "apply"
        /\ \/ /\ h[c].plan = "none"
              /\ ToSave(c, FALSE)
              /\ UNCHANGED <<priv, shrd>>
           \/ /\ h[c].plan = "move"
              /\ shrd[a] = 0
              /\ shrd' = [shrd EXCEPT ![a] = priv[i]]
              /\ priv' = [priv EXCEPT ![i] = 0]
              /\ ToSave(c, TRUE)
           \/ /\ h[c].plan = "copy"
              /\ priv' = [priv EXCEPT ![i] = Copied(priv[i], shrd[a])]
              /\ ToSave(c, FALSE)
              /\ UNCHANGED shrd
           \/ /\ h[c].plan = "move"
              /\ Stop(c)
              /\ UNCHANGED <<priv, shrd>>
           \/ /\ h[c].plan = "copy"
              /\ \E left \in CopiedPart(priv[i], shrd[a]) :
                    priv' = [priv EXCEPT ![i] = left]
              /\ Stop(c)
              /\ UNCHANGED shrd
        /\ UNCHANGED <<db, isAdmin, view, started, writes, drawn, ghosts>>

(* save_app: one transaction that upserts the row and the services and     *)
(* drops the services that are not listed.                                 *)
SaveApp(c) ==
    /\ h[c].pc = "save"
    /\ WriteRow(c, h[c].app, h[c].next,
                IF h[c].deploy THEN [h[c] EXCEPT !.pc = "queue"] ELSE Idle)
    /\ UNCHANGED <<isAdmin, view, priv, shrd, started, writes, drawn>>

(* Mutant: the directory is removed, not put back. *)
SaveAppFailsDropped(c) ==
    /\ h[c].pc = "save"
    /\ shrd' = [shrd EXCEPT ![h[c].app] = IF h[c].moved THEN 0 ELSE @]
    /\ Stop(c)
    /\ UNCHANGED <<db, isAdmin, view, priv, started, writes, drawn, ghosts>>

(* The transaction fails: a move is undone, a copy stays.  The rename back *)
(* refuses a directory that has data again.                                *)
SaveAppFails(c) ==
    LET i == h[c].id
        a == h[c].app
    IN  /\ h[c].pc = "save"
        /\ IF h[c].moved /\ priv[i] = 0
           THEN /\ priv' = [priv EXCEPT ![i] = shrd[a]]
                /\ shrd' = [shrd EXCEPT ![a] = 0]
           ELSE UNCHANGED <<priv, shrd>>
        /\ Stop(c)
        /\ UNCHANGED <<db, isAdmin, view, started, writes, drawn, ghosts>>

(* create_and_queue_deployment after the save: a failure takes the new     *)
(* project or the added services back.                                     *)
QueueDeployment(c) ==
    /\ h[c].pc = "queue"
    /\ \/ /\ Stop(c)
          /\ UNCHANGED <<db, ghosts>>
       \/ WriteRow(c, h[c].app, h[c].prev, Idle)
    /\ UNCHANGED <<isAdmin, view, priv, shrd, started, writes, drawn>>

(* A container of the service writes to its volume.  Bind mounts follow    *)
(* the directory while it is moved, so no write is placed between apply    *)
(* and save.                                                               *)
WriteVolume(a, id) ==
    /\ a \in Present
    /\ HasService(db[a], id)
    /\ writes < MaxWrites
    /\ \A c \in Busy : h[c].pc # "dns" => h[c].app # a
    /\ LET m == VolumeOf(db[a], id)
       IN  /\ Managed(m)
           /\ IF m.shared
              THEN /\ shrd' = [shrd EXCEPT ![a] = writes + 1]
                   /\ UNCHANGED priv
              ELSE /\ priv' = [priv EXCEPT ![id] = writes + 1]
                   /\ UNCHANGED shrd
    /\ writes' = writes + 1
    /\ UNCHANGED <<db, isAdmin, view, h, started, drawn, ghosts>>

Init ==
    /\ db \in InitialApps
    /\ isAdmin \in BOOLEAN
    /\ \A s \in Stored : Sound(s, isAdmin)
    /\ view = [c \in Clients |-> Null]
    /\ h = [c \in Clients |-> Idle]
    /\ priv = [i \in Ids |-> 0]
    /\ shrd = [a \in Apps |-> 0]
    /\ started = 0
    /\ writes = 0
    /\ drawn \in [Ids -> Apps \cup {Null}]
    /\ \A i \in Ids, a \in Apps :
          drawn[i] = a <=> a \in Present /\ i \in ServiceIds(db[a])
    /\ raced = FALSE
    /\ lapped = FALSE

ClientStep(c) ==
    \/ \E a \in Apps, id \in Ids : LoadSettings(c, a, id)
    \/ \E e \in Edits : UpdateService(c, e.service, e.repo, e.env)
    \/ \E a \in Apps, n \in NewRequests : CreateService(c, a, n)
    \/ CheckDomains(c)
    \/ ApplyMounts(c)
    \/ SaveApp(c)
    \/ SaveAppFails(c)
    \/ QueueDeployment(c)

Next ==
    \/ \E c \in Clients : ClientStep(c)
    \/ \E a \in Apps, id \in Ids : WriteVolume(a, id)

Spec == Init /\ [][Next]_vars

-----------------------------------------------------------------------------
(* Properties                                                              *)

(* Rows are projects, versions are within their bound, and every handler   *)
(* is at a step the code has.                                              *)
TypeOK ==
    /\ db \in Rows
    /\ isAdmin \in BOOLEAN
    /\ h \in [Clients -> Handlers \cup {Idle}]
    /\ priv \in [Ids -> 0 .. Partial]
    /\ shrd \in [Apps -> 0 .. Partial]
    /\ started \in 0 .. MaxHandlers
    /\ writes \in 0 .. MaxWrites
    /\ drawn \in [Ids -> Apps \cup {Null}]
    /\ raced \in BOOLEAN
    /\ lapped \in BOOLEAN

(* build_service_registry_auth: the stored password of a registry is never *)
(* the mask.  resolve_masked_value: the mask a client was shown never      *)
(* becomes a secret that is about to be saved, however old its view and    *)
(* whatever other clients removed or changed in between; only a value that *)
(* was the mask's text in the row the handler read can be one.             *)
SecretsStayReal ==
    /\ \A s \in Stored : s.registry # Null => s.registry.password # Mask
    /\ \A c \in Busy : \A s \in h[c].next.services :
          s.env # Null /\ s.env.secret /\ s.env.val = Mask
          => /\ h[c].prev # Null
             /\ \E t \in h[c].prev.services :
                   t.id = s.id /\ t.env # Null /\ t.env.val = Mask

Siblings(app, id) == {s \in app.services : s.id # id}

(* update_service sends every sibling through a request made from its row: *)
(* saving one service leaves the others of the project as they were read,  *)
(* secrets, password hashes, domains and volumes included.                 *)
SiblingsKept ==
    [][\A c \in Clients :
         /\ h[c].pc = "save" /\ h'[c].pc = "idle" /\ db' # db
         /\ h[c].op = "update"
         => Siblings(db'[h[c].app], h[c].id)
              = Siblings(h[c].prev, h[c].id)]_vars

(* build_services: what is stored can be stored again. *)
RoundTrips(s) == BuildService(ServiceRequestFromModel(s), s, isAdmin) = {s}

(* build_services: after any sequence of partial updates a stored service  *)
(* obeys every rule that ties its fields together: a file is never inside  *)
(* the volume, a host path is there only when an administrator could have  *)
(* set it, the two kinds of login exclude each other, only a public        *)
(* service has domains.  A service of any type but cron_job goes through   *)
(* service_request_from_model and build_services unchanged, so it never    *)
(* blocks an update of a sibling.                                          *)
StoredServicesSound ==
    /\ TypeOK
    /\ \A s \in Stored : /\ Sound(s, isAdmin)
                         /\ s.type # "cron" => RoundTrips(s)

(* validate_port_mappings and validate_app_service_domains: two services   *)
(* share a host port or a domain only in different projects, and only      *)
(* after a handler saved over a change made since it checked.              *)
NamesDisjoint ==
    \A a, b \in Present :
        \A s \in db[a].services, t \in db[b].services :
            s # t /\ Clash(s, t) => a # b /\ raced

Versions == ({priv[i] : i \in Ids} \cup {shrd[a] : a \in Apps}) \ {0, Partial}

(* shared_mounts, "a volume switched between per-service and shared keeps  *)
(* its data": no migration, failed migration, failed save or undo makes    *)
(* the last copy of a volume's data disappear, and when a volume becomes   *)
(* shared, what the service saw before is what it sees after, as long as   *)
(* no project changed while a handler had it in hand.                      *)
VolumeDataKept ==
    /\ [][writes' = writes /\ ~lapped' => Versions \subseteq Versions']_vars
    /\ [][\A c \in Clients :
            /\ h[c].pc = "save" /\ h'[c].pc = "idle" /\ db' # db
            /\ ~lapped'
            /\ MountSwitch(h[c]) = "share"
            /\ h[c].seen # 0
            => Visible(h[c].next, h[c]) = h[c].seen]_vars

-----------------------------------------------------------------------------
(* The inductive invariant                                                 *)

(* A row of project a: services that obey the rules, with ids of their own *)
(* project, no two of which name the same thing.                           *)
RowOK(app, a) ==
    /\ app \in Project
    /\ \A s \in app.services : Sound(s, isAdmin) /\ drawn[s.id] = a
    /\ Consistent(app)

RowsInv == \A a \in Present : RowOK(db[a], a)

(* What a handler reads and what it is about to save. *)
HandlerRows(r) ==
    /\ drawn[r.id] = r.app
    /\ RowOK(r.next, r.app)
    /\ IF r.op = "create" THEN r.prev = Null ELSE RowOK(r.prev, r.app)
    /\ r.op = "update" => /\ HasService(r.prev, r.id)
                          /\ HasService(r.next, r.id)
                          /\ Siblings(r.next, r.id) = Siblings(r.prev, r.id)
                          /\ ~r.deploy

(* The migration a handler has planned is the one its switch calls for. *)
HandlerPlan(r) ==
    /\ r.plan = "move" => MountSwitch(r) = "share" /\ r.pc # "dns"
    /\ r.plan = "copy" => MountSwitch(r) = "unshare" /\ r.pc # "dns"
    /\ MountSwitch(r) = "share" /\ r.seen # 0 => r.plan = "move"
    /\ r.moved => r.plan = "move" /\ r.pc = "save"
    /\ r.pc = "save" /\ r.plan = "move" => r.moved
    /\ r.pc = "queue" => r.deploy

HandlersInv == \A c \in Busy : HandlerRows(h[c]) /\ HandlerPlan(h[c])

(* A handler that has read the latest state still holds what it checked. *)
FreshInv ==
    \A c \in Busy : h[c].fresh =>
        /\ h[c].pc # "queue" => PortsFree(h[c].app, h[c].next)
        /\ h[c].pc \in {"apply", "save"} => DomainsFree(h[c].app, h[c].next)
        /\ ~raced /\ h[c].op # "create" =>
              \A b \in Present \ {h[c].app} : Apart(h[c].prev, db[b])

Moved == {c \in Busy : h[c].moved}

(* A move that is not saved yet: the data is in the shared volume only. *)
MovesInv ==
    /\ \A c \in Moved : /\ h[c].seen # 0
                        /\ shrd[h[c].app] = h[c].seen
                        /\ priv[h[c].id] = 0
    /\ \A c, d \in Moved : h[c].app = h[d].app => c = d

(* A move that is planned: the data is where it was, or on its way already *)
(* by the hand of another handler of the same service.                     *)
PlannedMoves ==
    \A c \in Busy : h[c].pc = "apply" /\ h[c].plan = "move" =>
        /\ h[c].seen # 0
        /\ \/ priv[h[c].id] = h[c].seen
           \/ \E d \in Moved : h[d].id = h[c].id /\ h[d].seen = h[c].seen

(* Service i of the project keeps its data in its own volume. *)
KeepsOwn(app, i) ==
    /\ HasService(app, i)
    /\ Managed(VolumeOf(app, i))
    /\ ~VolumeOf(app, i).shared

(* A copy that is planned overwrites nothing that is not elsewhere. *)
PlannedCopies ==
    \A c \in Busy : h[c].pc = "apply" /\ h[c].plan = "copy" =>
        \/ priv[h[c].id] \in {0, Partial}
        \/ priv[h[c].id] = shrd[h[c].app]
        \/ \E i \in Ids \ {h[c].id} :
              KeepsOwn(h[c].prev, i) /\ priv[i] = priv[h[c].id]

VolumesInv ==
    ~lapped =>
        /\ \A c \in Busy : h[c].op = "update" => h[c].prev = db[h[c].app]
        /\ MovesInv
        /\ PlannedMoves
        /\ PlannedCopies

IInv ==
    /\ TypeOK
    /\ RowsInv
    /\ HandlersInv
    /\ NamesDisjoint
    /\ FreshInv
    /\ SecretsStayReal
    /\ VolumesInv
=============================================================================
