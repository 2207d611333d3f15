------------------------------ MODULE Accounts ------------------------------
(***************************************************************************)
(* Accounts and what hangs on them: bootstrap of the first administrator,  *)
(* password changes, GitHub sign-in with its single-use states, deletion   *)
(* of a user, the login gate's passes and sessions, storage buckets,       *)
(* registry credentials and the GitHub app of a user.  A handler reads a   *)
(* row, computes a hash or awaits GitHub or the storage service, and saves *)
(* its whole copy with an upsert.  Handlers run on several threads, so     *)
(* others may come between any two calls of the database; a handler may be *)
(* dropped or fail before its save, and a crash ends them all.             *)
(***************************************************************************)
EXTENDS Integers, FiniteSets

CONSTANTS
    Users,        \* user ids, one email address each
    Identities,   \* GitHub accounts
    Handlers,     \* requests in progress at a time
    Life,         \* lifetime of an oauth state (600 seconds)
    PassLife,     \* lifetime of a gate pass
    SessionLife,  \* lifetime of a gate session
    Leeway,       \* tolerance of verify_gate_token
    MaxTime,      \* bound on the clock
    MaxOps,       \* bound on the operations
    MaxCrashes,   \* bound on the crashes
    Configurations, \* which optional parts an installation may have set up
    None

(* The rows of users, of GitHub apps and of what a user owns. *)
UserRow == [admin : BOOLEAN, pw : {None, 1, 2}, gh : Identities \cup {None},
            token : BOOLEAN]

AppRow == [id : Nat, inst : SUBSET {1}]

OwnedRow == [id : Nat, u : Users]

ASSUME AccountsAssumption ==
    /\ IsFiniteSet(Users)
    /\ "login" \notin Users
    /\ None \notin Users \cup Identities \cup {1, 2}
    /\ None \notin UserRow /\ None \notin AppRow
    /\ {Life, PassLife, SessionLife, Leeway, MaxTime, MaxOps, MaxCrashes}
          \subseteq Nat
    /\ Configurations \subseteq SUBSET {"github", "gate", "buckets", "app",
                                  "registries"}

VARIABLES
    config,   \* the parts set up: sign-in with GitHub, a login gate, storage,
              \* a GitHub app, private registries
    users,    \* users[u]: row of the user, or None
    born,     \* born[u]: place of u in the order of created_at, 0 before that
    oauth,    \* pending oauth states
    jobs,     \* jobs[i]: what handler i is doing
    tokens,   \* gate passes and sessions that browsers hold
    visit,    \* the last visit a gate let through
    registries, \* rows [id, u] of credentials, all for one registry server
    buckets,  \* rows [id, u] of storage buckets, all of one bucket name
    store,    \* whether the storage service has a bucket of that name
    app,      \* app[u]: the GitHub app of u: [id, inst], or None
    remote,   \* installations GitHub reports
    now,      \* the clock
    proved,   \* ghost: <<u, g>> when g was shown in a flow that u began
    boots,    \* ghost: saves that made a first administrator
    made,     \* ghost: made[u] is the last of the GitHub apps u was told of
    blame,    \* ghost: stale copies that were saved, calls broken off and
              \* requests that overlapped
    ops,      \* operations so far
    crashes   \* crashes so far

world == <<config, registries, buckets, store, app, remote>>
gate == <<tokens, visit>>
ghosts == <<proved, boots, made, blame>>
vars == <<users, born, oauth, jobs, gate, world, now, ghosts, ops, crashes>>

(* What a handler holds on to while it awaits. *)
Job(op, pc, u, arg, row) ==
    [op |-> op, pc |-> pc, u |-> u, arg |-> arg, row |-> row]

Free == Job("none", "none", None, None, None)

Exists(u) == users[u] # None

Rows == {u \in Users : users[u] # None}

IsAdmin(u) == Exists(u) /\ users[u].admin

(* The whole row is written, whether it is still there or not. *)
SaveUser(u, row) ==
    /\ users' = [users EXCEPT ![u] = row]
    /\ born' = IF born[u] # 0 THEN born
               ELSE [born EXCEPT ![u] = Cardinality({v \in Users : born[v] # 0}) + 1]

GoesOn(i, job) == jobs' = [jobs EXCEPT ![i] = job]

(* A new request takes a free handler. *)
Begins(i, job) ==
    /\ jobs[i] = Free
    /\ ops < MaxOps
    /\ ops' = ops + 1
    /\ GoesOn(i, job)

Ends(i) == GoesOn(i, Free)

Held(i, op, pc) == jobs[i].op = op /\ jobs[i].pc = pc

-----------------------------------------------------------------------------
(* Accounts                                                                *)

(* The id of a new row is a random one. *)
Fresh(u) == born[u] = 0

(* register: open while there is no user at all. *)
Register(i) ==
    /\ Rows = {}
    /\ Begins(i, Job("register", "hash", None, None, None))
    /\ UNCHANGED <<users, born, oauth, gate, world, now, ghosts, crashes>>

(* The password is hashed and the first administrator saved, without      *)
(* another look at the users.                                              *)
RegisterSave(i) ==
    /\ Held(i, "register", "hash")
    /\ Ends(i)
    /\ \E u \in Users :
          /\ Fresh(u)
          /\ SaveUser(u, [admin |-> TRUE, pw |-> 1, gh |-> None, token |-> FALSE])
    /\ boots' = boots + 1
    /\ UNCHANGED <<oauth, gate, world, now, proved, made, blame, ops, crashes>>

(* create_user, by an administrator. *)
CreateUser(i, a) ==
    /\ IsAdmin(a)
    /\ Begins(i, Job("create", "hash", None, None, None))
    /\ UNCHANGED <<users, born, oauth, gate, world, now, ghosts, crashes>>

CreateUserSave(i) ==
    /\ Held(i, "create", "hash")
    /\ Ends(i)
    /\ \E u \in Users :
          /\ Fresh(u)
          /\ SaveUser(u, [admin |-> FALSE, pw |-> 1, gh |-> None, token |-> FALSE])
    /\ UNCHANGED <<oauth, gate, world, now, ghosts, ops, crashes>>

(* change_password reads the row and hashes the new password ... *)
ChangePassword(i, u) ==
    /\ Exists(u)
    /\ Begins(i, Job("password", "hash", u, None, users[u]))
    /\ UNCHANGED <<users, born, oauth, gate, world, now, ghosts, crashes>>

(* What the save of an older copy undoes. *)
Stale(i) == IF users[jobs[i].u] = jobs[i].row THEN {} ELSE {"user"}

(* The handler saves a row made from the copy it has read, and is done. *)
SaveCopy(i, row) ==
    /\ Ends(i)
    /\ SaveUser(jobs[i].u, row)
    /\ blame' = blame \cup Stale(i)
    /\ UNCHANGED <<oauth, gate, world, now, proved, boots, made, ops, crashes>>

(* ... and saves its copy of the row. *)
ChangePasswordSave(i) ==
    /\ Held(i, "password", "hash")
    /\ SaveCopy(i, [jobs[i].row EXCEPT !.pw = 2])

(* Mutant: administrators may delete themselves. *)
MayDeleteAnyone(a, u) == IsAdmin(a) /\ Exists(u)

(* delete_user: not oneself, and only who exists. *)
MayDelete(a, u) == IsAdmin(a) /\ a # u /\ Exists(u)

DeleteUser(i, a, u) ==
    /\ MayDelete(a, u)
    /\ Begins(i, Job("delete", "teardown", u, None, None))
    /\ UNCHANGED <<users, born, oauth, gate, world, now, ghosts, crashes>>

(* Foreign keys: the rows a user owns go with the user. *)
Cascade(u) ==
    /\ buckets' = {b \in buckets : b.u # u}
    /\ registries' = {r \in registries : r.u # u}
    /\ app' = [app EXCEPT ![u] = None]

(* The services are deleted, failures logged, and the row is removed. *)
DeleteUserRow(i) ==
    /\ Held(i, "delete", "teardown")
    /\ Ends(i)
    /\ users' = [users EXCEPT ![jobs[i].u] = None]
    /\ Cascade(jobs[i].u)
    /\ UNCHANGED <<born, oauth, gate, config, store, remote, now, ghosts, ops,
                   crashes>>

-----------------------------------------------------------------------------
(* GitHub sign-in                                                          *)

Age(s) == now - s.at

(* cleanup_expired_oauth_states: a state is dropped when its age exceeds   *)
(* what is left of its life; for one that has expired the remaining time   *)
(* is negative, wraps to an unsigned number of seconds and the sum with    *)
(* its start is out of range.                                              *)
CleanupPanics == \E s \in oauth : Age(s) > Life

Dropped == {s \in oauth : Age(s) > Life - Age(s)}

(* github_authorize_url for a login or for linking to one's account. *)
AuthorizeUrl(i, purpose) ==
    /\ "github" \in config
    /\ purpose # "login" => Exists(purpose)
    /\ Begins(i, Free)
    /\ IF CleanupPanics THEN oauth' = oauth
       ELSE oauth' = (oauth \ Dropped) \cup
                        {[n |-> ops, at |-> now, purpose |-> purpose]}
    /\ UNCHANGED <<users, born, gate, world, now, ghosts, crashes>>

(* Mutant: any signed-in user may finish a link. *)
MayFinishAnyone(s, u) == s.purpose # "login" => u \in Users /\ Exists(u)

(* A link must finish in the session that started it. *)
MayFinish(s, u) == s.purpose # "login" => u = s.purpose /\ Exists(u)

(* github_callback takes the state out, whatever becomes of it, and awaits *)
(* GitHub with the linking user's row in hand.                             *)
Callback(i, s, u) ==
    /\ s \in oauth
    /\ oauth' = oauth \ {s}
    /\ IF Age(s) > Life \/ ~MayFinish(s, u) THEN Begins(i, Free)
       ELSE IF s.purpose = "login"
       THEN Begins(i, Job("login", "exchange", None, None, None))
       ELSE Begins(i, Job("link", "exchange", u, s.purpose, users[u]))
    /\ UNCHANGED <<users, born, gate, world, now, ghosts, crashes>>

Owner(g) == {u \in Users : Exists(u) /\ users[u].gh = g}

(* Requests that know their GitHub account, and its owner, and have still  *)
(* to save.                                                                *)
Deciding(i) == jobs[i].op \in {"link", "login"} /\ jobs[i].pc # "exchange"

(* Nothing keeps two of them from deciding about one GitHub account.       *)
Overlap(g) ==
    IF \E i \in Handlers : Deciding(i) /\ jobs[i].arg = g THEN {"owner"} ELSE {}

(* get_user_by_github_id answers with one of the rows, if there is any. *)
Found(g) == IF Owner(g) = {} THEN {None} ELSE Owner(g)

(* link_github: a GitHub account can belong to one user only. *)
MayLink(u, o) == o \in {None, u}

(* The code was exchanged for the identity g, and its owner is looked up:  *)
(* the link is refused ...                                                 *)
LinkOwner(i, g) ==
    LET u == jobs[i].u IN
    /\ Held(i, "link", "exchange")
    /\ \E o \in Found(g) :
          IF MayLink(u, o)
          THEN /\ GoesOn(i, Job("link", "save", u, g, jobs[i].row))
               /\ blame' = blame \cup Overlap(g)
          ELSE Ends(i) /\ UNCHANGED blame
    /\ proved' = proved \cup {<<jobs[i].arg, g>>}
    /\ UNCHANGED <<users, born, oauth, gate, world, now, boots, made, ops, crashes>>

(* ... or saved with the row that was read before GitHub was asked. *)
LinkSave(i) ==
    /\ Held(i, "link", "save")
    /\ SaveCopy(i, [jobs[i].row EXCEPT !.gh = jobs[i].arg, !.token = TRUE])

(* A login looks up its owner in the same way ... *)
LoginOwner(i, g) ==
    /\ Held(i, "login", "exchange")
    /\ \E o \in Found(g) :
          GoesOn(i, Job("login", "found", o, g, IF o = None THEN None ELSE users[o]))
    /\ blame' = blame \cup Overlap(g)
    /\ UNCHANGED <<users, born, oauth, gate, world, now, proved, boots, made, ops,
                   crashes>>

(* ... who is to become administrator when there is none; without an owner *)
(* it goes on when there are no users at all, and is refused otherwise.    *)
LoginDecide(i) ==
    LET j == jobs[i] IN
    /\ Held(i, "login", "found")
    /\ \/ /\ j.u # None
          /\ GoesOn(i, Job("login",
                           IF j.row.admin \/ \E v \in Rows : users[v].admin
                           THEN "save" ELSE "promote", j.u, j.arg, j.row))
       \/ j.u = None /\ Rows = {} /\ GoesOn(i, Job("login", "save", None, j.arg, None))
       \/ j.u = None /\ Rows # {} /\ Ends(i)
    /\ UNCHANGED <<users, born, oauth, gate, world, now, ghosts, ops, crashes>>

LoginSave(i) ==
    LET j == jobs[i] IN
    /\ j.op = "login" /\ j.pc \in {"save", "promote"} /\ j.u # None
    /\ SaveCopy(i, [j.row EXCEPT !.admin = j.row.admin \/ j.pc = "promote",
                                 !.token = TRUE])

(* The first login makes a user, who is an administrator. *)
LoginCreate(i) ==
    /\ Held(i, "login", "save") /\ jobs[i].u = None
    /\ Ends(i)
    /\ \E u \in Users :
          /\ Fresh(u)
          /\ SaveUser(u, [admin |-> TRUE, pw |-> None, gh |-> jobs[i].arg,
                         token |-> TRUE])
          /\ proved' = proved \cup {<<u, jobs[i].arg>>}
    /\ boots' = boots + 1
    /\ UNCHANGED <<oauth, gate, world, now, made, blame, ops, crashes>>

(* unlink_github: refused for accounts that could no longer sign in. *)
MayUnlink(u) ==
    (users[u].gh # None \/ users[u].token) /\ users[u].pw # None

GithubUnlink(i, u) ==
    /\ Exists(u)
    /\ MayUnlink(u)
    /\ Begins(i, Job("unlink", "save", u, None, users[u]))
    /\ UNCHANGED <<users, born, oauth, gate, world, now, ghosts, crashes>>

GithubUnlinkSave(i) ==
    /\ Held(i, "unlink", "save")
    /\ SaveCopy(i, [jobs[i].row EXCEPT !.gh = None, !.token = FALSE])

(* github_disconnect forgets the token and keeps the identity.  (There are *)
(* no tokens where GitHub is not set up.)                                  *)
GithubDisconnect(i, u) ==
    /\ "github" \in config
    /\ Exists(u)
    /\ Begins(i, Job("disconnect", "save", u, None, users[u]))
    /\ UNCHANGED <<users, born, oauth, gate, world, now, ghosts, crashes>>

GithubDisconnectSave(i) ==
    /\ Held(i, "disconnect", "save")
    /\ SaveCopy(i, [jobs[i].row EXCEPT !.token = FALSE])

(* GitHub refuses the code, or does not tell whose it is: the state is     *)
(* spent and nothing else happened.                                        *)
ExchangeFails(i) ==
    /\ Held(i, "login", "exchange") \/ Held(i, "link", "exchange")
    /\ Ends(i)
    /\ UNCHANGED <<users, born, oauth, gate, world, now, ghosts, ops, crashes>>

-----------------------------------------------------------------------------
(* The login gate of a service that every user may open                    *)

(* create_gate_pass for a user the dashboard knows. *)
CreateGatePass(i, u) ==
    /\ "gate" \in config
    /\ Exists(u)
    /\ Begins(i, Free)
    /\ tokens' = tokens \cup {[kind |-> "pass", u |-> u, exp |-> now + PassLife,
                               grant |-> now]}
    /\ UNCHANGED <<users, born, oauth, visit, world, now, ghosts, crashes>>

(* Mutant: a session is as good as a pass. *)
VerifiesAnyKind(t, kind) == now <= t.exp + Leeway

(* verify_gate_token: signed, unexpired and of the kind that is asked for. *)
Verifies(t, kind) == t.kind = kind /\ now <= t.exp + Leeway

(* enforce_login_gate on the callback path: a pass is traded for a session *)
(* cookie, as often as it is presented.                                    *)
GateCallback(t) ==
    /\ t \in tokens
    /\ Verifies(t, "pass") /\ Exists(t.u)
    /\ tokens' = tokens \cup {[kind |-> "session", u |-> t.u,
                               exp |-> now + SessionLife, grant |-> t.grant]}
    /\ UNCHANGED <<users, born, oauth, jobs, visit, world, now, ghosts, ops,
                   crashes>>

(* ... and on any other path: the session's user is looked up. *)
GateVisit(t) ==
    /\ t \in tokens
    /\ Verifies(t, "session") /\ Exists(t.u)
    /\ visit' = [u |-> t.u, age |-> now - t.grant]
    /\ UNCHANGED <<users, born, oauth, jobs, tokens, world, now, ghosts, ops,
                   crashes>>

-----------------------------------------------------------------------------
(* A storage bucket                                                        *)

(* create_bucket looks at the token only, not at the user's row. *)
CreateBucket(i, u) ==
    /\ "buckets" \in config
    /\ born[u] # 0
    /\ Begins(i, Job("mkbucket", "send", u, ops, None))
    /\ UNCHANGED <<users, born, oauth, gate, world, now, ghosts, crashes>>

(* The storage service refuses a name it has. *)
CreateBucketSend(i) ==
    /\ Held(i, "mkbucket", "send")
    /\ IF store THEN Ends(i)
       ELSE GoesOn(i, Job("mkbucket", "save", jobs[i].u, jobs[i].arg, None))
    /\ store' = TRUE
    /\ UNCHANGED <<users, born, oauth, gate, config, registries, buckets, app, remote, now, ghosts,
                   ops, crashes>>

(* The row of a user who is gone is refused: the bucket has no row then. *)
CreateBucketSave(i) ==
    /\ Held(i, "mkbucket", "save")
    /\ Ends(i)
    /\ buckets' = IF Exists(jobs[i].u)
                  THEN buckets \cup {[id |-> jobs[i].arg, u |-> jobs[i].u]}
                  ELSE buckets
    /\ UNCHANGED <<users, born, oauth, gate, config, registries, store, app, remote, now, ghosts, ops,
                   crashes>>

Deleting(b) == \E i \in Handlers : jobs[i].op = "rmbucket" /\ jobs[i].row = b

(* delete_bucket: two requests may delete the same row. *)
DeleteBucket(i, b) ==
    /\ b \in buckets
    /\ Begins(i, Job("rmbucket", "send", None, None, b))
    /\ blame' = blame \cup IF Deleting(b) THEN {"bucket"} ELSE {}
    /\ UNCHANGED <<users, born, oauth, gate, world, now, proved, boots, made,
                   crashes>>

(* Every page of objects, then the bucket; a missing bucket is an error. *)
DeleteBucketSend(i) ==
    /\ Held(i, "rmbucket", "send")
    /\ IF store THEN GoesOn(i, Job("rmbucket", "row", None, None, jobs[i].row))
       ELSE Ends(i)
    /\ store' = FALSE
    /\ UNCHANGED <<users, born, oauth, gate, config, registries, buckets, app, remote, now, ghosts,
                   ops, crashes>>

(* Mutant: the row is left behind. *)
DeleteBucketRowKept(i) ==
    /\ Held(i, "rmbucket", "row")
    /\ Ends(i)
    /\ UNCHANGED <<users, born, oauth, gate, world, now, ghosts, ops, crashes>>

DeleteBucketRow(i) ==
    /\ Held(i, "rmbucket", "row")
    /\ Ends(i)
    /\ buckets' = buckets \ {jobs[i].row}
    /\ UNCHANGED <<users, born, oauth, gate, config, registries, store, app, remote, now, ghosts,
                   ops, crashes>>

(* The storage service answers an error or not at all; what was asked of   *)
(* it may still have been done.                                            *)
StorageFails(i) ==
    /\ Held(i, "mkbucket", "send") \/ Held(i, "rmbucket", "send")
    /\ Ends(i)
    /\ store' \in {store, jobs[i].op = "mkbucket"}
    /\ blame' = blame \cup IF store /\ ~store' THEN {"bucket"} ELSE {}
    /\ UNCHANGED <<users, born, oauth, gate, config, registries, buckets, app,
                   remote, now, proved, boots, made, ops, crashes>>

(* list_buckets and get_bucket refresh sizes: the row is read, the storage *)
(* service is asked ...                                                    *)
RefreshSizes(i, b) ==
    /\ b \in buckets
    /\ Begins(i, Job("sizes", "ask", None, None, b))
    /\ UNCHANGED <<users, born, oauth, gate, world, now, ghosts, crashes>>

(* ... and a row whose size changed is saved, deleted or not. *)
RefreshSizesSave(i) ==
    LET b == jobs[i].row IN
    /\ Held(i, "sizes", "ask")
    /\ Ends(i)
    /\ \/ UNCHANGED <<buckets, blame>>
       \/ /\ Exists(b.u)
          /\ buckets' = buckets \cup {b}
          /\ blame' = blame \cup IF b \in buckets THEN {} ELSE {"bucket"}
    /\ UNCHANGED <<users, born, oauth, gate, config, registries, store, app, remote, now, proved,
                   boots, made, ops, crashes>>

-----------------------------------------------------------------------------
(* Credentials of a private registry                                       *)

(* resolve_registry_credentials: what an image of u is pulled with. *)
MatchingRegistries(u) == {r \in registries : r.u = u}

(* create_registry: one set of credentials per server. *)
MaySaveRegistry(u) == Exists(u) /\ MatchingRegistries(u) = {}

(* The password is encrypted with a key of the settings, which are awaited. *)
CreateRegistry(i, u) ==
    /\ "registries" \in config
    /\ MaySaveRegistry(u)
    /\ Begins(i, Job("mkregistry", "encrypt", u, ops, None))
    /\ blame' = blame \cup
          IF \E j \in Handlers : jobs[j].op = "mkregistry" /\ jobs[j].u = u
          THEN {"registry"} ELSE {}
    /\ UNCHANGED <<users, born, oauth, gate, world, now, proved, boots, made,
                   crashes>>

(* The row of a user who is gone is refused. *)
CreateRegistrySave(i) ==
    /\ Held(i, "mkregistry", "encrypt")
    /\ Ends(i)
    /\ registries' = IF Exists(jobs[i].u)
                     THEN registries \cup {[id |-> jobs[i].arg, u |-> jobs[i].u]}
                     ELSE registries
    /\ UNCHANGED <<users, born, oauth, gate, config, buckets, store, app, remote,
                   now, ghosts, ops, crashes>>

DeleteRegistry(i, r) ==
    /\ r \in registries
    /\ Begins(i, Free)
    /\ registries' = registries \ {r}
    /\ UNCHANGED <<users, born, oauth, gate, config, buckets, store, app, remote,
                   now, ghosts, crashes>>

-----------------------------------------------------------------------------
(* The GitHub app of a user                                                *)

(* save_github_app: one row per owner, any other of the owner's is dropped *)
(* with the same transaction.                                              *)
SaveGithubApp(u, a) == app' = [app EXCEPT ![u] = a]

Creating(u) == \E i \in Handlers : jobs[i].op = "mkapp" /\ jobs[i].u = u

(* github_app_callback looks at the token only, and awaits GitHub, which   *)
(* turns the manifest's code into an app.                                  *)
GithubAppCallback(i, u) ==
    /\ "app" \in config
    /\ born[u] # 0
    /\ Begins(i, Job("mkapp", "convert", u, ops, None))
    /\ blame' = blame \cup IF Creating(u) THEN {"app"} ELSE {}
    /\ UNCHANGED <<users, born, oauth, gate, world, now, proved, boots, made,
                   crashes>>

(* convert_manifest_code fails: nothing is saved. *)
ConversionFails(i) ==
    /\ Held(i, "mkapp", "convert")
    /\ Ends(i)
    /\ UNCHANGED <<users, born, oauth, gate, world, now, ghosts, ops, crashes>>

(* The app is saved, unless its owner is gone: in the order of the answers *)
(* of GitHub, not of the requests.                                         *)
GithubAppCallbackSave(i) ==
    LET u == jobs[i].u  id == jobs[i].arg IN
    /\ Held(i, "mkapp", "convert")
    /\ Ends(i)
    /\ IF Exists(u)
       THEN /\ SaveGithubApp(u, [id |-> id, inst |-> {}])
            /\ made' = [made EXCEPT ![u] = IF made[u] > id THEN made[u] ELSE id]
       ELSE UNCHANGED <<app, made>>
    /\ UNCHANGED <<users, born, oauth, gate, config, registries, buckets, store,
                   remote, now, proved, boots, blame, ops, crashes>>

(* GitHub learns of an installation. *)
Install ==
    /\ "app" \in config
    /\ remote = {}
    /\ remote' = {1}
    /\ UNCHANGED <<users, born, oauth, jobs, gate, config, registries, buckets, store, app, now,
                   ghosts, ops, crashes>>

DeleteGithubApp(i, u) ==
    /\ app[u] # None
    /\ Begins(i, Free)
    /\ app' = [app EXCEPT ![u] = None]
    /\ UNCHANGED <<users, born, oauth, gate, config, registries, buckets, store, remote, now, ghosts,
                   crashes>>

(* sync_installations, with the row that was read: GitHub is asked for the *)
(* installations ...                                                       *)
SyncInstallations(i, u) ==
    /\ app[u] # None
    /\ Begins(i, Job("sync", "ask", u, None, app[u]))
    /\ UNCHANGED <<users, born, oauth, gate, world, now, ghosts, crashes>>

GetGithubApp(i, u) == SyncInstallations(i, u)

(* get_app_repos goes on to list the repositories, which changes nothing. *)
GetAppRepos(i, u) == SyncInstallations(i, u)

(* github_install_callback asks too, after the user installed the app. *)
GithubInstallCallback(i, u) ==
    /\ app[u] # None
    /\ Begins(i, Job("installed", "ask", u, None, app[u]))
    /\ UNCHANGED <<users, born, oauth, gate, world, now, ghosts, crashes>>

(* GitHub does not list the installations: the row is left alone. *)
ListInstallationsFails(i) ==
    /\ Held(i, "sync", "ask") \/ Held(i, "installed", "ask")
    /\ Ends(i)
    /\ UNCHANGED <<users, born, oauth, gate, world, now, ghosts, ops, crashes>>

(* ... and save the row when they changed.  The row of a deleted owner is  *)
(* refused.                                                                *)
SyncInstallationsSave(i) ==
    LET u == jobs[i].u  row == jobs[i].row IN
    /\ Held(i, "sync", "ask")
    /\ Ends(i)
    /\ IF row.inst = remote \/ ~Exists(u) THEN UNCHANGED <<app, blame>>
       ELSE /\ SaveGithubApp(u, [row EXCEPT !.inst = remote])
            /\ blame' = blame \cup IF app[u] = row THEN {} ELSE {"app"}
    /\ UNCHANGED <<users, born, oauth, gate, config, registries, buckets, store, remote, now, proved,
                   boots, made, ops, crashes>>

(* The installation the callback names is added, if GitHub lists it and    *)
(* the row does not.                                                       *)
GithubInstallCallbackSave(i) ==
    LET u == jobs[i].u  row == jobs[i].row IN
    /\ Held(i, "installed", "ask")
    /\ Ends(i)
    /\ \/ UNCHANGED <<app, blame>>
       \/ \E n \in remote \ row.inst :
             /\ Exists(u)
             /\ SaveGithubApp(u, [row EXCEPT !.inst = @ \cup {n}])
             /\ blame' = blame \cup IF app[u] = row THEN {} ELSE {"app"}
    /\ UNCHANGED <<users, born, oauth, gate, config, registries, buckets, store,
                   remote, now, proved, boots, made, ops, crashes>>

-----------------------------------------------------------------------------
(* Time and crashes                                                        *)

(* Only GitHub sign-in and the gate look at the clock. *)
Tick ==
    /\ config \cap {"github", "gate"} # {}
    /\ now < MaxTime
    /\ now' = now + 1
    /\ UNCHANGED <<users, born, oauth, jobs, gate, world, ghosts, ops, crashes>>

(* bootstrap_admin_user: without any administrator the oldest user becomes *)
(* one.                                                                    *)
BootstrapAdmin ==
    IF Rows = {} \/ \E u \in Rows : users[u].admin THEN users' = users
    ELSE LET first == CHOOSE u \in Rows : \A v \in Rows : born[u] <= born[v]
         IN users' = [users EXCEPT ![first].admin = TRUE]

(* Between the storage service and the row: a row is left behind. *)
BrokenOff(hs) ==
    IF \E i \in hs : Held(i, "rmbucket", "row") THEN {"bucket"} ELSE {}

(* The client goes away, or the database refuses the save (it does when    *)
(* the address of a new user is taken): the request ends without it.       *)
Abandoned(i) ==
    /\ jobs[i] # Free
    /\ jobs[i].pc \notin {"exchange", "send", "ask", "convert"}
    /\ Ends(i)
    /\ blame' = blame \cup BrokenOff({i})
    /\ UNCHANGED <<users, born, oauth, gate, world, now, proved, boots, made, ops,
                   crashes>>

(* The process dies and is started again. *)
Restart ==
    /\ crashes < MaxCrashes
    /\ crashes' = crashes + 1
    /\ jobs' = [i \in Handlers |-> Free]
    /\ oauth' = {}
    /\ blame' = blame \cup BrokenOff(Handlers)
    /\ BootstrapAdmin
    /\ UNCHANGED <<born, gate, world, now, proved, boots, made, ops>>

-----------------------------------------------------------------------------
Init ==
    /\ config \in Configurations
    /\ users = [u \in Users |-> None]
    /\ born = [u \in Users |-> 0]
    /\ oauth = {}
    /\ jobs = [i \in Handlers |-> Free]
    /\ tokens = {} /\ visit = None
    /\ registries = {} /\ buckets = {} /\ store = FALSE
    /\ app = [u \in Users |-> None] /\ remote = {}
    /\ now = 0
    /\ proved = {} /\ boots = 0 /\ made = [u \in Users |-> 0] /\ blame = {}
    /\ ops = 0 /\ crashes = 0

Requests(i) ==
    \/ Register(i)
    \/ \E u \in Users : \/ ChangePassword(i, u) \/ DeleteGithubApp(i, u)
                        \/ GithubUnlink(i, u) \/ CreateGatePass(i, u)
                        \/ CreateBucket(i, u) \/ GithubAppCallback(i, u)
                        \/ CreateUser(i, u) \/ GetGithubApp(i, u)
                        \/ GetAppRepos(i, u) \/ GithubInstallCallback(i, u)
                        \/ GithubDisconnect(i, u) \/ CreateRegistry(i, u)
    \/ \E a, u \in Users : DeleteUser(i, a, u)
    \/ \E p \in Users \cup {"login"} : AuthorizeUrl(i, p)
    \/ \E s \in oauth, u \in Users : Callback(i, s, u)
    \/ \E b \in buckets : DeleteBucket(i, b) \/ RefreshSizes(i, b)
    \/ \E r \in registries : DeleteRegistry(i, r)

Steps(i) ==
    \/ RegisterSave(i) \/ CreateUserSave(i) \/ ChangePasswordSave(i)
    \/ DeleteUserRow(i) \/ GithubUnlinkSave(i) \/ GithubDisconnectSave(i)
    \/ \E g \in Identities : LinkOwner(i, g) \/ LoginOwner(i, g)
    \/ ExchangeFails(i) \/ LinkSave(i)
    \/ LoginDecide(i) \/ LoginSave(i) \/ LoginCreate(i)
    \/ CreateBucketSend(i) \/ CreateBucketSave(i)
    \/ DeleteBucketSend(i) \/ DeleteBucketRow(i) \/ StorageFails(i)
    \/ RefreshSizesSave(i) \/ CreateRegistrySave(i)
    \/ GithubAppCallbackSave(i) \/ ConversionFails(i)
    \/ SyncInstallationsSave(i) \/ GithubInstallCallbackSave(i)
    \/ ListInstallationsFails(i) \/ Abandoned(i)

Next ==
    \/ \E i \in Handlers : Requests(i) \/ Steps(i)
    \/ \E t \in tokens : GateCallback(t) \/ GateVisit(t)
    \/ Install
    \/ Tick
    \/ Restart

Spec == Init /\ [][Next]_vars

-----------------------------------------------------------------------------
UsersTyped ==
    /\ users \in [Users -> UserRow \cup {None}]
    /\ born \in [Users -> Nat] /\ boots \in Nat
    /\ \A s \in oauth : s.at \in 0 .. MaxTime /\ s.purpose \in Users \cup {"login"}

(* Rows of users that exist. *)
Owned(rows) == rows \subseteq OwnedRow /\ \A b \in rows : Exists(b.u)

AppsTyped ==
    /\ app \in [Users -> AppRow \cup {None}] /\ made \in [Users -> Nat]
    /\ remote \subseteq {1}
    /\ \A u \in Users : app[u] # None => app[u].inst \subseteq remote

(* The rows have their types, and those of buckets and credentials a user. *)
TypeOK ==
    /\ UsersTyped /\ AppsTyped
    /\ Owned(buckets) /\ Owned(registries) /\ store \in BOOLEAN
    /\ jobs = [i \in Handlers |-> jobs[i]]
    /\ ops \in 0 .. MaxOps /\ now \in 0 .. MaxTime

(* register, delete_user and bootstrap_admin_user: unless two requests     *)
(* made a first administrator at the same time, there is an administrator  *)
(* as long as there are users; and whatever happened before, a restart     *)
(* leaves one.                                                             *)
AdminSurvives ==
    /\ [](boots <= 1 /\ Rows # {} => \E u \in Rows : users[u].admin)
    /\ [][crashes' # crashes /\ (\E u \in Users : users'[u] # None) =>
             \E u \in Users : users'[u] # None /\ users'[u].admin]_vars

(* github_callback ("a link must finish in the session that started it"):  *)
(* an account carries a GitHub identity only if that identity was shown in *)
(* a flow the account's own user began, and a token only with an identity. *)
LinkedByOwner ==
    \A u \in Rows :
        /\ users[u].gh # None => <<u, users[u].gh>> \in proved
        /\ users[u].token => users[u].gh # None

(* unlink_github and change_password: every account keeps a way to sign    *)
(* in, whichever copies of its row are saved.                              *)
CanSignIn == \A u \in Rows : users[u].pw # None \/ users[u].gh # None

(* enforce_login_gate: a visit is let through at most a pass, a session    *)
(* and their tolerances after the dashboard last saw the user.             *)
AccessExpires ==
    visit # None => visit.age <= PassLife + SessionLife + 2 * Leeway

(* No older copy of a user's row was saved, and no two sign-ins with one   *)
(* GitHub account overlapped.                                              *)
InTurn == {"user", "owner"} \cap blame = {}

(* link_github ("a github account can belong to one containr user only"):  *)
(* holds as long as no request saves an older copy of a user's row, and no *)
(* two sign-ins with one GitHub account overlap between the lookup of its  *)
(* owner and their saves.                                                  *)
OneOwner ==
    InTurn =>
        \A g \in Identities : \A u, v \in Owner(g) : u = v

(* Who may sign in as whom: identities are linked by their owners, to one  *)
(* account each, and nobody is locked out (handlers/auth.rs).              *)
SignInSound == LinkedByOwner /\ OneOwner /\ CanSignIn

(* create_bucket and delete_bucket: a row means a bucket, except while one *)
(* is being removed, after that was broken off or done twice at a time,    *)
(* and when a size refresh saved the row again.                            *)
RowHasBucket ==
    buckets # {} /\ "bucket" \notin blame =>
        store \/ \E i \in Handlers : Held(i, "rmbucket", "row")

(* save_github_app ("a re-created app isn't shadowed by the old            *)
(* credentials"): the app a user was told of last is the one that counts,  *)
(* unless two callbacks of the user overlapped or a refresh of the         *)
(* installations saved the copy it had read before.                        *)
NewestAppCounts ==
    "app" \notin blame =>
        \A u \in Users : app[u] # None => app[u].id = made[u]

(* create_registry ("credentials for ... are already saved"): which        *)
(* credentials an image is pulled with is never ambiguous, unless two      *)
(* requests saved them at the same time.                                   *)
RegistryUnambiguous ==
    "registry" \notin blame =>
        \A u \in Users : \A q, r \in MatchingRegistries(u) : q = r

(* Buckets, GitHub apps and registry credentials: the rows say what the    *)
(* services behind them have, as far as no stale copy was saved.           *)
RowsMatchServices ==
    TypeOK /\ RowHasBucket /\ NewestAppCounts /\ RegistryUnambiguous

-----------------------------------------------------------------------------
(* The inductive invariant behind them *)

(* Whoever has a row was created. *)
RowsBorn == \A u \in Rows : born[u] # 0

(* The requests with a copy of a user's row. *)
CopyOps == {"password", "link", "unlink", "disconnect", "login"}

HoldsCopy(j) == j.op \in CopyOps /\ j.row # None

(* The copies of user rows that handlers hold are as sound as the rows,    *)
(* and an identity that is to be linked was shown.                         *)
CopySound(j) ==
    /\ j.op = "delete" => j.u \in Users
    /\ j.op \in CopyOps \ {"login"} => j.row # None
    /\ j.op = "login" => (j.row # None <=> j.u # None)
    /\ HoldsCopy(j) =>
          /\ j.u \in Users /\ j.row \in UserRow
          /\ j.row.gh # None => <<j.u, j.row.gh>> \in proved
          /\ j.row.token => j.row.gh # None
          /\ j.row.pw # None \/ j.row.gh # None
    /\ j.op = "unlink" => j.row.pw # None
    /\ j.op = "link" /\ j.pc = "exchange" => j.arg = j.u
    /\ j.op = "link" /\ j.pc # "exchange" =>
          j.arg \in Identities /\ <<j.u, j.arg>> \in proved
    /\ j.op = "login" /\ j.pc # "exchange" =>
          j.arg \in Identities /\ (j.u # None => j.row.gh = j.arg)

CopiesSound == \A i \in Handlers : CopySound(jobs[i])

(* Nobody but the account that is about to be saved has its GitHub         *)
(* account, and only one request is about to save it.                      *)
DecidesAlone ==
    InTurn =>
        \A i \in Handlers : Deciding(i) =>
            /\ Owner(jobs[i].arg) \subseteq {jobs[i].u}
            /\ \A j \in Handlers :
                  Deciding(j) /\ jobs[j].arg = jobs[i].arg => j = i

(* A request that gives nobody but a the rights of an administrator, takes *)
(* none from a and does not remove a.                                      *)
KeepsAdmin(j, a) ==
    /\ HoldsCopy(j) => (j.row.admin <=> j.u = a) /\ j.pc # "promote"
    /\ j.op = "delete" => j.u # a

AdminIs(a) ==
    /\ \A u \in Rows : users[u].admin <=> u = a
    /\ \A i \in Handlers : KeepsAdmin(jobs[i], a)

(* Requests there are only once there is somebody. *)
NeedsUser(j) == HoldsCopy(j) \/ j.op \in {"create", "delete"}

(* Before the first administrator there is nobody, and a single first      *)
(* administrator stays the only one.                                       *)
OneAdmin ==
    /\ boots = 0 => Rows = {} /\ \A i \in Handlers : ~NeedsUser(jobs[i])
    /\ boots = 1 => \E a \in Rows : AdminIs(a)

(* A pass lives from its grant, a session from the trade for the pass. *)
TokensBounded ==
    /\ \A t \in tokens :
          /\ t.kind \in {"pass", "session"}
          /\ t.u \in Users /\ t.exp \in Nat /\ t.grant \in Nat
          /\ t.exp <= t.grant + PassLife + IF t.kind = "pass" THEN 0
                                           ELSE Leeway + SessionLife
    /\ visit # None => visit.age \in Int

(* A row whose bucket nobody has removed yet. *)
Loose(b) ==
    \A i \in Handlers : Held(i, "rmbucket", "row") => jobs[i].row # b

(* One bucket of the name is accounted for at most: by a row, or by the    *)
(* request that made it and has still to save its row.                     *)
OneBucket ==
    "bucket" \notin blame =>
        /\ \A b, c \in buckets : Loose(b) /\ Loose(c) => b = c
        /\ \A b \in buckets : Loose(b) => store
        /\ \A i \in Handlers : Held(i, "mkbucket", "save") =>
              /\ store
              /\ \A b \in buckets : ~Loose(b)
              /\ \A j \in Handlers : Held(j, "mkbucket", "save") => j = i
        /\ \A i \in Handlers : Held(i, "rmbucket", "send") =>
              /\ store
              /\ \A b \in buckets : Loose(b) => b = jobs[i].row
              /\ \A j \in Handlers : /\ ~Held(j, "mkbucket", "save")
                                     /\ Held(j, "rmbucket", "send") => j = i

(* A request that saves credentials is the user's only one, and there are  *)
(* none yet.                                                               *)
OneRegistry ==
    "registry" \notin blame =>
        \A i \in Handlers : jobs[i].op = "mkregistry" =>
            /\ MatchingRegistries(jobs[i].u) = {}
            /\ \A j \in Handlers :
                  jobs[j].op = "mkregistry" /\ jobs[j].u = jobs[i].u => j = i

BucketJobs ==
    \A i \in Handlers :
        /\ jobs[i].op = "mkbucket" => jobs[i].u \in Users /\ jobs[i].arg \in Nat
        /\ jobs[i].op \in {"rmbucket", "sizes"} => jobs[i].row \in OwnedRow

RegistryJobs ==
    \A i \in Handlers :
        jobs[i].op = "mkregistry" => jobs[i].u \in Users /\ jobs[i].arg \in Nat

AppJobs ==
    \A i \in Handlers :
        /\ jobs[i].op \in {"sync", "installed"} =>
              /\ jobs[i].u \in Users /\ jobs[i].row \in AppRow
              /\ jobs[i].row.inst \subseteq remote
        /\ jobs[i].op = "mkapp" => jobs[i].u \in Users /\ jobs[i].arg \in 0 .. ops

(* A callback in progress is the user's only one, and the last. *)
OneCallback ==
    "app" \notin blame =>
        \A i \in Handlers : jobs[i].op = "mkapp" =>
            /\ made[jobs[i].u] <= jobs[i].arg
            /\ \A j \in Handlers :
                  jobs[j].op = "mkapp" /\ jobs[j].u = jobs[i].u => j = i

(* Apps are numbered by the request that made them. *)
MadeBefore == \A u \in Users : made[u] \in 0 .. ops

AccountsInv ==
    /\ UsersTyped /\ RowsBorn /\ CopiesSound /\ DecidesAlone /\ OneAdmin
    /\ SignInSound

GateInv == now \in 0 .. MaxTime /\ TokensBounded /\ AccessExpires

BucketInv == Owned(buckets) /\ store \in BOOLEAN /\ BucketJobs /\ OneBucket

RegistryInv ==
    Owned(registries) /\ RegistryJobs /\ OneRegistry /\ RegistryUnambiguous

AppInv ==
    /\ AppsTyped /\ AppJobs /\ OneCallback /\ MadeBefore /\ NewestAppCounts

HandlersInv == jobs = [i \in Handlers |-> jobs[i]] /\ ops \in 0 .. MaxOps

IInv ==
    /\ AccountsInv /\ GateInv /\ BucketInv /\ RegistryInv /\ AppInv
    /\ HandlersInv
=============================================================================
