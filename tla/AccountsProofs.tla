--------------------------- MODULE AccountsProofs ---------------------------
(***************************************************************************)
(* Accounts and what hangs on them, for any users, any number of requests  *)
(* at a time and any lifetimes.  The invariant has one part per family of  *)
(* actions; a step of one family leaves the parts of the others alone.     *)
(***************************************************************************)
EXTENDS Accounts, FiniteSetTheorems, NaturalsInduction, WellFoundedInduction,
        TLAPS

-----------------------------------------------------------------------------
(* Handlers *)

AccountOps == CopyOps \cup {"register", "create", "delete"}
BucketOps == {"mkbucket", "rmbucket", "sizes"}
RegistryOps == {"mkregistry"}
AppOps == {"sync", "installed", "mkapp"}

\* A step changes only handlers that do, or begin or end to do, one of ops.
JobsWithin(S) ==
  \A j \in Handlers : \/ jobs'[j] = jobs[j]
                      \/ /\ jobs[j].op \in S \cup {"none"}
                         /\ jobs'[j].op \in S \cup {"none"}

\* A handler's job is replaced, and the others stay.
LEMMA JobUpdate ==
  ASSUME HandlersInv, NEW i \in Handlers, NEW job, GoesOn(i, job)
  PROVE  /\ jobs' = [j \in Handlers |-> jobs'[j]]
         /\ \A j \in Handlers : jobs'[j] = IF j = i THEN job ELSE jobs[j]
BY DEF HandlersInv, GoesOn

\* A new request finds the handler free and counts.
LEMMA BeginsFacts ==
  ASSUME HandlersInv, NEW i \in Handlers, NEW job, Begins(i, job)
  PROVE  /\ HandlersInv'
         /\ jobs[i].op = "none"
         /\ \A j \in Handlers : jobs'[j] = IF j = i THEN job ELSE jobs[j]
         /\ ops \in Nat
<1>1. GoesOn(i, job) /\ jobs[i] = Free /\ ops < MaxOps /\ ops' = ops + 1
  BY DEF Begins
<1>2. /\ jobs' = [j \in Handlers |-> jobs'[j]]
      /\ \A j \in Handlers : jobs'[j] = IF j = i THEN job ELSE jobs[j]
  BY <1>1, JobUpdate
<1>3. ops' \in 0 .. MaxOps /\ ops \in Nat
  BY <1>1, AccountsAssumption DEF HandlersInv
<1>4. jobs[i].op = "none"
  BY <1>1 DEF Free, Job
<1>5. QED
  BY <1>2, <1>3, <1>4 DEF HandlersInv

\* A request goes on or ends.
LEMMA GoesOnFacts ==
  ASSUME HandlersInv, NEW i \in Handlers, NEW job, GoesOn(i, job), ops' = ops
  PROVE  /\ HandlersInv'
         /\ \A j \in Handlers : jobs'[j] = IF j = i THEN job ELSE jobs[j]
<1>1. /\ jobs' = [j \in Handlers |-> jobs'[j]]
      /\ \A j \in Handlers : jobs'[j] = IF j = i THEN job ELSE jobs[j]
  BY JobUpdate
<1>2. QED
  BY <1>1 DEF HandlersInv

\* A request ends.
LEMMA EndsFacts ==
  ASSUME HandlersInv, NEW i \in Handlers, Ends(i), ops' = ops
  PROVE  /\ HandlersInv'
         /\ \A j \in Handlers : jobs'[j] = IF j = i THEN Free ELSE jobs[j]
BY GoesOnFacts DEF Ends

-----------------------------------------------------------------------------
(* The login gate *)

\* Steps beside the gate.
LEMMA GateQuiet ==
  ASSUME GateInv, UNCHANGED <<gate, now>>
  PROVE  GateInv'
BY DEF GateInv, gate, TokensBounded, AccessExpires

\* A pass is given out, traded for a session or a session is used: what a token is
\* good for is bounded by the time the dashboard saw its user.
LEMMA GateStep ==
  ASSUME GateInv,
         \/ \E i \in Handlers, u \in Users : CreateGatePass(i, u)
         \/ \E t \in tokens : GateCallback(t) \/ GateVisit(t)
         \/ Tick
  PROVE  GateInv'
<1>1. /\ now \in Nat /\ MaxTime \in Nat
      /\ PassLife \in Nat /\ SessionLife \in Nat /\ Leeway \in Nat
  BY AccountsAssumption DEF GateInv
<1>2. ASSUME NEW i \in Handlers, NEW u \in Users, CreateGatePass(i, u)
      PROVE  GateInv'
  <2> DEFINE new == [kind |-> "pass", u |-> u, exp |-> now + PassLife, grant |-> now]
  <2>1. tokens' = tokens \cup {new} /\ UNCHANGED <<visit, now>>
    BY <1>2 DEF CreateGatePass
  <2>2. /\ new.kind = "pass" /\ new.u \in Users
        /\ new.exp \in Nat /\ new.grant \in Nat /\ new.exp <= new.grant + PassLife + 0
    BY <1>1
  <2> HIDE DEF new
  <2>3. QED
    BY <2>1, <2>2 DEF GateInv, TokensBounded, AccessExpires
<1>3. ASSUME NEW t \in tokens, GateCallback(t)
      PROVE  GateInv'
  <2> DEFINE new == [kind |-> "session", u |-> t.u, exp |-> now + SessionLife,
                     grant |-> t.grant]
  <2>1. tokens' = tokens \cup {new} /\ UNCHANGED <<visit, now>>
    BY <1>3 DEF GateCallback
  <2>2. /\ t.u \in Users /\ t.exp \in Nat /\ t.grant \in Nat
        /\ t.exp <= t.grant + PassLife + 0 /\ now <= t.exp + Leeway
    BY <1>3 DEF GateInv, TokensBounded, GateCallback, Verifies
  <2>3. /\ new.kind = "session" /\ new.u \in Users
        /\ new.exp \in Nat /\ new.grant \in Nat
        /\ new.exp <= new.grant + PassLife + (Leeway + SessionLife)
    BY <1>1, <2>2
  <2> HIDE DEF new
  <2>4. QED
    BY <2>1, <2>3 DEF GateInv, TokensBounded, AccessExpires
<1>4. ASSUME NEW t \in tokens, GateVisit(t)
      PROVE  GateInv'
  <2>1. visit' = [u |-> t.u, age |-> now - t.grant] /\ UNCHANGED <<tokens, now>>
    BY <1>4 DEF GateVisit
  <2>2. /\ t.exp \in Nat /\ t.grant \in Nat
        /\ t.exp <= t.grant + PassLife + (Leeway + SessionLife)
        /\ now <= t.exp + Leeway
    BY <1>4 DEF GateInv, TokensBounded, GateVisit, Verifies
  <2>3. visit'.age \in Int /\ visit'.age <= PassLife + SessionLife + 2 * Leeway
    BY <1>1, <2>1, <2>2
  <2>4. QED
    BY <2>1, <2>3 DEF GateInv, TokensBounded, AccessExpires
<1>5. ASSUME Tick
      PROVE  GateInv'
  <2>1. UNCHANGED <<tokens, visit>> /\ now' = now + 1 /\ now < MaxTime
    BY <1>5 DEF Tick, gate
  <2>2. now' \in 0 .. MaxTime
    BY <1>1, <2>1
  <2>3. QED
    BY <2>1, <2>2 DEF GateInv, TokensBounded, AccessExpires
<1>6. QED
  BY <1>2, <1>3, <1>4, <1>5

-----------------------------------------------------------------------------
(* Credentials of a registry *)

\* Steps that add no credentials: credentials go, with their users or without, and
\* requests for them end.
LEMMA RegistryQuiet ==
  ASSUME RegistryInv,
         \A j \in Handlers : jobs'[j] = jobs[j] \/ jobs'[j].op # "mkregistry",
         registries' \subseteq registries,
         \A r \in registries' : Exists(r.u)',
         "registry" \notin blame' => "registry" \notin blame
  PROVE  RegistryInv'
<1>1. Owned(registries)' /\ RegistryJobs'
  BY DEF RegistryInv, Owned, RegistryJobs
<1>2. \A u : MatchingRegistries(u)' \subseteq MatchingRegistries(u)
  BY DEF MatchingRegistries
<1>3. OneRegistry'
  BY <1>2 DEF RegistryInv, OneRegistry
<1>4. RegistryUnambiguous'
  BY <1>2 DEF RegistryInv, RegistryUnambiguous
<1>5. QED
  BY <1>1, <1>3, <1>4 DEF RegistryInv

\* create_registry begins only when there are no credentials yet.
LEMMA CreateRegistryStep ==
  ASSUME RegistryInv, HandlersInv, NEW i \in Handlers, NEW u \in Users,
         CreateRegistry(i, u)
  PROVE  RegistryInv' /\ HandlersInv' /\ JobsWithin(RegistryOps)
<1> DEFINE job == Job("mkregistry", "encrypt", u, ops, None)
<1>1. /\ Begins(i, job) /\ MatchingRegistries(u) = {}
      /\ UNCHANGED <<users, registries>>
      /\ blame' = blame \cup
           IF \E j \in Handlers : jobs[j].op = "mkregistry" /\ jobs[j].u = u
           THEN {"registry"} ELSE {}
  BY DEF CreateRegistry, MaySaveRegistry, world
<1>2. job.op = "mkregistry" /\ job.u = u /\ job.arg = ops
  BY DEF Job
<1> HIDE DEF job
<1>3. /\ HandlersInv' /\ jobs[i].op = "none" /\ ops \in Nat
      /\ \A j \in Handlers : jobs'[j] = IF j = i THEN job ELSE jobs[j]
  BY <1>1, BeginsFacts
<1>4. JobsWithin(RegistryOps)
  BY <1>2, <1>3 DEF JobsWithin, RegistryOps
<1>5. Owned(registries)' /\ RegistryJobs'
  BY <1>1, <1>2, <1>3 DEF RegistryInv, Owned, RegistryJobs, Exists
<1>6. \A v : MatchingRegistries(v)' = MatchingRegistries(v)
  BY <1>1 DEF MatchingRegistries
<1>7. RegistryUnambiguous'
  BY <1>1, <1>6 DEF RegistryInv, RegistryUnambiguous
<1>8. OneRegistry'
  <2> SUFFICES ASSUME "registry" \notin blame',
                      NEW a \in Handlers, jobs'[a].op = "mkregistry"
               PROVE  /\ MatchingRegistries(jobs'[a].u) = {}
                      /\ \A b \in Handlers :
                            jobs'[b].op = "mkregistry" /\ jobs'[b].u = jobs'[a].u => b = a
    BY <1>1 DEF OneRegistry, MatchingRegistries
  <2>1. "registry" \notin blame
        /\ ~ \E j \in Handlers : jobs[j].op = "mkregistry" /\ jobs[j].u = u
    BY <1>1
  <2>2. CASE a = i
    BY <1>1, <1>2, <1>3, <2>1, <2>2
  <2>3. CASE a # i
    BY <1>2, <1>3, <2>1, <2>3 DEF RegistryInv, OneRegistry
  <2>4. QED
    BY <2>2, <2>3
<1>9. QED
  BY <1>3, <1>4, <1>5, <1>7, <1>8 DEF RegistryInv

\* The row is saved when its user is still there.
LEMMA CreateRegistrySaveStep ==
  ASSUME RegistryInv, HandlersInv, NEW i \in Handlers, CreateRegistrySave(i)
  PROVE  RegistryInv' /\ HandlersInv' /\ JobsWithin(RegistryOps)
<1> DEFINE new == [id |-> jobs[i].arg, u |-> jobs[i].u]
<1>1. /\ jobs[i].op = "mkregistry" /\ Ends(i) /\ ops' = ops
      /\ UNCHANGED <<users, blame>>
      /\ \/ registries' = registries
         \/ Exists(jobs[i].u) /\ registries' = registries \cup {new}
  BY DEF CreateRegistrySave, Held, ghosts
<1>2. /\ HandlersInv'
      /\ \A j \in Handlers : jobs'[j] = IF j = i THEN Free ELSE jobs[j]
  BY <1>1, EndsFacts
<1>3. Free.op = "none"
  BY DEF Free, Job
<1>4. JobsWithin(RegistryOps)
  BY <1>1, <1>2, <1>3 DEF JobsWithin, RegistryOps
<1>5. CASE registries' = registries
  <2>1. RegistryInv'
    BY <1>1, <1>2, <1>3, <1>5, RegistryQuiet DEF RegistryInv, Owned, Exists
  <2>2. QED
    BY <1>2, <1>4, <2>1
<1>6. CASE Exists(jobs[i].u) /\ registries' = registries \cup {new}
  <2>1. new \in OwnedRow /\ new.u = jobs[i].u
    BY <1>1 DEF RegistryInv, RegistryJobs, OwnedRow
  <2> HIDE DEF new
  <2>2. Owned(registries)' /\ RegistryJobs'
    BY <1>1, <1>2, <1>3, <1>6, <2>1 DEF RegistryInv, Owned, RegistryJobs, Exists
  <2>3. \A v : MatchingRegistries(v)' =
                 MatchingRegistries(v) \cup IF v = jobs[i].u THEN {new} ELSE {}
    BY <1>6, <2>1 DEF MatchingRegistries
  <2>4. "registry" \notin blame =>
          /\ MatchingRegistries(jobs[i].u) = {}
          /\ \A j \in Handlers :
                jobs[j].op = "mkregistry" /\ jobs[j].u = jobs[i].u => j = i
    BY <1>1 DEF RegistryInv, OneRegistry
  <2>5. RegistryUnambiguous'
    BY <1>1, <2>3, <2>4 DEF RegistryInv, RegistryUnambiguous
  <2>6. OneRegistry'
    BY <1>1, <1>2, <1>3, <2>3, <2>4 DEF RegistryInv, OneRegistry
  <2>7. QED
    BY <1>2, <1>4, <2>2, <2>5, <2>6 DEF RegistryInv
<1>7. QED
  BY <1>1, <1>5, <1>6

\* Credentials are deleted.
LEMMA DeleteRegistryStep ==
  ASSUME RegistryInv, HandlersInv, NEW i \in Handlers, NEW r \in registries,
         DeleteRegistry(i, r)
  PROVE  RegistryInv' /\ HandlersInv' /\ JobsWithin(RegistryOps)
<1>1. /\ Begins(i, Free) /\ registries' = registries \ {r}
      /\ UNCHANGED <<users, blame>>
  BY DEF DeleteRegistry, ghosts
<1>2. /\ HandlersInv' /\ jobs[i].op = "none"
      /\ \A j \in Handlers : jobs'[j] = IF j = i THEN Free ELSE jobs[j]
  BY <1>1, BeginsFacts
<1>3. Free.op = "none"
  BY DEF Free, Job
<1>4. JobsWithin(RegistryOps)
  BY <1>2, <1>3 DEF JobsWithin
<1>5. RegistryInv'
  BY <1>1, <1>2, <1>3, RegistryQuiet DEF RegistryInv, Owned, Exists
<1>6. QED
  BY <1>2, <1>4, <1>5

-----------------------------------------------------------------------------
(* The GitHub app of a user *)

\* Steps that save no app: apps go, installations are added at GitHub, requests
\* end.
LEMMA AppQuiet ==
  ASSUME AppInv, ops \in Nat, ops' \in Nat, ops <= ops',
         \A j \in Handlers : jobs'[j] = jobs[j] \/ jobs'[j].op \notin AppOps,
         app' \in [Users -> AppRow \cup {None}],
         \A u \in Users : app'[u] = app[u] \/ app'[u] = None,
         remote \subseteq remote', remote' \subseteq {1}, UNCHANGED made,
         "app" \notin blame' => "app" \notin blame
  PROVE  AppInv'
<1>1. AppsTyped'
  BY DEF AppInv, AppsTyped
<1>2. AppJobs'
  <2> SUFFICES ASSUME NEW j \in Handlers, jobs'[j] = jobs[j]
               PROVE  /\ jobs[j].op \in {"sync", "installed"} =>
                            /\ jobs[j].u \in Users /\ jobs[j].row \in AppRow
                            /\ jobs[j].row.inst \subseteq remote'
                      /\ jobs[j].op = "mkapp" => jobs[j].u \in Users /\ jobs[j].arg \in 0 .. ops'
    BY DEF AppJobs, AppOps
  <2>1. jobs[j].op \in {"sync", "installed"} =>
           /\ jobs[j].u \in Users /\ jobs[j].row \in AppRow
           /\ jobs[j].row.inst \subseteq remote'
    BY DEF AppInv, AppJobs
  <2>2. jobs[j].op = "mkapp" => jobs[j].u \in Users /\ jobs[j].arg \in 0 .. ops'
    BY DEF AppInv, AppJobs
  <2>3. QED
    BY <2>1, <2>2
<1>3. NewestAppCounts'
  BY DEF AppInv, NewestAppCounts
<1>4. MadeBefore'
  BY DEF AppInv, MadeBefore
<1>5. OneCallback'
  BY DEF AppInv, OneCallback, AppOps
<1>6. QED
  BY <1>1, <1>2, <1>3, <1>4, <1>5 DEF AppInv

\* github_app_callback begins: with the only one of the user in progress, it is the
\* last.
LEMMA GithubAppCallbackStep ==
  ASSUME AppInv, HandlersInv, NEW i \in Handlers, NEW u \in Users,
         GithubAppCallback(i, u)
  PROVE  AppInv' /\ HandlersInv' /\ JobsWithin(AppOps)
<1> DEFINE job == Job("mkapp", "convert", u, ops, None)
<1>1. /\ Begins(i, job) /\ UNCHANGED <<app, made, remote>>
      /\ blame' = blame \cup IF Creating(u) THEN {"app"} ELSE {}
  BY DEF GithubAppCallback, world
<1>2. job.op = "mkapp" /\ job.u = u /\ job.arg = ops
  BY DEF Job
<1> HIDE DEF job
<1>3. /\ HandlersInv' /\ jobs[i].op = "none" /\ ops \in Nat /\ ops' = ops + 1
      /\ \A j \in Handlers : jobs'[j] = IF j = i THEN job ELSE jobs[j]
  BY <1>1, BeginsFacts DEF Begins
<1>4. JobsWithin(AppOps)
  BY <1>2, <1>3 DEF JobsWithin, AppOps
<1>5. AppsTyped' /\ NewestAppCounts' /\ MadeBefore'
  BY <1>1, <1>3 DEF AppInv, AppsTyped, NewestAppCounts, MadeBefore
<1>6. AppJobs'
  <2> SUFFICES ASSUME NEW j \in Handlers
               PROVE  /\ jobs'[j].op \in {"sync", "installed"} =>
                            /\ jobs'[j].u \in Users /\ jobs'[j].row \in AppRow
                            /\ jobs'[j].row.inst \subseteq remote
                      /\ jobs'[j].op = "mkapp" =>
                            jobs'[j].u \in Users /\ jobs'[j].arg \in 0 .. ops'
    BY <1>1 DEF AppJobs
  <2>1. CASE j = i
    BY <1>2, <1>3, <2>1
  <2>2. CASE j # i
    BY <1>3, <2>2 DEF AppInv, AppJobs
  <2>3. QED
    BY <2>1, <2>2
<1>7. OneCallback'
  <2> SUFFICES ASSUME "app" \notin blame', NEW a \in Handlers, jobs'[a].op = "mkapp"
               PROVE  /\ made[jobs'[a].u] <= jobs'[a].arg
                      /\ \A b \in Handlers :
                            jobs'[b].op = "mkapp" /\ jobs'[b].u = jobs'[a].u => b = a
    BY <1>1 DEF OneCallback
  <2>1. "app" \notin blame /\ ~Creating(u)
    BY <1>1
  <2>2. \A j \in Handlers : jobs[j].op = "mkapp" => jobs[j].u # u
    BY <2>1 DEF Creating
  <2>3. CASE a = i
    <3>1. made[u] <= ops
      BY <1>3 DEF AppInv, MadeBefore
    <3>2. QED
      BY <1>2, <1>3, <2>2, <2>3, <3>1
  <2>4. CASE a # i
    BY <1>2, <1>3, <2>1, <2>2, <2>4 DEF AppInv, OneCallback
  <2>5. QED
    BY <2>3, <2>4
<1>8. QED
  BY <1>3, <1>4, <1>5, <1>6, <1>7 DEF AppInv

\* The app that was made is saved: without an overlap, the user was told of no later
\* one.
LEMMA GithubAppCallbackSaveStep ==
  ASSUME AppInv, HandlersInv, NEW i \in Handlers, GithubAppCallbackSave(i)
  PROVE  AppInv' /\ HandlersInv' /\ JobsWithin(AppOps)
<1> DEFINE u == jobs[i].u  id == jobs[i].arg
           new == [id |-> id, inst |-> {}]
           last == IF made[u] > id THEN made[u] ELSE id
<1>1. /\ jobs[i].op = "mkapp" /\ Ends(i) /\ ops' = ops /\ UNCHANGED <<remote, blame>>
      /\ \/ UNCHANGED <<app, made>>
         \/ app' = [app EXCEPT ![u] = new] /\ made' = [made EXCEPT ![u] = last]
  BY DEF GithubAppCallbackSave, SaveGithubApp, Held
<1>2. /\ HandlersInv'
      /\ \A j \in Handlers : jobs'[j] = IF j = i THEN Free ELSE jobs[j]
  BY <1>1, EndsFacts
<1>3. Free.op = "none" /\ ops \in Nat
  BY AccountsAssumption DEF Free, Job, HandlersInv
<1>4. JobsWithin(AppOps)
  BY <1>1, <1>2, <1>3 DEF JobsWithin, AppOps
<1>5. u \in Users /\ id \in 0 .. ops /\ made[u] \in 0 .. ops
  BY <1>1 DEF AppInv, AppJobs, MadeBefore
<1>6. AppJobs'
  BY <1>1, <1>2, <1>3 DEF AppInv, AppJobs
<1>7. CASE UNCHANGED <<app, made>>
  <2>1. AppsTyped' /\ NewestAppCounts' /\ MadeBefore'
    BY <1>1, <1>7 DEF AppInv, AppsTyped, NewestAppCounts, MadeBefore
  <2>2. OneCallback'
    BY <1>1, <1>2, <1>3, <1>7 DEF AppInv, OneCallback
  <2>3. QED
    BY <1>2, <1>4, <1>6, <2>1, <2>2 DEF AppInv
<1>8. CASE app' = [app EXCEPT ![u] = new] /\ made' = [made EXCEPT ![u] = last]
  <2>1. last \in 0 .. ops /\ last \in Nat
    BY <1>3, <1>5
  <2>2. new \in AppRow /\ new.id = id /\ new.inst = {}
    BY <1>3, <1>5 DEF AppRow
  <2>3. "app" \notin blame => /\ last = id
                              /\ \A j \in Handlers :
                                    jobs[j].op = "mkapp" /\ jobs[j].u = u => j = i
    BY <1>1, <1>3, <1>5 DEF AppInv, OneCallback
  <2> HIDE DEF new, last
  <2>4. /\ \A v \in Users : /\ app'[v] = IF v = u THEN new ELSE app[v]
                            /\ made'[v] = IF v = u THEN last ELSE made[v]
        /\ app' \in [Users -> AppRow \cup {None}] /\ made' \in [Users -> Nat]
    BY <1>5, <1>8, <2>1, <2>2 DEF AppInv, AppsTyped
  <2>5. AppsTyped'
    BY <1>1, <2>2, <2>4 DEF AppInv, AppsTyped
  <2>6. NewestAppCounts'
    BY <1>1, <1>5, <2>2, <2>3, <2>4 DEF AppInv, NewestAppCounts
  <2>7. MadeBefore'
    BY <1>1, <2>1, <2>4 DEF AppInv, MadeBefore
  <2>8. OneCallback'
    <3> SUFFICES ASSUME "app" \notin blame, NEW a \in Handlers, a # i,
                        jobs[a].op = "mkapp"
                 PROVE  /\ made'[jobs[a].u] <= jobs[a].arg
                        /\ \A b \in Handlers :
                              b # i /\ jobs[b].op = "mkapp" /\ jobs[b].u = jobs[a].u => b = a
      BY <1>1, <1>2, <1>3 DEF OneCallback
    <3>1. jobs[a].u # u /\ jobs[a].u \in Users
      BY <2>3 DEF AppInv, AppJobs
    <3>2. made'[jobs[a].u] = made[jobs[a].u]
      BY <2>4, <3>1
    <3>3. QED
      BY <3>2 DEF AppInv, OneCallback
  <2>9. QED
    BY <1>2, <1>4, <1>6, <2>5, <2>6, <2>7, <2>8 DEF AppInv
<1>9. QED
  BY <1>1, <1>7, <1>8

\* The installations are asked for with a copy of the row in hand.
LEMMA AskStep ==
  ASSUME AppInv, HandlersInv, NEW i \in Handlers, NEW u \in Users,
         NEW op \in {"sync", "installed"}, app[u] # None,
         Begins(i, Job(op, "ask", u, None, app[u])),
         UNCHANGED <<app, made, remote, blame>>
  PROVE  AppInv' /\ HandlersInv' /\ JobsWithin(AppOps)
<1> DEFINE job == Job(op, "ask", u, None, app[u])
<1>1. job.op = op /\ job.u = u /\ job.row = app[u]
  BY DEF Job
<1> HIDE DEF job
<1>2. /\ HandlersInv' /\ jobs[i].op = "none" /\ ops \in Nat /\ ops' = ops + 1
      /\ \A j \in Handlers : jobs'[j] = IF j = i THEN job ELSE jobs[j]
  BY BeginsFacts DEF job, Begins
<1>3. JobsWithin(AppOps)
  BY <1>1, <1>2 DEF JobsWithin, AppOps
<1>4. AppsTyped' /\ NewestAppCounts' /\ MadeBefore'
  BY <1>2 DEF AppInv, AppsTyped, NewestAppCounts, MadeBefore
<1>5. app[u] \in AppRow /\ app[u].inst \subseteq remote
  BY DEF AppInv, AppsTyped
<1>6. AppJobs'
  <2> SUFFICES ASSUME NEW j \in Handlers
               PROVE  /\ jobs'[j].op \in {"sync", "installed"} =>
                            /\ jobs'[j].u \in Users /\ jobs'[j].row \in AppRow
                            /\ jobs'[j].row.inst \subseteq remote
                      /\ jobs'[j].op = "mkapp" =>
                            jobs'[j].u \in Users /\ jobs'[j].arg \in 0 .. ops'
    BY DEF AppJobs
  <2>1. CASE j = i
    BY <1>1, <1>2, <1>5, <2>1
  <2>2. CASE j # i
    BY <1>2, <2>2 DEF AppInv, AppJobs
  <2>3. QED
    BY <2>1, <2>2
<1>7. OneCallback'
  BY <1>1, <1>2 DEF AppInv, OneCallback
<1>8. QED
  BY <1>2, <1>3, <1>4, <1>6, <1>7 DEF AppInv

\* The copy is saved with the installations GitHub has.
LEMMA SaveAppStep ==
  ASSUME AppInv, HandlersInv, NEW i \in Handlers,
         jobs[i].op \in {"sync", "installed"},
         Ends(i), ops' = ops, UNCHANGED <<made, remote>>,
         \/ UNCHANGED <<app, blame>>
         \/ \E inst \in SUBSET remote :
               /\ app' = [app EXCEPT ![jobs[i].u] = [jobs[i].row EXCEPT !.inst = inst]]
               /\ blame' = blame \cup IF app[jobs[i].u] = jobs[i].row THEN {} ELSE {"app"}
  PROVE  AppInv' /\ HandlersInv' /\ JobsWithin(AppOps)
<1>1. /\ HandlersInv'
      /\ \A j \in Handlers : jobs'[j] = IF j = i THEN Free ELSE jobs[j]
  BY EndsFacts
<1>2. Free.op = "none"
  BY DEF Free, Job
<1>3. JobsWithin(AppOps)
  BY <1>1, <1>2 DEF JobsWithin, AppOps
<1>4. AppJobs' /\ MadeBefore'
  BY <1>1, <1>2 DEF AppInv, AppJobs, MadeBefore
<1>5. "app" \notin blame' => "app" \notin blame
  OBVIOUS
<1>6. OneCallback'
  BY <1>1, <1>2, <1>5 DEF AppInv, OneCallback
<1>7. CASE UNCHANGED <<app, blame>>
  <2>1. AppsTyped' /\ NewestAppCounts'
    BY <1>7 DEF AppInv, AppsTyped, NewestAppCounts
  <2>2. QED
    BY <1>1, <1>3, <1>4, <1>6, <2>1 DEF AppInv
<1>8. ASSUME NEW inst \in SUBSET remote,
             app' = [app EXCEPT ![jobs[i].u] = [jobs[i].row EXCEPT !.inst = inst]],
             blame' = blame \cup IF app[jobs[i].u] = jobs[i].row THEN {} ELSE {"app"}
      PROVE  AppInv' /\ HandlersInv' /\ JobsWithin(AppOps)
  <2> DEFINE new == [jobs[i].row EXCEPT !.inst = inst]
  <2>1. jobs[i].u \in Users /\ jobs[i].row \in AppRow
    BY DEF AppInv, AppJobs
  <2>2. inst \subseteq {1}
    BY DEF AppInv, AppsTyped
  <2>3. new \in AppRow /\ new.id = jobs[i].row.id /\ new.inst = inst
    BY <2>1, <2>2 DEF AppRow
  <2>4. app' = [app EXCEPT ![jobs[i].u] = new]
    BY <1>8
  <2> HIDE DEF new
  <2>5. /\ app' \in [Users -> AppRow \cup {None}]
        /\ \A v \in Users : app'[v] = IF v = jobs[i].u THEN new ELSE app[v]
    BY <2>1, <2>3, <2>4 DEF AppInv, AppsTyped
  <2>6. AppsTyped'
    BY <2>3, <2>5 DEF AppInv, AppsTyped
  <2>7. NewestAppCounts'
    <3>1. "app" \notin blame' => "app" \notin blame /\ app[jobs[i].u] = jobs[i].row
      BY <1>8
    <3>2. jobs[i].row # None
      BY <2>1, AccountsAssumption
    <3>3. QED
      BY <2>1, <2>3, <2>5, <3>1, <3>2 DEF AppInv, NewestAppCounts
  <2>8. QED
    BY <1>1, <1>3, <1>4, <1>6, <2>6, <2>7 DEF AppInv
<1>9. QED
  BY <1>7, <1>8

\* Every step of the GitHub app.
AppStep(i) ==
  \/ \E u \in Users : \/ GithubAppCallback(i, u) \/ DeleteGithubApp(i, u)
                      \/ SyncInstallations(i, u) \/ GithubInstallCallback(i, u)
  \/ SyncInstallationsSave(i) \/ GithubInstallCallbackSave(i)
  \/ ListInstallationsFails(i) \/ GithubAppCallbackSave(i) \/ ConversionFails(i)

\* None of them lets an older app count, unless a stale copy was saved.
LEMMA AppFamily ==
  ASSUME AppInv, HandlersInv, NEW i \in Handlers, AppStep(i)
  PROVE  AppInv' /\ HandlersInv' /\ JobsWithin(AppOps)
<1>1. CASE \E u \in Users : GithubAppCallback(i, u)
  BY <1>1, GithubAppCallbackStep
<1>2. ASSUME NEW u \in Users, DeleteGithubApp(i, u)
      PROVE  AppInv' /\ HandlersInv' /\ JobsWithin(AppOps)
  <2>1. /\ Begins(i, Free) /\ app' = [app EXCEPT ![u] = None]
        /\ UNCHANGED <<made, remote, blame>>
    BY <1>2 DEF DeleteGithubApp, ghosts
  <2>2. /\ HandlersInv' /\ jobs[i].op = "none" /\ ops \in Nat /\ ops' = ops + 1
        /\ \A j \in Handlers : jobs'[j] = IF j = i THEN Free ELSE jobs[j]
    BY <2>1, BeginsFacts DEF Begins
  <2>3. Free.op = "none"
    BY DEF Free, Job
  <2>4. JobsWithin(AppOps)
    BY <2>2, <2>3 DEF JobsWithin, AppOps
  <2>5. /\ app' \in [Users -> AppRow \cup {None}]
        /\ \A v \in Users : app'[v] = app[v] \/ app'[v] = None
    BY <2>1 DEF AppInv, AppsTyped
  <2>6. AppInv'
    <3>1. \A j \in Handlers : jobs'[j] = jobs[j] \/ jobs'[j].op \notin AppOps
      BY <2>2, <2>3 DEF AppOps
    <3>2. remote' = remote /\ remote \subseteq {1}
      BY <2>1 DEF AppInv, AppsTyped
    <3>3. ops' \in Nat /\ ops <= ops'
      BY <2>2
    <3>4. QED
      BY <2>1, <2>2, <2>5, <3>1, <3>2, <3>3, AppQuiet
  <2>7. QED
    BY <2>2, <2>4, <2>6
<1>3. ASSUME NEW u \in Users, SyncInstallations(i, u)
      PROVE  AppInv' /\ HandlersInv' /\ JobsWithin(AppOps)
  <2>1. app[u] # None /\ Begins(i, Job("sync", "ask", u, None, app[u]))
        /\ UNCHANGED <<app, made, remote, blame>> /\ "sync" \in {"sync", "installed"}
    BY <1>3 DEF SyncInstallations, world, ghosts
  <2>2. QED
    BY <2>1, AskStep
<1>4. ASSUME NEW u \in Users, GithubInstallCallback(i, u)
      PROVE  AppInv' /\ HandlersInv' /\ JobsWithin(AppOps)
  <2>1. app[u] # None /\ Begins(i, Job("installed", "ask", u, None, app[u]))
        /\ UNCHANGED <<app, made, remote, blame>> /\ "installed" \in {"sync", "installed"}
    BY <1>4 DEF GithubInstallCallback, world, ghosts
  <2>2. QED
    BY <2>1, AskStep
<1>5. CASE ListInstallationsFails(i)
  <2>1. jobs[i].op \in {"sync", "installed"} /\ Ends(i) /\ ops' = ops
        /\ UNCHANGED <<app, made, remote, blame>>
    BY <1>5 DEF ListInstallationsFails, world, ghosts, Held
  <2>2. QED
    BY <2>1, SaveAppStep
<1>6. CASE SyncInstallationsSave(i)
  <2>1. jobs[i].op \in {"sync", "installed"} /\ Ends(i) /\ ops' = ops /\ UNCHANGED <<made, remote>>
    BY <1>6 DEF SyncInstallationsSave, Held
  <2>2. \/ UNCHANGED <<app, blame>>
        \/ /\ app' = [app EXCEPT ![jobs[i].u] = [jobs[i].row EXCEPT !.inst = remote]]
           /\ blame' = blame \cup IF app[jobs[i].u] = jobs[i].row THEN {} ELSE {"app"}
    BY <1>6 DEF SyncInstallationsSave, SaveGithubApp
  <2>3. remote \in SUBSET remote
    OBVIOUS
  <2>4. QED
    BY <2>1, <2>2, <2>3, SaveAppStep
<1>7. CASE GithubInstallCallbackSave(i)
  <2>1. jobs[i].op \in {"sync", "installed"} /\ Ends(i) /\ ops' = ops /\ UNCHANGED <<made, remote>>
    BY <1>7 DEF GithubInstallCallbackSave, Held
  <2>2. CASE UNCHANGED <<app, blame>>
    BY <2>1, <2>2, SaveAppStep
  <2>3. ASSUME NEW n \in remote,
               app' = [app EXCEPT ![jobs[i].u] =
                          [jobs[i].row EXCEPT !.inst = jobs[i].row.inst \cup {n}]],
               blame' = blame \cup IF app[jobs[i].u] = jobs[i].row THEN {} ELSE {"app"}
        PROVE  AppInv' /\ HandlersInv' /\ JobsWithin(AppOps)
    <3>1. jobs[i].row.inst \cup {n} \in SUBSET remote
      BY <2>1 DEF AppInv, AppJobs
    <3>2. QED
      BY <2>1, <2>3, <3>1, SaveAppStep
  <2>4. QED
    BY <1>7, <2>2, <2>3 DEF GithubInstallCallbackSave, SaveGithubApp
<1>8. CASE GithubAppCallbackSave(i)
  BY <1>8, GithubAppCallbackSaveStep
<1>9. CASE ConversionFails(i)
  <2>1. /\ Held(i, "mkapp", "convert") /\ Ends(i) /\ ops' = ops
        /\ UNCHANGED <<app, made, remote, blame>>
    BY <1>9 DEF ConversionFails, world, ghosts
  <2>2. /\ HandlersInv'
        /\ \A j \in Handlers : jobs'[j] = IF j = i THEN Free ELSE jobs[j]
    BY <2>1, EndsFacts
  <2>3. Free.op = "none" /\ jobs[i].op = "mkapp" /\ ops \in Nat
    BY <2>1, AccountsAssumption DEF Free, Job, Held, HandlersInv
  <2>4. JobsWithin(AppOps)
    BY <2>2, <2>3 DEF JobsWithin, AppOps
  <2>5. /\ app' \in [Users -> AppRow \cup {None}]
        /\ \A v \in Users : app'[v] = app[v] \/ app'[v] = None
        /\ remote' = remote /\ remote \subseteq {1}
    BY <2>1 DEF AppInv, AppsTyped
  <2>6. \A j \in Handlers : jobs'[j] = jobs[j] \/ jobs'[j].op \notin AppOps
    BY <2>2, <2>3 DEF AppOps
  <2>7. ops' \in Nat /\ ops <= ops'
    BY <2>1, <2>3
  <2>8. AppInv'
    BY <2>1, <2>3, <2>5, <2>6, <2>7, AppQuiet
  <2>9. QED
    BY <2>2, <2>4, <2>8
<1>10. QED
  BY <1>1, <1>2, <1>3, <1>4, <1>5, <1>6, <1>7, <1>8, <1>9 DEF AppStep

-----------------------------------------------------------------------------
(* Storage buckets *)

\* Steps of other families: rows may go with their users.
LEMMA BucketQuiet ==
  ASSUME BucketInv, NEW S, JobsWithin(S), S \cap BucketOps = {},
         buckets' \subseteq buckets, UNCHANGED store,
         \A b \in buckets' : Exists(b.u)',
         "bucket" \notin blame' => "bucket" \notin blame
  PROVE  BucketInv'
<1>1. \A j \in Handlers : \/ jobs'[j] = jobs[j]
                          \/ /\ jobs[j].op \notin BucketOps
                             /\ jobs'[j].op \notin BucketOps
  BY DEF JobsWithin, BucketOps
<1>2. \A j \in Handlers, op \in BucketOps : \A pc :
         /\ Held(j, op, pc)' <=> Held(j, op, pc)
         /\ Held(j, op, pc) => jobs'[j] = jobs[j]
  BY <1>1 DEF Held
<1>3. \A b : Loose(b)' <=> Loose(b)
  BY <1>2 DEF Loose, BucketOps
<1>4. Owned(buckets)' /\ store' \in BOOLEAN
  BY DEF BucketInv, Owned
<1>5. BucketJobs'
  BY <1>1 DEF BucketInv, BucketJobs, BucketOps
<1>6. OneBucket'
  <2> SUFFICES ASSUME "bucket" \notin blame'
               PROVE  OneBucket!2'
    BY DEF OneBucket
  <2>1. OneBucket!2
    BY DEF BucketInv, OneBucket
  <2>2. QED
    BY <1>2, <1>3, <2>1 DEF BucketOps
<1>7. QED
  BY <1>4, <1>5, <1>6 DEF BucketInv

\* create_bucket begins.
LEMMA CreateBucketStep ==
  ASSUME BucketInv, HandlersInv, NEW i \in Handlers, NEW u \in Users,
         CreateBucket(i, u)
  PROVE  BucketInv' /\ HandlersInv' /\ JobsWithin(BucketOps)
<1> DEFINE job == Job("mkbucket", "send", u, ops, None)
<1>1. Begins(i, job) /\ UNCHANGED <<users, buckets, store, blame>>
  BY DEF CreateBucket, world, ghosts
<1>2. job.op = "mkbucket" /\ job.pc = "send" /\ job.u = u /\ job.arg = ops
  BY DEF Job
<1> HIDE DEF job
<1>3. /\ HandlersInv' /\ jobs[i].op = "none" /\ ops \in Nat
      /\ \A j \in Handlers : jobs'[j] = IF j = i THEN job ELSE jobs[j]
  BY <1>1, BeginsFacts
<1>4. JobsWithin(BucketOps)
  BY <1>2, <1>3 DEF JobsWithin, BucketOps
<1>5. Owned(buckets)' /\ store' \in BOOLEAN /\ BucketJobs'
  BY <1>1, <1>2, <1>3 DEF BucketInv, Owned, BucketJobs, Exists
<1>6. /\ \A j \in Handlers : \A op, pc :
            Held(j, op, pc)' <=> IF j = i THEN job.op = op /\ job.pc = pc
                                 ELSE Held(j, op, pc)
      /\ \A b : Loose(b)' <=> Loose(b)
      /\ ~Held(i, "rmbucket", "row")
  BY <1>2, <1>3 DEF Held, Loose
<1>7. OneBucket'
  BY <1>1, <1>2, <1>3, <1>6 DEF BucketInv, OneBucket
<1>8. QED
  BY <1>3, <1>4, <1>5, <1>7 DEF BucketInv

\* The storage service makes the bucket: there was none, so no row claims it.
LEMMA CreateBucketSendStep ==
  ASSUME BucketInv, HandlersInv, NEW i \in Handlers, CreateBucketSend(i)
  PROVE  BucketInv' /\ HandlersInv' /\ JobsWithin(BucketOps)
<1> DEFINE save == Job("mkbucket", "save", jobs[i].u, jobs[i].arg, None)
           job == IF store THEN Free ELSE save
<1>1. /\ Held(i, "mkbucket", "send") /\ GoesOn(i, job) /\ ops' = ops /\ store' = TRUE
      /\ UNCHANGED <<users, buckets, blame>>
  BY DEF CreateBucketSend, Ends, ghosts
<1>2. /\ job.op \in {"none", "mkbucket"}
      /\ job.op = "mkbucket" => /\ ~store /\ job.pc = "save"
                                /\ job.u = jobs[i].u /\ job.arg = jobs[i].arg
  BY DEF Job, Free
<1> HIDE DEF job
<1>3. /\ HandlersInv'
      /\ \A j \in Handlers : jobs'[j] = IF j = i THEN job ELSE jobs[j]
  BY <1>1, GoesOnFacts
<1>4. jobs[i].op = "mkbucket"
  BY <1>1 DEF Held
<1>5. JobsWithin(BucketOps)
  BY <1>2, <1>3, <1>4 DEF JobsWithin, BucketOps
<1>6. Owned(buckets)' /\ store' \in BOOLEAN /\ BucketJobs'
  BY <1>1, <1>2, <1>3, <1>4 DEF BucketInv, Owned, BucketJobs, Exists
<1>7. /\ \A j \in Handlers : \A op, pc :
            Held(j, op, pc)' <=> IF j = i THEN job.op = op /\ job.pc = pc
                                 ELSE Held(j, op, pc)
      /\ \A b : Loose(b)' <=> Loose(b)
  BY <1>2, <1>3, <1>4 DEF Held, Loose
<1>8. OneBucket'
  BY <1>1, <1>2, <1>3, <1>7 DEF BucketInv, OneBucket
<1>9. QED
  BY <1>3, <1>5, <1>6, <1>8 DEF BucketInv

\* The row of the bucket that was made is saved.
LEMMA CreateBucketSaveStep ==
  ASSUME BucketInv, HandlersInv, NEW i \in Handlers, CreateBucketSave(i)
  PROVE  BucketInv' /\ HandlersInv' /\ JobsWithin(BucketOps)
<1> DEFINE new == [id |-> jobs[i].arg, u |-> jobs[i].u]
<1>1. /\ Held(i, "mkbucket", "save") /\ Ends(i) /\ ops' = ops
      /\ UNCHANGED <<users, store, blame>>
      /\ \/ buckets' = buckets
         \/ Exists(jobs[i].u) /\ buckets' = buckets \cup {new}
  BY DEF CreateBucketSave, ghosts
<1>2. jobs[i].op = "mkbucket" /\ Free.op = "none"
  BY <1>1 DEF Held, Free, Job
<1>3. /\ HandlersInv'
      /\ \A j \in Handlers : jobs'[j] = IF j = i THEN Free ELSE jobs[j]
  BY <1>1, EndsFacts
<1>4. new \in OwnedRow /\ new.u = jobs[i].u
  BY <1>2 DEF BucketInv, BucketJobs, OwnedRow
<1> HIDE DEF new
<1>5. JobsWithin(BucketOps)
  BY <1>2, <1>3 DEF JobsWithin, BucketOps
<1>6. Owned(buckets)' /\ store' \in BOOLEAN
  BY <1>1, <1>4 DEF BucketInv, Owned, Exists
<1>7. BucketJobs'
  BY <1>2, <1>3 DEF BucketInv, BucketJobs
<1>8. \A b : Loose(b)' <=> Loose(b)
  BY <1>2, <1>3 DEF Held, Loose
<1>9. OneBucket'
  <2> SUFFICES ASSUME "bucket" \notin blame'
               PROVE  OneBucket!2'
    BY DEF OneBucket
  <2>1. /\ store /\ \A b \in buckets : ~Loose(b)
        /\ \A j \in Handlers : /\ ~Held(j, "rmbucket", "send")
                               /\ Held(j, "mkbucket", "save") => j = i
    BY <1>1 DEF BucketInv, OneBucket
  <2>2. \A b, c \in buckets' : Loose(b)' /\ Loose(c)' => b = c
    BY <1>1, <1>8, <2>1
  <2>3. \A j \in Handlers : /\ ~Held(j, "mkbucket", "save")'
                            /\ ~Held(j, "rmbucket", "send")'
    BY <1>2, <1>3, <2>1 DEF Held
  <2>4. QED
    BY <1>1, <2>1, <2>2, <2>3
<1>10. QED
  BY <1>3, <1>5, <1>6, <1>7, <1>9 DEF BucketInv

\* delete_bucket: a row that nobody else is deleting has its bucket.
LEMMA DeleteBucketStep ==
  ASSUME BucketInv, HandlersInv, NEW i \in Handlers, NEW b \in buckets,
         DeleteBucket(i, b)
  PROVE  BucketInv' /\ HandlersInv' /\ JobsWithin(BucketOps)
<1> DEFINE job == Job("rmbucket", "send", None, None, b)
<1>1. /\ Begins(i, job) /\ UNCHANGED <<users, buckets, store>>
      /\ blame' = blame \cup IF Deleting(b) THEN {"bucket"} ELSE {}
  BY DEF DeleteBucket, world
<1>2. job.op = "rmbucket" /\ job.pc = "send" /\ job.row = b
  BY DEF Job
<1> HIDE DEF job
<1>3. /\ HandlersInv' /\ jobs[i].op = "none"
      /\ \A j \in Handlers : jobs'[j] = IF j = i THEN job ELSE jobs[j]
  BY <1>1, BeginsFacts
<1>4. JobsWithin(BucketOps)
  BY <1>2, <1>3 DEF JobsWithin, BucketOps
<1>5. Owned(buckets)' /\ store' \in BOOLEAN
  BY <1>1 DEF BucketInv, Owned, Exists
<1>6. BucketJobs'
  BY <1>2, <1>3 DEF BucketInv, BucketJobs, Owned
<1>7. \A c : Loose(c)' <=> Loose(c)
  BY <1>2, <1>3 DEF Held, Loose
<1>8. OneBucket'
  <2> SUFFICES ASSUME "bucket" \notin blame'
               PROVE  OneBucket!2'
    BY DEF OneBucket
  <2>1. "bucket" \notin blame /\ ~Deleting(b)
    BY <1>1
  <2>2. Loose(b)
    BY <2>1 DEF Deleting, Loose, Held
  <2>3. /\ store /\ \A c \in buckets : Loose(c) => c = b
        /\ \A j \in Handlers : ~Held(j, "mkbucket", "save")
    BY <2>1, <2>2 DEF BucketInv, OneBucket
  <2>4. \A j \in Handlers : ~Held(j, "rmbucket", "send")
    BY <2>1, <2>2 DEF BucketInv, OneBucket, Deleting, Held
  <2>5. \A j \in Handlers : /\ ~Held(j, "mkbucket", "save")'
                            /\ Held(j, "rmbucket", "send")' => j = i
    BY <1>2, <1>3, <2>3, <2>4 DEF Held
  <2>6. jobs'[i].row = b
    BY <1>2, <1>3
  <2>7. QED
    BY <1>1, <1>7, <2>3, <2>5, <2>6
<1>9. QED
  BY <1>3, <1>4, <1>5, <1>6, <1>8 DEF BucketInv

\* The storage service removes the bucket: the row this request deletes was the only
\* one that had one.
LEMMA DeleteBucketSendStep ==
  ASSUME BucketInv, HandlersInv, NEW i \in Handlers, DeleteBucketSend(i)
  PROVE  BucketInv' /\ HandlersInv' /\ JobsWithin(BucketOps)
<1> DEFINE row == Job("rmbucket", "row", None, None, jobs[i].row)
           job == IF store THEN row ELSE Free
<1>1. /\ Held(i, "rmbucket", "send") /\ GoesOn(i, job) /\ ops' = ops
      /\ store' = FALSE /\ UNCHANGED <<users, buckets, blame>>
  BY DEF DeleteBucketSend, Ends, ghosts
<1>2. /\ job.op \in {"none", "rmbucket"} /\ job.pc # "send"
      /\ job.op = "rmbucket" => job.row = jobs[i].row
      /\ store => job.op = "rmbucket" /\ job.pc = "row"
  BY DEF Job, Free
<1> HIDE DEF job
<1>3. /\ HandlersInv'
      /\ \A j \in Handlers : jobs'[j] = IF j = i THEN job ELSE jobs[j]
  BY <1>1, GoesOnFacts
<1>4. jobs[i].op = "rmbucket"
  BY <1>1 DEF Held
<1>5. JobsWithin(BucketOps)
  BY <1>2, <1>3, <1>4 DEF JobsWithin, BucketOps
<1>6. Owned(buckets)' /\ store' \in BOOLEAN
  BY <1>1 DEF BucketInv, Owned, Exists
<1>7. BucketJobs'
  BY <1>2, <1>3, <1>4 DEF BucketInv, BucketJobs
<1>8. OneBucket'
  <2> SUFFICES ASSUME "bucket" \notin blame'
               PROVE  OneBucket!2'
    BY DEF OneBucket
  <2>1. /\ store /\ \A c \in buckets : Loose(c) => c = jobs[i].row
        /\ \A j \in Handlers : /\ ~Held(j, "mkbucket", "save")
                               /\ Held(j, "rmbucket", "send") => j = i
    BY <1>1 DEF BucketInv, OneBucket
  <2>2. \A c : Loose(c)' => Loose(c) /\ c # jobs[i].row
    BY <1>1, <1>2, <1>3, <2>1 DEF Held, Loose
  <2>3. \A c \in buckets' : ~Loose(c)'
    BY <1>1, <2>1, <2>2
  <2>4. \A j \in Handlers : /\ ~Held(j, "mkbucket", "save")'
                            /\ ~Held(j, "rmbucket", "send")'
    BY <1>2, <1>3, <2>1 DEF Held
  <2>5. QED
    BY <2>3, <2>4
<1>9. QED
  BY <1>3, <1>5, <1>6, <1>7, <1>8 DEF BucketInv

\* The row of a bucket that was removed goes.
LEMMA DeleteBucketRowStep ==
  ASSUME BucketInv, HandlersInv, NEW i \in Handlers, DeleteBucketRow(i)
  PROVE  BucketInv' /\ HandlersInv' /\ JobsWithin(BucketOps)
<1>1. /\ Held(i, "rmbucket", "row") /\ Ends(i) /\ ops' = ops
      /\ buckets' = buckets \ {jobs[i].row} /\ UNCHANGED <<users, store, blame>>
  BY DEF DeleteBucketRow, ghosts
<1>2. jobs[i].op = "rmbucket" /\ jobs[i].pc = "row" /\ Free.op = "none"
  BY <1>1 DEF Held, Free, Job
<1>3. /\ HandlersInv'
      /\ \A j \in Handlers : jobs'[j] = IF j = i THEN Free ELSE jobs[j]
  BY <1>1, EndsFacts
<1>4. JobsWithin(BucketOps)
  BY <1>2, <1>3 DEF JobsWithin, BucketOps
<1>5. Owned(buckets)' /\ store' \in BOOLEAN
  BY <1>1 DEF BucketInv, Owned, Exists
<1>6. BucketJobs'
  BY <1>2, <1>3 DEF BucketInv, BucketJobs
<1>7. \A c \in buckets' : c \in buckets /\ (Loose(c)' <=> Loose(c))
  BY <1>1, <1>2, <1>3 DEF Held, Loose
<1>8. \A j \in Handlers :
        /\ Held(j, "mkbucket", "save")' <=> Held(j, "mkbucket", "save")
        /\ Held(j, "rmbucket", "send")' <=> Held(j, "rmbucket", "send")
        /\ Held(j, "rmbucket", "send") => jobs'[j].row = jobs[j].row
  BY <1>2, <1>3 DEF Held
<1>9. OneBucket'
  BY <1>1, <1>7, <1>8 DEF BucketInv, OneBucket
<1>10. QED
  BY <1>3, <1>4, <1>5, <1>6, <1>9 DEF BucketInv

\* The storage service fails: whether it made the bucket or not, a row keeps its own.
LEMMA StorageFailsStep ==
  ASSUME BucketInv, HandlersInv, NEW i \in Handlers, StorageFails(i)
  PROVE  BucketInv' /\ HandlersInv' /\ JobsWithin(BucketOps)
<1>1. /\ Held(i, "mkbucket", "send") \/ Held(i, "rmbucket", "send")
      /\ Ends(i) /\ ops' = ops /\ UNCHANGED <<users, buckets>>
      /\ store' \in {store, jobs[i].op = "mkbucket"}
      /\ blame' = blame \cup IF store /\ ~store' THEN {"bucket"} ELSE {}
  BY DEF StorageFails
<1>2. /\ jobs[i].op \in {"mkbucket", "rmbucket"} /\ jobs[i].pc = "send"
      /\ Free.op = "none"
  BY <1>1 DEF Held, Free, Job
<1>3. /\ HandlersInv'
      /\ \A j \in Handlers : jobs'[j] = IF j = i THEN Free ELSE jobs[j]
  BY <1>1, EndsFacts
<1>4. JobsWithin(BucketOps)
  BY <1>2, <1>3 DEF JobsWithin, BucketOps
<1>5. store' \in BOOLEAN
  BY <1>1 DEF BucketInv
<1>6. Owned(buckets)' /\ BucketJobs'
  BY <1>1, <1>2, <1>3 DEF BucketInv, Owned, Exists, BucketJobs
<1>7. \A c : Loose(c)' <=> Loose(c)
  BY <1>2, <1>3 DEF Held, Loose
<1>8. \A j \in Handlers :
        /\ Held(j, "mkbucket", "save")' <=> Held(j, "mkbucket", "save")
        /\ Held(j, "rmbucket", "send")' => /\ Held(j, "rmbucket", "send")
                                           /\ jobs'[j].row = jobs[j].row
  BY <1>2, <1>3 DEF Held
<1>9. OneBucket'
  <2> SUFFICES ASSUME "bucket" \notin blame'
               PROVE  OneBucket!2'
    BY DEF OneBucket
  <2>1. "bucket" \notin blame /\ (store => store')
    BY <1>1
  <2>2. OneBucket!2
    BY <2>1 DEF BucketInv, OneBucket
  <2>3. QED
    BY <1>1, <1>7, <1>8, <2>1, <2>2
<1>10. QED
  BY <1>3, <1>4, <1>5, <1>6, <1>9 DEF BucketInv

\* Sizes are refreshed: a row is read, and saved again if it changed.
LEMMA RefreshSizesStep ==
  ASSUME BucketInv, HandlersInv, NEW i \in Handlers,
         \/ \E b \in buckets : RefreshSizes(i, b)
         \/ RefreshSizesSave(i)
  PROVE  BucketInv' /\ HandlersInv' /\ JobsWithin(BucketOps)
<1> DEFINE Sizing == /\ HandlersInv' /\ jobs[i].op \in {"none", "sizes"}
                     /\ jobs'[i].op \in {"none", "sizes"}
                     /\ jobs'[i].op = "sizes" => jobs'[i].row \in OwnedRow
                     /\ \A j \in Handlers : j # i => jobs'[j] = jobs[j]
<1>1. Sizing
  <2>1. ASSUME NEW b \in buckets, RefreshSizes(i, b)
        PROVE  Sizing
    <3> DEFINE job == Job("sizes", "ask", None, None, b)
    <3>1. Begins(i, job)
      BY <2>1 DEF RefreshSizes
    <3>2. job.op = "sizes" /\ job.row = b /\ b \in OwnedRow
      BY DEF Job, BucketInv, Owned
    <3> HIDE DEF job
    <3>3. /\ HandlersInv' /\ jobs[i].op = "none"
          /\ \A j \in Handlers : jobs'[j] = IF j = i THEN job ELSE jobs[j]
      BY <3>1, BeginsFacts
    <3>4. QED
      BY <3>2, <3>3
  <2>2. CASE RefreshSizesSave(i)
    <3>1. jobs[i].op = "sizes" /\ Ends(i) /\ ops' = ops
      BY <2>2 DEF RefreshSizesSave, Held
    <3>2. /\ HandlersInv'
          /\ \A j \in Handlers : jobs'[j] = IF j = i THEN Free ELSE jobs[j]
      BY <3>1, EndsFacts
    <3>3. QED
      BY <3>1, <3>2 DEF Free, Job
  <2>3. QED
    BY <2>1, <2>2
<1>2. JobsWithin(BucketOps)
  BY <1>1 DEF JobsWithin, BucketOps
<1>3. /\ UNCHANGED <<users, store>>
      /\ \/ UNCHANGED <<buckets, blame>>
         \/ /\ jobs[i].op = "sizes" /\ Exists(jobs[i].row.u)
            /\ buckets' = buckets \cup {jobs[i].row}
            /\ blame' = blame \cup IF jobs[i].row \in buckets THEN {} ELSE {"bucket"}
  BY DEF RefreshSizes, RefreshSizesSave, world, ghosts, Held
<1>4. Owned(buckets)' /\ store' \in BOOLEAN
  BY <1>3 DEF BucketInv, Owned, Exists, BucketJobs
<1>5. BucketJobs'
  BY <1>1 DEF BucketInv, BucketJobs
<1>6. \A c : Loose(c)' <=> Loose(c)
  BY <1>1 DEF Held, Loose
<1>7. \A j \in Handlers :
        /\ Held(j, "mkbucket", "save")' <=> Held(j, "mkbucket", "save")
        /\ Held(j, "rmbucket", "send")' <=> Held(j, "rmbucket", "send")
        /\ Held(j, "rmbucket", "send") => jobs'[j].row = jobs[j].row
  BY <1>1 DEF Held
<1>8. "bucket" \notin blame' => "bucket" \notin blame /\ buckets' = buckets
  BY <1>3
<1>9. OneBucket'
  BY <1>3, <1>6, <1>7, <1>8 DEF BucketInv, OneBucket
<1>10. QED
  BY <1>1, <1>2, <1>4, <1>5, <1>9 DEF BucketInv

\* Every step of the buckets.
BucketStep(i) ==
  \/ \E u \in Users : CreateBucket(i, u)
  \/ \E b \in buckets : DeleteBucket(i, b) \/ RefreshSizes(i, b)
  \/ CreateBucketSend(i) \/ CreateBucketSave(i)
  \/ DeleteBucketSend(i) \/ DeleteBucketRow(i) \/ StorageFails(i)
  \/ RefreshSizesSave(i)

\* None of them leaves a second row that has no bucket.
LEMMA BucketFamily ==
  ASSUME BucketInv, HandlersInv, NEW i \in Handlers, BucketStep(i)
  PROVE  BucketInv' /\ HandlersInv' /\ JobsWithin(BucketOps)
BY CreateBucketStep, CreateBucketSendStep, CreateBucketSaveStep, DeleteBucketStep,
   DeleteBucketSendStep, DeleteBucketRowStep, StorageFailsStep, RefreshSizesStep
DEF BucketStep

\* Requests end before their last step: of all handlers or of some; one that had
\* removed the bucket and not its row is remembered.
LEMMA BucketBrokenOff ==
  ASSUME BucketInv, NEW hs \in SUBSET Handlers,
         \A i \in Handlers : jobs'[i] = IF i \in hs THEN Free ELSE jobs[i],
         blame' = blame \cup BrokenOff(hs), UNCHANGED <<buckets, store>>,
         \A b \in buckets' : Exists(b.u)'
  PROVE  BucketInv'
<1>1. Free.op = "none"
  BY DEF Free, Job
<1>2. \A i \in Handlers : \A op, pc :
         op # "none" => (Held(i, op, pc)' <=> i \notin hs /\ Held(i, op, pc))
  BY <1>1 DEF Held
<1>3. Owned(buckets)' /\ store' \in BOOLEAN
  BY DEF BucketInv, Owned
<1>4. BucketJobs'
  BY <1>1 DEF BucketInv, BucketJobs
<1>5. OneBucket'
  <2> SUFFICES ASSUME "bucket" \notin blame'
               PROVE  OneBucket!2'
    BY DEF OneBucket
  <2>1. "bucket" \notin blame /\ \A i \in hs : ~Held(i, "rmbucket", "row")
    BY DEF BrokenOff
  <2>2. \A b : Loose(b)' <=> Loose(b)
    BY <1>2, <2>1 DEF Loose
  <2>3. OneBucket!2
    BY <2>1 DEF BucketInv, OneBucket
  <2>4. \A i \in Handlers : Held(i, "rmbucket", "send")' => jobs'[i] = jobs[i]
    BY <1>2
  <2>5. QED
    BY <1>2, <2>2, <2>3, <2>4
<1>6. QED
  BY <1>3, <1>4, <1>5 DEF BucketInv

-----------------------------------------------------------------------------
(* Accounts *)

\* The place of a new user is counted from 1.
LEMMA SaveUserFacts ==
  ASSUME UsersTyped, NEW u \in Users, NEW row \in UserRow, SaveUser(u, row)
  PROVE  /\ users' \in [Users -> UserRow \cup {None}]
         /\ \A v \in Users : users'[v] = IF v = u THEN row ELSE users[v]
         /\ Rows' = Rows \cup {u}
         /\ born' \in [Users -> Nat] /\ born'[u] # 0
         /\ \A v \in Users : born[v] # 0 => born'[v] # 0
<1>1. /\ users' \in [Users -> UserRow \cup {None}]
      /\ \A v \in Users : users'[v] = IF v = u THEN row ELSE users[v]
  BY DEF SaveUser, UsersTyped
<1>2. row # None
  BY AccountsAssumption
<1>3. Rows' = Rows \cup {u}
  BY <1>1, <1>2 DEF Rows
<1> DEFINE n == Cardinality({v \in Users : born[v] # 0})
<1>4. n \in Nat
  <2>1. {v \in Users : born[v] # 0} \subseteq Users
    OBVIOUS
  <2>2. IsFiniteSet({v \in Users : born[v] # 0})
    BY <2>1, FS_Subset, AccountsAssumption
  <2>3. QED
    BY <2>2, FS_CardinalityType
<1>5. born' = IF born[u] # 0 THEN born ELSE [born EXCEPT ![u] = n + 1]
  BY DEF SaveUser
<1> HIDE DEF n
<1>6. /\ born' \in [Users -> Nat] /\ born'[u] # 0
      /\ \A v \in Users : born[v] # 0 => born'[v] # 0
  BY <1>4, <1>5 DEF UsersTyped
<1>7. QED
  BY <1>1, <1>3, <1>6

\* A job that a step may put in a handler: its copy is sound, it needs no user before
\* there is one, and it keeps a single administrator.
FitNext(i) ==
  /\ CopySound(jobs[i])'
  /\ NeedsUser(jobs'[i]) => boots # 0
  /\ \A a \in Rows : AdminIs(a) => KeepsAdmin(jobs'[i], a)

\* A handler without a job fits.
LEMMA NoJobFits ==
  ASSUME NEW j, j.op \notin AccountOps
  PROVE  CopySound(j) /\ ~NeedsUser(j) /\ ~HoldsCopy(j) /\ \A a : KeepsAdmin(j, a)
BY DEF CopySound, NeedsUser, HoldsCopy, KeepsAdmin, AccountOps, CopyOps

\* Copies stay sound while more identities are shown.
LEMMA CopyStaysSound ==
  ASSUME NEW i \in Handlers, CopySound(jobs[i]), jobs'[i] = jobs[i],
         proved \subseteq proved'
  PROVE  CopySound(jobs[i])'
BY DEF CopySound

\* Steps that save no user.
LEMMA AccountsSame ==
  ASSUME AccountsInv, UNCHANGED <<users, born, boots>>, proved \subseteq proved',
         \A s \in oauth' : s.at \in 0 .. MaxTime /\ s.purpose \in Users \cup {"login"},
         InTurn' => InTurn, DecidesAlone',
         \A j \in Handlers : jobs'[j] = jobs[j] \/ FitNext(j)
  PROVE  AccountsInv'
<1>1. UsersTyped'
  BY DEF AccountsInv, UsersTyped
<1>2. Rows' = Rows /\ \A g : Owner(g)' = Owner(g)
  BY DEF Rows, Owner, Exists
<1>3. RowsBorn' /\ LinkedByOwner' /\ CanSignIn'
  BY <1>2 DEF AccountsInv, RowsBorn, SignInSound, LinkedByOwner, CanSignIn
<1>4. OneOwner'
  BY <1>2 DEF AccountsInv, SignInSound, OneOwner
<1>5. CopiesSound'
  <2> SUFFICES ASSUME NEW j \in Handlers
               PROVE  CopySound(jobs[j])'
    BY DEF CopiesSound
  <2>1. CopySound(jobs[j])
    BY DEF AccountsInv, CopiesSound
  <2>2. QED
    BY <2>1, CopyStaysSound DEF FitNext
<1>6. OneAdmin'
  <2>1. CASE boots = 0
    <3>1. \A j \in Handlers : ~NeedsUser(jobs[j]) /\ Rows = {}
      BY <2>1 DEF AccountsInv, OneAdmin
    <3>2. \A j \in Handlers : ~NeedsUser(jobs'[j])
      BY <2>1, <3>1 DEF FitNext
    <3>3. Rows = {}
      BY <2>1 DEF AccountsInv, OneAdmin
    <3>4. QED
      BY <1>2, <2>1, <3>2, <3>3 DEF OneAdmin
  <2>2. CASE boots = 1
    <3>1. PICK a \in Rows : AdminIs(a)
      BY <2>2 DEF AccountsInv, OneAdmin
    <3>2. \A j \in Handlers : KeepsAdmin(jobs'[j], a)
      BY <3>1 DEF FitNext, AdminIs
    <3>3. \A u \in Rows' : users'[u].admin <=> u = a
      BY <1>2, <3>1 DEF AdminIs
    <3>4. AdminIs(a)'
      BY <3>2, <3>3 DEF AdminIs
    <3>5. QED
      BY <1>2, <2>2, <3>1, <3>4 DEF OneAdmin
  <2>3. CASE boots # 0 /\ boots # 1
    BY <2>3 DEF OneAdmin
  <2>4. QED
    BY <2>1, <2>2, <2>3
<1>7. QED
  BY <1>1, <1>3, <1>4, <1>5, <1>6 DEF AccountsInv, SignInSound

\* Whoever decides about an identity goes on alone when requests only end, or go on with
\* the same identity, and nobody gets it.
LEMMA DecidesOn ==
  ASSUME AccountsInv, InTurn' => InTurn, \A g : Owner(g)' \subseteq Owner(g),
         \A j \in Handlers :
            \/ jobs'[j] = jobs[j] \/ ~Deciding(j)'
            \/ Deciding(j) /\ jobs'[j].arg = jobs[j].arg /\ jobs'[j].u = jobs[j].u
  PROVE  DecidesAlone'
<1> SUFFICES ASSUME InTurn', NEW i \in Handlers, Deciding(i)'
             PROVE  /\ Owner(jobs[i].arg)' \subseteq {jobs'[i].u}
                    /\ \A j \in Handlers :
                          Deciding(j)' /\ jobs'[j].arg = jobs'[i].arg => j = i
  BY DEF DecidesAlone
<1>1. \A j \in Handlers :
         Deciding(j)' => Deciding(j) /\ jobs'[j].arg = jobs[j].arg /\ jobs'[j].u = jobs[j].u
  BY DEF Deciding
<1>2. /\ Owner(jobs[i].arg) \subseteq {jobs[i].u}
      /\ \A j \in Handlers : Deciding(j) /\ jobs[j].arg = jobs[i].arg => j = i
  BY <1>1 DEF AccountsInv, DecidesAlone
<1>3. QED
  BY <1>1, <1>2

\* The row to save carries a proved identity nobody else has or is about to get, and a
\* way to sign in.
GoodSave(u, row) ==
  /\ row.gh # None => <<u, row.gh>> \in proved'
  /\ row.token => row.gh # None
  /\ row.pw # None \/ row.gh # None
  /\ proved \subseteq proved'
  /\ InTurn' =>
       /\ InTurn
       /\ row.gh # None =>
            /\ Owner(row.gh) \subseteq {u}
            /\ \/ u \in Owner(row.gh)
               \/ \A j \in Handlers : Deciding(j)' => jobs'[j].arg # row.gh

\* Sign-in stays sound with such a row.
LEMMA SaveSound ==
  ASSUME AccountsInv, NEW u \in Users, NEW row \in UserRow, SaveUser(u, row),
         GoodSave(u, row), UNCHANGED oauth, boots' \in Nat,
         \A j \in Handlers : jobs'[j] = jobs[j] \/ jobs'[j].op = "none"
  PROVE  UsersTyped' /\ RowsBorn' /\ CopiesSound' /\ DecidesAlone' /\ SignInSound'
<1>1. /\ users' \in [Users -> UserRow \cup {None}]
      /\ \A v \in Users : users'[v] = IF v = u THEN row ELSE users[v]
      /\ Rows' = Rows \cup {u}
      /\ born' \in [Users -> Nat] /\ born'[u] # 0
      /\ \A v \in Users : born[v] # 0 => born'[v] # 0
  BY SaveUserFacts DEF AccountsInv
<1>2. UsersTyped'
  BY <1>1 DEF AccountsInv, UsersTyped
<1>3. Rows \subseteq Users
  BY DEF Rows
<1>4. RowsBorn'
  BY <1>1, <1>3 DEF AccountsInv, RowsBorn
<1>5. CopiesSound'
  <2> SUFFICES ASSUME NEW j \in Handlers
               PROVE  CopySound(jobs[j])'
    BY DEF CopiesSound
  <2>1. CopySound(jobs[j]) /\ proved \subseteq proved'
    BY DEF AccountsInv, CopiesSound, GoodSave
  <2>2. CASE jobs'[j] = jobs[j]
    BY <2>1, <2>2, CopyStaysSound
  <2>3. CASE jobs'[j].op = "none"
    BY <2>3 DEF CopySound, HoldsCopy, CopyOps
  <2>4. QED
    BY <2>2, <2>3
<1>6. LinkedByOwner'
  BY <1>1, <1>3 DEF AccountsInv, SignInSound, LinkedByOwner, GoodSave
<1>7. CanSignIn'
  BY <1>1, <1>3 DEF AccountsInv, SignInSound, CanSignIn, GoodSave
<1>8. \A g : \A x \in Owner(g)' :
         x \in Users /\ (IF x = u THEN row.gh = g ELSE x \in Owner(g))
  BY <1>1 DEF Owner, Exists
<1>9. OneOwner'
  <2> SUFFICES ASSUME InTurn', NEW g \in Identities,
                      NEW v \in Owner(g)', NEW w \in Owner(g)'
               PROVE  v = w
    BY DEF OneOwner
  <2>1. \A x \in Owner(g) : \A y \in Owner(g) : x = y
    BY DEF AccountsInv, SignInSound, OneOwner, GoodSave
  <2>2. row.gh # None => Owner(row.gh) \subseteq {u}
    BY DEF GoodSave
  <2>3. g # None
    BY AccountsAssumption
  <2>4. QED
    BY <1>8, <2>1, <2>2, <2>3
<1>10. DecidesAlone'
  <2> SUFFICES ASSUME InTurn', NEW i \in Handlers, Deciding(i)'
               PROVE  /\ Owner(jobs[i].arg)' \subseteq {jobs'[i].u}
                      /\ \A j \in Handlers :
                            Deciding(j)' /\ jobs'[j].arg = jobs'[i].arg => j = i
    BY DEF DecidesAlone
  <2>1. \A j \in Handlers : Deciding(j)' => Deciding(j) /\ jobs'[j] = jobs[j]
    BY DEF Deciding
  <2>2. InTurn
    BY DEF GoodSave
  <2>3. /\ Owner(jobs[i].arg) \subseteq {jobs[i].u}
        /\ \A j \in Handlers : Deciding(j) /\ jobs[j].arg = jobs[i].arg => j = i
    BY <2>1, <2>2 DEF AccountsInv, DecidesAlone
  <2>4. jobs[i].arg # None
    <3>1. CopySound(jobs[i]) /\ Deciding(i)
      BY <2>1 DEF AccountsInv, CopiesSound
    <3>2. jobs[i].arg \in Identities
      BY <3>1 DEF CopySound, Deciding
    <3>3. QED
      BY <3>2, AccountsAssumption
  <2>5. row.gh = jobs[i].arg => u \in Owner(jobs[i].arg)
    BY <2>1, <2>4 DEF GoodSave
  <2>6. QED
    BY <1>8, <2>1, <2>3, <2>5
<1>11. QED
  BY <1>2, <1>4, <1>5, <1>6, <1>7, <1>9, <1>10 DEF SignInSound

\* A request that begins and ends in one step, or one that ends.
LEMMA AtOnce ==
  ASSUME HandlersInv, NEW i \in Handlers, NEW S,
         \/ Begins(i, Free)
         \/ Ends(i) /\ ops' = ops /\ jobs[i].op \in S
  PROVE  /\ HandlersInv' /\ JobsWithin(S)
         /\ \A j \in Handlers : jobs'[j] = jobs[j] \/ jobs'[j].op = "none"
<1>1. Free.op = "none"
  BY DEF Free, Job
<1>2. CASE Begins(i, Free)
  <2>1. /\ HandlersInv' /\ jobs[i].op = "none"
        /\ \A j \in Handlers : jobs'[j] = IF j = i THEN Free ELSE jobs[j]
    BY <1>2, BeginsFacts
  <2>2. QED
    BY <1>1, <2>1 DEF JobsWithin
<1>3. CASE Ends(i) /\ ops' = ops /\ jobs[i].op \in S
  <2>1. /\ HandlersInv'
        /\ \A j \in Handlers : jobs'[j] = IF j = i THEN Free ELSE jobs[j]
    BY <1>3, EndsFacts
  <2>2. QED
    BY <1>1, <1>3, <2>1 DEF JobsWithin
<1>4. QED
  BY <1>2, <1>3

\* A save that gives and takes no administrator's right.
LEMMA SaveAdmin ==
  ASSUME AccountsInv, NEW u \in Users, NEW row \in UserRow, SaveUser(u, row),
         boots # 0, UNCHANGED boots,
         \A j \in Handlers : jobs'[j] = jobs[j] \/ jobs'[j].op = "none",
         \A a \in Rows : AdminIs(a) => (row.admin <=> u = a)
  PROVE  OneAdmin'
<1>1. CASE boots = 1
  <2>1. /\ \A v \in Users : users'[v] = IF v = u THEN row ELSE users[v]
        /\ Rows' = Rows \cup {u}
    BY SaveUserFacts DEF AccountsInv
  <2>2. PICK a \in Rows : AdminIs(a)
    BY <1>1 DEF AccountsInv, OneAdmin
  <2>3. row.admin <=> u = a
    BY <2>2
  <2>4. \A v \in Rows' : users'[v].admin <=> v = a
    BY <2>1, <2>2, <2>3 DEF AdminIs, Rows
  <2>5. \A j \in Handlers : KeepsAdmin(jobs'[j], a)
    <3> SUFFICES ASSUME NEW j \in Handlers PROVE KeepsAdmin(jobs'[j], a)
      OBVIOUS
    <3>1. CASE jobs'[j] = jobs[j]
      BY <2>2, <3>1 DEF AdminIs
    <3>2. CASE jobs'[j].op = "none"
      BY <3>2 DEF KeepsAdmin, HoldsCopy, CopyOps
    <3>3. QED
      BY <3>1, <3>2
  <2>6. AdminIs(a)'
    BY <2>4, <2>5 DEF AdminIs
  <2>7. QED
    BY <1>1, <2>1, <2>2, <2>6 DEF OneAdmin
<1>2. CASE boots # 1
  BY <1>2 DEF OneAdmin
<1>3. QED
  BY <1>1, <1>2

\* A first administrator is saved: the only user, or one of several requests to be
\* first.
LEMMA SaveFirst ==
  ASSUME AccountsInv, NEW u \in Users, NEW row \in UserRow, SaveUser(u, row),
         boots' = boots + 1, row.admin,
         \A j \in Handlers : jobs'[j] = jobs[j] \/ jobs'[j].op = "none"
  PROVE  OneAdmin'
<1>1. /\ \A v \in Users : users'[v] = IF v = u THEN row ELSE users[v]
      /\ Rows' = Rows \cup {u} /\ boots \in Nat
  BY SaveUserFacts DEF AccountsInv, UsersTyped
<1>2. CASE boots = 0
  <2>1. Rows = {} /\ \A j \in Handlers : ~NeedsUser(jobs[j])
    BY <1>2 DEF AccountsInv, OneAdmin
  <2>2. Rows' = {u} /\ users'[u].admin
    BY <1>1, <2>1
  <2>3. \A j \in Handlers : KeepsAdmin(jobs'[j], u)
    <3> SUFFICES ASSUME NEW j \in Handlers PROVE KeepsAdmin(jobs'[j], u)
      OBVIOUS
    <3>1. CASE jobs'[j] = jobs[j]
      BY <2>1, <3>1 DEF NeedsUser, KeepsAdmin
    <3>2. CASE jobs'[j].op = "none"
      BY <3>2 DEF KeepsAdmin, HoldsCopy, CopyOps
    <3>3. QED
      BY <3>1, <3>2
  <2>4. AdminIs(u)'
    BY <2>2, <2>3 DEF AdminIs
  <2>5. QED
    BY <1>2, <2>2, <2>4 DEF OneAdmin
<1>3. CASE boots # 0
  BY <1>1, <1>3 DEF OneAdmin
<1>4. QED
  BY <1>2, <1>3

\* A request ends with the save of such a row.
LEMMA RowSaved ==
  ASSUME AccountsInv, HandlersInv, NEW i \in Handlers, jobs[i].op \in AccountOps,
         Ends(i), ops' = ops, UNCHANGED oauth,
         NEW u \in Users, NEW row \in UserRow, SaveUser(u, row), GoodSave(u, row),
         \/ boots' = boots + 1 /\ row.admin
         \/ /\ boots # 0 /\ boots' = boots
            /\ \A a \in Rows : AdminIs(a) => (row.admin <=> u = a)
  PROVE  AccountsInv' /\ HandlersInv' /\ JobsWithin(AccountOps) /\ Rows \subseteq Rows'
<1>1. /\ HandlersInv' /\ JobsWithin(AccountOps)
      /\ \A j \in Handlers : jobs'[j] = jobs[j] \/ jobs'[j].op = "none"
  BY AtOnce
<1>2. boots' \in Nat
  BY DEF AccountsInv, UsersTyped
<1>3. UsersTyped' /\ RowsBorn' /\ CopiesSound' /\ DecidesAlone' /\ SignInSound'
  BY <1>1, <1>2, SaveSound
<1>4. OneAdmin'
  BY <1>1, SaveFirst, SaveAdmin
<1>5. Rows' = Rows \cup {u}
  BY SaveUserFacts DEF AccountsInv
<1>6. QED
  BY <1>1, <1>3, <1>4, <1>5 DEF AccountsInv

\* register saves the first administrator.
LEMMA RegisterSaveStep ==
  ASSUME AccountsInv, HandlersInv, NEW i \in Handlers, RegisterSave(i)
  PROVE  AccountsInv' /\ HandlersInv' /\ JobsWithin(AccountOps) /\ Rows \subseteq Rows'
<1> DEFINE row == [admin |-> TRUE, pw |-> 1, gh |-> None, token |-> FALSE]
<1>1. /\ jobs[i].op = "register" /\ Ends(i) /\ ops' = ops /\ boots' = boots + 1
      /\ UNCHANGED <<oauth, proved, blame>> /\ \E u \in Users : SaveUser(u, row)
  BY DEF RegisterSave, Held
<1>2. /\ row \in UserRow /\ row.admin /\ row.gh = None /\ row.token = FALSE
      /\ row.pw # None
  BY AccountsAssumption DEF UserRow
<1> HIDE DEF row
<1>3. PICK u \in Users : SaveUser(u, row)
  BY <1>1
<1>4. GoodSave(u, row) /\ jobs[i].op \in AccountOps
  BY <1>1, <1>2 DEF GoodSave, InTurn, AccountOps
<1>5. QED
  BY <1>1, <1>2, <1>3, <1>4, RowSaved

\* create_user adds an ordinary user.
LEMMA CreateUserSaveStep ==
  ASSUME AccountsInv, HandlersInv, NEW i \in Handlers, CreateUserSave(i)
  PROVE  AccountsInv' /\ HandlersInv' /\ JobsWithin(AccountOps) /\ Rows \subseteq Rows'
<1> DEFINE row == [admin |-> FALSE, pw |-> 1, gh |-> None, token |-> FALSE]
<1>1. /\ jobs[i].op = "create" /\ Ends(i) /\ ops' = ops
      /\ UNCHANGED <<oauth, proved, boots, blame>>
      /\ \E u \in Users : Fresh(u) /\ SaveUser(u, row)
  BY DEF CreateUserSave, Held, ghosts
<1>2. /\ row \in UserRow /\ row.admin = FALSE /\ row.gh = None /\ row.token = FALSE
      /\ row.pw # None
  BY AccountsAssumption DEF UserRow
<1> HIDE DEF row
<1>3. PICK u \in Users : Fresh(u) /\ SaveUser(u, row)
  BY <1>1
<1>4. GoodSave(u, row) /\ jobs[i].op \in AccountOps
  BY <1>1, <1>2 DEF GoodSave, InTurn, AccountOps
<1>5. boots # 0
  <2>1. NeedsUser(jobs[i])
    BY <1>1 DEF NeedsUser
  <2>2. QED
    BY <2>1 DEF AccountsInv, OneAdmin
<1>6. u \notin Rows
  BY <1>3 DEF AccountsInv, RowsBorn, Fresh
<1>7. \A a \in Rows : AdminIs(a) => (row.admin <=> u = a)
  BY <1>2, <1>6
<1>8. QED
  BY <1>1, <1>2, <1>3, <1>4, <1>5, <1>7, RowSaved

\* A copy is saved with its identity kept, given up or, by a link, taken: sound if it is
\* not stale and, for a link, nobody else was deciding about the identity.
LEMMA CopySaved ==
  ASSUME AccountsInv, HandlersInv, NEW i \in Handlers, HoldsCopy(jobs[i]),
         NEW row \in UserRow, SaveCopy(i, row),
         jobs[i].pc # "promote" => row.admin = jobs[i].row.admin,
         row.token => row.gh # None, row.pw # None \/ row.gh # None,
         \/ row.gh \in {jobs[i].row.gh, None}
         \/ jobs[i].op = "link" /\ Deciding(i) /\ row.gh = jobs[i].arg
  PROVE  AccountsInv' /\ HandlersInv' /\ JobsWithin(AccountOps) /\ Rows \subseteq Rows'
<1> DEFINE copy == jobs[i].row  u == jobs[i].u
<1>1. /\ Ends(i) /\ ops' = ops /\ SaveUser(u, row) /\ UNCHANGED <<oauth, proved, boots>>
      /\ blame' = blame \cup IF users[u] = copy THEN {} ELSE {"user"}
  BY DEF SaveCopy, Stale
<1>2. CopySound(jobs[i])
  BY DEF AccountsInv, CopiesSound
<1>3. /\ u \in Users /\ copy \in UserRow /\ copy # None
      /\ copy.gh # None => <<u, copy.gh>> \in proved
  BY <1>2 DEF CopySound, HoldsCopy
<1>4. boots # 0 /\ jobs[i].op \in AccountOps
  <2>1. NeedsUser(jobs[i]) /\ jobs[i].op \in AccountOps
    BY DEF NeedsUser, HoldsCopy, AccountOps
  <2>2. QED
    BY <2>1 DEF AccountsInv, OneAdmin
<1>5. InTurn' => InTurn /\ users[u] = copy
  BY <1>1 DEF InTurn
<1>6. \A j \in Handlers : Deciding(j)' => j # i /\ jobs'[j] = jobs[j] /\ Deciding(j)
  <2>1. Free.op = "none" /\ \A j \in Handlers : jobs'[j] = IF j = i THEN Free ELSE jobs[j]
    BY <1>1, EndsFacts DEF Free, Job
  <2>2. QED
    BY <2>1 DEF Deciding
<1>7. GoodSave(u, row)
  <2>1. CASE row.gh = None
    BY <1>1, <1>5, <2>1 DEF GoodSave
  <2>2. CASE row.gh = copy.gh /\ row.gh # None
    <3>1. copy.gh \in Identities /\ <<u, row.gh>> \in proved
      BY <1>3, <2>2 DEF UserRow
    <3>2. ASSUME InTurn' PROVE u \in Owner(row.gh) /\ Owner(row.gh) \subseteq {u}
      <4>1. u \in Owner(row.gh)
        BY <1>3, <1>5, <2>2, <3>2 DEF Owner, Exists
      <4>2. QED
        BY <1>5, <2>2, <3>1, <3>2, <4>1 DEF AccountsInv, SignInSound, OneOwner
    <3>3. QED
      BY <1>1, <1>5, <3>1, <3>2 DEF GoodSave
  <2>3. CASE jobs[i].op = "link" /\ Deciding(i) /\ row.gh = jobs[i].arg
    <3>1. <<u, row.gh>> \in proved
      BY <1>2, <2>3 DEF CopySound, Deciding
    <3>2. ASSUME InTurn'
          PROVE  /\ Owner(row.gh) \subseteq {u}
                 /\ \A j \in Handlers : Deciding(j)' => jobs'[j].arg # row.gh
      <4>1. /\ Owner(jobs[i].arg) \subseteq {jobs[i].u}
            /\ \A j \in Handlers : Deciding(j) /\ jobs[j].arg = jobs[i].arg => j = i
        BY <1>5, <2>3, <3>2 DEF AccountsInv, DecidesAlone
      <4>2. QED
        BY <1>6, <2>3, <4>1
    <3>3. QED
      BY <1>1, <1>5, <3>1, <3>2 DEF GoodSave
  <2>4. QED
    BY <2>1, <2>2, <2>3
<1>8. \A a \in Rows : AdminIs(a) => (row.admin <=> u = a)
  BY DEF AdminIs, KeepsAdmin
<1> HIDE DEF u, copy
<1>9. QED
  BY <1>1, <1>3, <1>4, <1>7, <1>8, RowSaved

\* change_password, github_unlink and github_disconnect save their copies.
LEMMA ChangeSaveStep ==
  ASSUME AccountsInv, HandlersInv, NEW i \in Handlers,
         ChangePasswordSave(i) \/ GithubUnlinkSave(i) \/ GithubDisconnectSave(i)
  PROVE  AccountsInv' /\ HandlersInv' /\ JobsWithin(AccountOps) /\ Rows \subseteq Rows'
<1> DEFINE copy == jobs[i].row
<1>1. jobs[i].op \in {"password", "unlink", "disconnect"}
      /\ jobs[i].pc \in {"hash", "save"}
  BY DEF ChangePasswordSave, GithubUnlinkSave, GithubDisconnectSave, Held
<1>2. CopySound(jobs[i])
  BY DEF AccountsInv, CopiesSound
<1>3. HoldsCopy(jobs[i])
  BY <1>1, <1>2 DEF CopySound, HoldsCopy, CopyOps
<1>4. /\ copy \in UserRow /\ (copy.token => copy.gh # None)
      /\ copy.pw # None \/ copy.gh # None
      /\ jobs[i].op = "unlink" => copy.pw # None
  BY <1>2, <1>3 DEF CopySound
<1>5. CASE ChangePasswordSave(i)
  <2> DEFINE row == [copy EXCEPT !.pw = 2]
  <2>1. SaveCopy(i, row)
    BY <1>5 DEF ChangePasswordSave
  <2>2. /\ row \in UserRow /\ row.admin = copy.admin /\ row.gh = copy.gh
        /\ row.token = copy.token /\ row.pw # None
    BY <1>4, AccountsAssumption DEF UserRow
  <2> HIDE DEF row
  <2>3. QED
    BY <1>3, <1>4, <2>1, <2>2, CopySaved
<1>6. CASE GithubUnlinkSave(i)
  <2> DEFINE row == [copy EXCEPT !.gh = None, !.token = FALSE]
  <2>1. SaveCopy(i, row) /\ copy.pw # None
    BY <1>4, <1>6 DEF GithubUnlinkSave, Held
  <2>2. /\ row \in UserRow /\ row.admin = copy.admin /\ row.gh = None
        /\ row.token = FALSE /\ row.pw = copy.pw
    BY <1>4 DEF UserRow
  <2> HIDE DEF row
  <2>3. QED
    BY <1>3, <2>1, <2>2, CopySaved
<1>7. CASE GithubDisconnectSave(i)
  <2> DEFINE row == [copy EXCEPT !.token = FALSE]
  <2>1. SaveCopy(i, row)
    BY <1>7 DEF GithubDisconnectSave
  <2>2. /\ row \in UserRow /\ row.admin = copy.admin /\ row.gh = copy.gh
        /\ row.token = FALSE /\ row.pw = copy.pw
    BY <1>4 DEF UserRow
  <2> HIDE DEF row
  <2>3. QED
    BY <1>3, <1>4, <2>1, <2>2, CopySaved
<1>8. QED
  BY <1>5, <1>6, <1>7

\* A link and the login of an owner save their copies.
LEMMA SignInSaveStep ==
  ASSUME AccountsInv, HandlersInv, NEW i \in Handlers, LinkSave(i) \/ LoginSave(i)
  PROVE  AccountsInv' /\ HandlersInv' /\ JobsWithin(AccountOps) /\ Rows \subseteq Rows'
<1> DEFINE copy == jobs[i].row
<1>1. CopySound(jobs[i])
  BY DEF AccountsInv, CopiesSound
<1>2. HoldsCopy(jobs[i]) /\ Deciding(i)
  BY <1>1 DEF LinkSave, LoginSave, Held, CopySound, HoldsCopy, CopyOps, Deciding
<1>3. copy \in UserRow /\ jobs[i].arg \in Identities /\ jobs[i].arg # None
  <2>1. copy \in UserRow /\ jobs[i].arg \in Identities
    BY <1>1, <1>2 DEF CopySound, Deciding
  <2>2. QED
    BY <2>1, AccountsAssumption
<1>4. CASE LinkSave(i)
  <2> DEFINE row == [copy EXCEPT !.gh = jobs[i].arg, !.token = TRUE]
  <2>1. SaveCopy(i, row) /\ jobs[i].op = "link"
    BY <1>4 DEF LinkSave, Held
  <2>2. row \in UserRow /\ row.admin = copy.admin /\ row.gh = jobs[i].arg
    BY <1>3 DEF UserRow
  <2> HIDE DEF row
  <2>3. QED
    BY <1>2, <1>3, <2>1, <2>2, CopySaved
<1>5. CASE LoginSave(i)
  <2> DEFINE adm == copy.admin \/ jobs[i].pc = "promote"
             row == [copy EXCEPT !.admin = adm, !.token = TRUE]
  <2>1. SaveCopy(i, row) /\ jobs[i].op = "login" /\ jobs[i].u # None
    BY <1>5 DEF LoginSave
  <2>2. copy.gh = jobs[i].arg
    BY <1>1, <1>2, <2>1 DEF CopySound, Deciding
  <2>3. adm \in BOOLEAN /\ copy.admin \in BOOLEAN
    BY <1>3 DEF UserRow
  <2>4. jobs[i].pc # "promote" => adm = copy.admin
    BY <2>3
  <2> HIDE DEF adm
  <2>5. row \in UserRow /\ row.admin = adm /\ row.gh = copy.gh
    BY <1>3, <2>3 DEF UserRow
  <2> HIDE DEF row
  <2>6. QED
    BY <1>2, <1>3, <2>1, <2>2, <2>4, <2>5, CopySaved
<1>6. QED
  BY <1>4, <1>5

\* A first login makes a user: the only one with the identity, unless another was
\* deciding about it.
LEMMA LoginCreateStep ==
  ASSUME AccountsInv, HandlersInv, NEW i \in Handlers, LoginCreate(i)
  PROVE  AccountsInv' /\ HandlersInv' /\ JobsWithin(AccountOps) /\ Rows \subseteq Rows'
<1> DEFINE g == jobs[i].arg
           row == [admin |-> TRUE, pw |-> None, gh |-> g, token |-> TRUE]
<1>1. /\ jobs[i].op = "login" /\ jobs[i].pc = "save" /\ jobs[i].u = None
      /\ Ends(i) /\ ops' = ops /\ boots' = boots + 1 /\ UNCHANGED <<oauth, blame>>
      /\ \E u \in Users : SaveUser(u, row) /\ proved' = proved \cup {<<u, g>>}
  BY DEF LoginCreate, Held
<1>2. Deciding(i) /\ CopySound(jobs[i])
  BY <1>1 DEF Deciding, AccountsInv, CopiesSound
<1>3. g \in Identities /\ g # None
  <2>1. g \in Identities
    BY <1>1, <1>2 DEF CopySound
  <2>2. QED
    BY <2>1, AccountsAssumption
<1>4. row \in UserRow /\ row.admin /\ row.gh = g
  BY <1>3 DEF UserRow
<1> HIDE DEF row
<1>5. PICK u \in Users : SaveUser(u, row) /\ proved' = proved \cup {<<u, g>>}
  BY <1>1
<1>6. \A j \in Handlers : Deciding(j)' => j # i /\ jobs'[j] = jobs[j] /\ Deciding(j)
  <2>1. Free.op = "none" /\ \A j \in Handlers : jobs'[j] = IF j = i THEN Free ELSE jobs[j]
    BY <1>1, EndsFacts DEF Free, Job
  <2>2. QED
    BY <2>1 DEF Deciding
<1>7. InTurn' => /\ InTurn /\ Owner(g) \subseteq {u}
                 /\ \A j \in Handlers : Deciding(j)' => jobs'[j].arg # g
  <2> SUFFICES ASSUME InTurn' PROVE <1>7!2
    OBVIOUS
  <2>1. InTurn
    BY <1>1 DEF InTurn
  <2>2. /\ Owner(g) \subseteq {None}
        /\ \A j \in Handlers : Deciding(j) /\ jobs[j].arg = g => j = i
    BY <1>1, <1>2, <2>1 DEF AccountsInv, DecidesAlone
  <2>3. Owner(g) = {}
    BY <2>2, AccountsAssumption DEF Owner
  <2>4. QED
    BY <1>6, <2>1, <2>2, <2>3
<1>8. GoodSave(u, row) /\ jobs[i].op \in AccountOps
  BY <1>1, <1>3, <1>4, <1>5, <1>7 DEF GoodSave, AccountOps, CopyOps
<1>9. QED
  BY <1>1, <1>4, <1>5, <1>8, RowSaved

\* A request begins, goes on or ends without a save of a user.
LEMMA JobStep ==
  ASSUME AccountsInv, HandlersInv, NEW i \in Handlers, NEW job,
         \/ Begins(i, job)
         \/ GoesOn(i, job) /\ ops' = ops /\ jobs[i].op \in AccountOps,
         job.op \in AccountOps \cup {"none"}, FitNext(i),
         UNCHANGED <<users, born, boots>>, proved \subseteq proved',
         \A s \in oauth' : s.at \in 0 .. MaxTime /\ s.purpose \in Users \cup {"login"},
         InTurn' => InTurn,
         \/ job.op \notin {"link", "login"} \/ job.pc = "exchange"
         \/ Deciding(i) /\ job.arg = jobs[i].arg /\ job.u = jobs[i].u
         \/ /\ ~Deciding(i)
            /\ InTurn' => /\ Owner(job.arg) \subseteq {job.u}
                          /\ \A j \in Handlers : Deciding(j) => jobs[j].arg # job.arg
  PROVE  AccountsInv' /\ HandlersInv' /\ JobsWithin(AccountOps) /\ Rows \subseteq Rows'
<1>1. /\ HandlersInv' /\ jobs[i].op \in AccountOps \cup {"none"}
      /\ \A j \in Handlers : jobs'[j] = IF j = i THEN job ELSE jobs[j]
  BY BeginsFacts, GoesOnFacts
<1>2. JobsWithin(AccountOps)
  BY <1>1 DEF JobsWithin
<1>3. \A g : Owner(g)' = Owner(g)
  BY DEF Owner, Exists
<1>4. DecidesAlone'
  <2>1. CASE \/ job.op \notin {"link", "login"} \/ job.pc = "exchange"
             \/ Deciding(i) /\ job.arg = jobs[i].arg /\ job.u = jobs[i].u
    <3>1. \A j \in Handlers :
            \/ jobs'[j] = jobs[j] \/ ~Deciding(j)'
            \/ Deciding(j) /\ jobs'[j].arg = jobs[j].arg /\ jobs'[j].u = jobs[j].u
      BY <1>1, <2>1 DEF Deciding
    <3>2. QED
      BY <1>3, <3>1, DecidesOn
  <2>2. CASE /\ ~Deciding(i)
             /\ InTurn' => /\ Owner(job.arg) \subseteq {job.u}
                           /\ \A j \in Handlers : Deciding(j) => jobs[j].arg # job.arg
    <3> SUFFICES ASSUME InTurn', NEW a \in Handlers, Deciding(a)'
                 PROVE  /\ Owner(jobs'[a].arg) \subseteq {jobs'[a].u}
                        /\ \A j \in Handlers :
                              Deciding(j)' /\ jobs'[j].arg = jobs'[a].arg => j = a
      BY <1>3 DEF DecidesAlone
    <3>1. \A j \in Handlers : j # i => (Deciding(j)' <=> Deciding(j)) /\ jobs'[j] = jobs[j]
      BY <1>1 DEF Deciding
    <3>2. jobs'[i] = job
      BY <1>1
    <3>3. CASE a = i
      BY <2>2, <3>1, <3>2, <3>3
    <3>4. CASE a # i
      <4>1. /\ Owner(jobs[a].arg) \subseteq {jobs[a].u}
            /\ \A j \in Handlers : Deciding(j) /\ jobs[j].arg = jobs[a].arg => j = a
        BY <3>1, <3>4 DEF AccountsInv, DecidesAlone
      <4>2. QED
        BY <2>2, <3>1, <3>2, <3>4, <4>1
    <3>5. QED
      BY <3>3, <3>4
  <2>3. QED
    BY <2>1, <2>2
<1>5. \A j \in Handlers : jobs'[j] = jobs[j] \/ FitNext(j)
  BY <1>1
<1>6. AccountsInv'
  BY <1>4, <1>5, AccountsSame
<1>7. QED
  BY <1>1, <1>2, <1>6 DEF Rows

\* A job with a copy of a row that is there fits.
LEMMA ReadFits ==
  ASSUME AccountsInv, NEW i \in Handlers, NEW u \in Rows, proved \subseteq proved',
         jobs'[i].op \in CopyOps, jobs'[i].u = u, jobs'[i].row = users[u],
         jobs'[i].pc # "promote",
         jobs'[i].op = "unlink" => users[u].pw # None,
         jobs'[i].op = "link" => jobs'[i].pc = "exchange" /\ jobs'[i].arg = u,
         jobs'[i].op = "login" => jobs'[i].arg \in Identities /\ users[u].gh = jobs'[i].arg
  PROVE  FitNext(i)
<1>1. /\ u \in Users /\ users[u] \in UserRow /\ users[u] # None /\ u # None
      /\ users[u].gh # None => <<u, users[u].gh>> \in proved
      /\ users[u].token => users[u].gh # None
      /\ users[u].pw # None \/ users[u].gh # None
  BY AccountsAssumption DEF Rows, AccountsInv, UsersTyped, SignInSound, LinkedByOwner, CanSignIn
<1>2. CopySound(jobs[i])'
  BY <1>1 DEF CopySound, HoldsCopy, CopyOps
<1>3. boots # 0
  BY DEF AccountsInv, OneAdmin
<1>4. ASSUME NEW a \in Rows, AdminIs(a)
      PROVE  KeepsAdmin(jobs'[i], a)
  BY <1>1, <1>4 DEF AdminIs, KeepsAdmin, CopyOps
<1>5. QED
  BY <1>2, <1>3, <1>4 DEF FitNext

\* Requests that read a row, spend or give out an oauth state, or end.
ReadingStep(i) ==
  \/ Register(i)
  \/ \E u \in Users : \/ ChangePassword(i, u) \/ CreateUser(i, u)
                      \/ GithubUnlink(i, u) \/ GithubDisconnect(i, u)
  \/ \E a, u \in Users : DeleteUser(i, a, u)
  \/ \E p \in Users \cup {"login"} : AuthorizeUrl(i, p)
  \/ \E s \in oauth, u \in Users : Callback(i, s, u)
  \/ ExchangeFails(i)

\* What they hold on to is as sound as the rows.
LEMMA ReadStep ==
  ASSUME AccountsInv, HandlersInv, now \in 0 .. MaxTime, NEW i \in Handlers,
         ReadingStep(i)
  PROVE  AccountsInv' /\ HandlersInv' /\ JobsWithin(AccountOps) /\ Rows \subseteq Rows'
<1> DEFINE Dated(s) == s.at \in 0 .. MaxTime /\ s.purpose \in Users \cup {"login"}
           Goal == /\ AccountsInv' /\ HandlersInv' /\ JobsWithin(AccountOps)
                   /\ Rows \subseteq Rows'
<1>1. UNCHANGED <<users, born, boots, proved, blame>>
  BY DEF ReadingStep, Register, ChangePassword, CreateUser, GithubUnlink,
         GithubDisconnect, DeleteUser, AuthorizeUrl, Callback, ExchangeFails, ghosts
<1>2. proved \subseteq proved' /\ (InTurn' => InTurn)
  BY <1>1 DEF InTurn
<1>3. \A s \in oauth' : Dated(s)
  <2>1. \A s \in oauth : Dated(s)
    BY DEF AccountsInv, UsersTyped
  <2>2. ASSUME NEW p \in Users \cup {"login"}, AuthorizeUrl(i, p)
        PROVE  \A s \in oauth' : Dated(s)
    <3> DEFINE new == [n |-> ops, at |-> now, purpose |-> p]
    <3>1. \A s \in oauth' : s \in oauth \/ s = new
      BY <2>2 DEF AuthorizeUrl
    <3>2. new.at = now /\ new.purpose = p
      OBVIOUS
    <3> HIDE DEF new
    <3>3. QED
      BY <2>1, <3>1, <3>2
  <2>3. CASE oauth' \subseteq oauth
    BY <2>1, <2>3
  <2>4. QED
    BY <2>2, <2>3 DEF ReadingStep, Register, ChangePassword, CreateUser, GithubUnlink,
         GithubDisconnect, DeleteUser, Callback, ExchangeFails
\* A job of no account, or of none yet.
<1>4. ASSUME NEW job, Begins(i, job), job.op \in AccountOps \cup {"none"},
             job.op \notin {"link", "login"} \/ job.pc = "exchange",
             jobs'[i] = job => FitNext(i)
      PROVE  Goal
  <2>1. jobs'[i] = job
    BY <1>4, BeginsFacts
  <2>2. QED
    BY <1>1, <1>2, <1>3, <1>4, <2>1, JobStep
<1>5. ASSUME NEW job, Begins(i, job), NEW u \in Rows,
             job.op \in {"password", "link", "unlink", "disconnect"},
             job.u = u, job.row = users[u],
             job.pc \in {"hash", "save", "exchange"},
             job.op = "unlink" => users[u].pw # None,
             job.op = "link" => job.pc = "exchange" /\ job.arg = u
      PROVE  Goal
  <2>1. job.op \in CopyOps /\ job.op \in AccountOps
    BY <1>5 DEF CopyOps, AccountOps
  <2>2. jobs'[i] = job => FitNext(i)
    BY <1>2, <1>5, <2>1, ReadFits
  <2>3. QED
    BY <1>4, <1>5, <2>1, <2>2
<1>6. ASSUME Begins(i, Free) \/ (Ends(i) /\ ops' = ops /\ jobs[i].op \in AccountOps)
      PROVE  Goal
  <2>1. Free.op = "none" /\ Free.op \notin AccountOps
    BY DEF Free, Job, AccountOps, CopyOps
  <2>2. jobs'[i] = Free
    BY <1>6, BeginsFacts, EndsFacts
  <2>3. FitNext(i)
    BY <2>1, <2>2, NoJobFits DEF FitNext, CopySound
  <2>4. QED
    BY <1>1, <1>2, <1>3, <1>6, <2>1, <2>3, JobStep DEF Ends
<1> HIDE DEF Goal
<1>7. ASSUME Register(i)
      PROVE  Goal
  <2> DEFINE job == Job("register", "hash", None, None, None)
  <2>1. Begins(i, job) /\ job.op = "register"
    BY <1>7 DEF Register, Job
  <2> HIDE DEF job
  <2>2. job.op \in AccountOps
    BY <2>1 DEF AccountOps
  <2>3. jobs'[i] = job => FitNext(i)
    BY <2>1 DEF FitNext, CopySound, HoldsCopy, NeedsUser, KeepsAdmin, CopyOps
  <2>4. QED
    BY <1>4, <2>1, <2>2, <2>3
<1>8. ASSUME NEW u \in Users, CreateUser(i, u)
      PROVE  Goal
  <2> DEFINE job == Job("create", "hash", None, None, None)
  <2>1. Begins(i, job) /\ job.op = "create" /\ u \in Rows
    BY <1>8 DEF CreateUser, Job, IsAdmin, Exists, Rows
  <2> HIDE DEF job
  <2>2. job.op \in AccountOps
    BY <2>1 DEF AccountOps
  <2>3. boots # 0
    BY <2>1 DEF AccountsInv, OneAdmin
  <2>4. jobs'[i] = job => FitNext(i)
    BY <2>1, <2>3 DEF FitNext, CopySound, HoldsCopy, NeedsUser, KeepsAdmin, CopyOps
  <2>5. QED
    BY <1>4, <2>1, <2>2, <2>4
<1>9. ASSUME NEW u \in Users, ChangePassword(i, u)
      PROVE  Goal
  <2> DEFINE job == Job("password", "hash", u, None, users[u])
  <2>1. /\ Begins(i, job) /\ job.op = "password" /\ job.u = u /\ job.row = users[u]
        /\ job.pc = "hash" /\ u \in Rows
    BY <1>9 DEF ChangePassword, Job, Exists, Rows
  <2> HIDE DEF job
  <2>2. QED
    BY <1>5, <2>1
<1>10. ASSUME NEW u \in Users, GithubUnlink(i, u)
       PROVE  Goal
  <2> DEFINE job == Job("unlink", "save", u, None, users[u])
  <2>1. /\ Begins(i, job) /\ job.op = "unlink" /\ job.u = u /\ job.row = users[u]
        /\ job.pc = "save" /\ u \in Rows /\ users[u].pw # None
    BY <1>10 DEF GithubUnlink, MayUnlink, Job, Exists, Rows
  <2> HIDE DEF job
  <2>2. QED
    BY <1>5, <2>1
<1>11. ASSUME NEW u \in Users, GithubDisconnect(i, u)
       PROVE  Goal
  <2> DEFINE job == Job("disconnect", "save", u, None, users[u])
  <2>1. /\ Begins(i, job) /\ job.op = "disconnect" /\ job.u = u /\ job.row = users[u]
        /\ job.pc = "save" /\ u \in Rows
    BY <1>11 DEF GithubDisconnect, Job, Exists, Rows
  <2> HIDE DEF job
  <2>2. QED
    BY <1>5, <2>1
<1>12. ASSUME NEW a \in Users, NEW u \in Users, DeleteUser(i, a, u)
       PROVE  Goal
  <2> DEFINE job == Job("delete", "teardown", u, None, None)
  <2>1. /\ Begins(i, job) /\ job.op = "delete" /\ job.u = u
        /\ u \in Rows /\ a \in Rows /\ users[a].admin /\ a # u
    BY <1>12 DEF DeleteUser, MayDelete, IsAdmin, Job, Exists, Rows
  <2> HIDE DEF job
  <2>2. job.op \in AccountOps
    BY <2>1 DEF AccountOps
  <2>3. boots # 0
    BY <2>1 DEF AccountsInv, OneAdmin
  <2>4. \A b \in Rows : AdminIs(b) => a = b
    BY <2>1 DEF AdminIs
  <2>5. jobs'[i] = job => FitNext(i)
    BY <2>1, <2>3, <2>4 DEF FitNext, CopySound, HoldsCopy, NeedsUser, KeepsAdmin, CopyOps
  <2>6. QED
    BY <1>4, <2>1, <2>2, <2>5
<1>13. ASSUME NEW p \in Users \cup {"login"}, AuthorizeUrl(i, p)
       PROVE  Goal
  BY <1>6, <1>13 DEF AuthorizeUrl
<1>14. ASSUME NEW s \in oauth, NEW u \in Users, Callback(i, s, u)
       PROVE  Goal
  <2> DEFINE login == Job("login", "exchange", None, None, None)
             link == Job("link", "exchange", u, s.purpose, users[u])
  <2>1. \/ Begins(i, Free) \/ Begins(i, login)
        \/ Begins(i, link) /\ u = s.purpose /\ u \in Rows
    BY <1>14 DEF Callback, MayFinish, Exists, Rows
  <2>2. /\ login.op = "login" /\ login.pc = "exchange" /\ login.u = None
        /\ login.row = None
        /\ link.op = "link" /\ link.pc = "exchange" /\ link.u = u
        /\ link.arg = s.purpose /\ link.row = users[u]
    BY DEF Job
  <2> HIDE DEF login, link
  <2>3. CASE Begins(i, login)
    <3>1. login.op \in AccountOps
      BY <2>2 DEF AccountOps, CopyOps
    <3>2. jobs'[i] = login => FitNext(i)
      BY <2>2 DEF FitNext, CopySound, HoldsCopy, NeedsUser, KeepsAdmin, CopyOps
    <3>3. QED
      BY <1>4, <2>2, <2>3, <3>1, <3>2
  <2>4. CASE Begins(i, link) /\ u = s.purpose /\ u \in Rows
    BY <1>5, <2>2, <2>4
  <2>5. QED
    BY <1>6, <2>1, <2>3, <2>4
<1>15. ASSUME ExchangeFails(i)
       PROVE  Goal
  <2>1. Ends(i) /\ ops' = ops /\ jobs[i].op \in AccountOps
    BY <1>15 DEF ExchangeFails, Held, AccountOps, CopyOps
  <2>2. QED
    BY <1>6, <2>1
<1>16. Goal
  BY <1>7, <1>8, <1>9, <1>10, <1>11, <1>12, <1>13, <1>14, <1>15 DEF ReadingStep
<1>17. QED
  BY <1>16 DEF Goal

\* The owner of the identity is looked up: from now on the request decides about it, and
\* an overlap with another that does is remembered.
LEMMA OwnerStep ==
  ASSUME AccountsInv, HandlersInv, NEW i \in Handlers, NEW g \in Identities,
         LinkOwner(i, g) \/ LoginOwner(i, g)
  PROVE  AccountsInv' /\ HandlersInv' /\ JobsWithin(AccountOps) /\ Rows \subseteq Rows'
<1> DEFINE u == jobs[i].u
<1>1. /\ UNCHANGED <<users, born, boots, oauth>> /\ ops' = ops /\ proved \subseteq proved'
      /\ jobs[i].op \in {"link", "login"} /\ jobs[i].pc = "exchange"
      /\ blame \subseteq blame'
  BY DEF LinkOwner, LoginOwner, Held
<1>2. \A s \in oauth' : s.at \in 0 .. MaxTime /\ s.purpose \in Users \cup {"login"}
  BY <1>1 DEF AccountsInv, UsersTyped
<1>3. (InTurn' => InTurn) /\ ~Deciding(i) /\ jobs[i].op \in AccountOps
  BY <1>1 DEF InTurn, Deciding, AccountOps, CopyOps
<1>4. CopySound(jobs[i])
  BY DEF AccountsInv, CopiesSound
<1>5. ASSUME blame' = blame \cup Overlap(g), InTurn'
      PROVE  InTurn /\ \A j \in Handlers : Deciding(j) => jobs[j].arg # g
  BY <1>5 DEF InTurn, Overlap
<1>6. ASSUME NEW o \in Found(g), MayLink(u, o), LinkOwner(i, g), jobs[i].op = "link",
             GoesOn(i, Job("link", "save", u, g, jobs[i].row)),
             blame' = blame \cup Overlap(g)
      PROVE  AccountsInv' /\ HandlersInv' /\ JobsWithin(AccountOps) /\ Rows \subseteq Rows'
  <2> DEFINE job == Job("link", "save", u, g, jobs[i].row)
  <2>1. /\ GoesOn(i, job) /\ blame' = blame \cup Overlap(g) /\ jobs[i].op = "link"
        /\ proved' = proved \cup {<<jobs[i].arg, g>>}
    BY <1>6 DEF LinkOwner
  <2>2. /\ job.op = "link" /\ job.pc = "save" /\ job.u = u /\ job.arg = g
        /\ job.row = jobs[i].row
    BY DEF Job
  <2> HIDE DEF job
  <2>3. jobs'[i] = job
    BY <1>1, <2>1, GoesOnFacts
  <2>4. jobs[i].arg = u /\ jobs[i].row # None /\ HoldsCopy(jobs[i])
    BY <1>1, <1>4, <2>1 DEF CopySound, HoldsCopy, CopyOps
  <2>5. CopySound(jobs[i])'
    BY <1>1, <1>4, <2>1, <2>2, <2>3, <2>4 DEF CopySound, HoldsCopy, CopyOps
  <2>6. boots # 0
    BY <2>4 DEF AccountsInv, OneAdmin, NeedsUser
  <2>7. \A a \in Rows : AdminIs(a) => KeepsAdmin(jobs'[i], a)
    BY <2>2, <2>3, <2>4 DEF AdminIs, KeepsAdmin
  <2>8. FitNext(i)
    BY <2>5, <2>6, <2>7 DEF FitNext
  <2>9. InTurn' => /\ Owner(job.arg) \subseteq {job.u}
                   /\ \A j \in Handlers : Deciding(j) => jobs[j].arg # job.arg
    <3>1. None \notin Owner(g)
      BY AccountsAssumption DEF Owner
    <3>2. Owner(g) = {} \/ u \in Owner(g)
      BY <1>6, <3>1 DEF MayLink, Found
    <3>3. InTurn' => Owner(g) \subseteq {u}
      BY <1>5, <1>6, <3>2 DEF AccountsInv, SignInSound, OneOwner
    <3>4. QED
      BY <1>5, <1>6, <2>2, <3>3
  <2>10. job.op \in AccountOps
    BY <2>2 DEF AccountOps, CopyOps
  <2>11. QED
    BY <1>1, <1>2, <1>3, <2>1, <2>8, <2>9, <2>10, JobStep
<1>7. ASSUME Ends(i)
      PROVE  AccountsInv' /\ HandlersInv' /\ JobsWithin(AccountOps) /\ Rows \subseteq Rows'
  <2>1. GoesOn(i, Free)
    BY <1>7 DEF Ends
  <2>2. Free.op = "none" /\ Free.op \notin AccountOps
    BY DEF Free, Job, AccountOps, CopyOps
  <2>3. jobs'[i] = Free
    BY <1>1, <2>1, GoesOnFacts
  <2>4. FitNext(i)
    BY <2>2, <2>3, NoJobFits DEF FitNext, CopySound
  <2>5. QED
    BY <1>1, <1>2, <1>3, <2>1, <2>2, <2>4, JobStep
<1>8. ASSUME NEW o \in Owner(g), GoesOn(i, Job("login", "found", o, g, users[o])),
             blame' = blame \cup Overlap(g)
      PROVE  AccountsInv' /\ HandlersInv' /\ JobsWithin(AccountOps) /\ Rows \subseteq Rows'
  <2> DEFINE job == Job("login", "found", o, g, users[o])
  <2>1. /\ job.op = "login" /\ job.pc = "found" /\ job.u = o /\ job.arg = g
        /\ job.row = users[o] /\ GoesOn(i, job)
    BY <1>8 DEF Job
  <2> HIDE DEF job
  <2>2. jobs'[i] = job
    BY <1>1, <2>1, GoesOnFacts
  <2>3. o \in Rows /\ users[o].gh = g
    BY DEF Owner, Exists, Rows
  <2>4. job.op \in CopyOps /\ job.op \in AccountOps
    BY <2>1 DEF CopyOps, AccountOps
  <2>5. FitNext(i)
    BY <1>1, <2>1, <2>2, <2>3, <2>4, ReadFits
  <2>6. InTurn' => /\ Owner(job.arg) \subseteq {job.u}
                   /\ \A j \in Handlers : Deciding(j) => jobs[j].arg # job.arg
    BY <1>5, <1>8, <2>1 DEF AccountsInv, SignInSound, OneOwner
  <2>7. QED
    BY <1>1, <1>2, <1>3, <2>1, <2>4, <2>5, <2>6, JobStep
<1>9. ASSUME Owner(g) = {}, GoesOn(i, Job("login", "found", None, g, None)),
             blame' = blame \cup Overlap(g)
      PROVE  AccountsInv' /\ HandlersInv' /\ JobsWithin(AccountOps) /\ Rows \subseteq Rows'
  <2> DEFINE job == Job("login", "found", None, g, None)
  <2>1. /\ job.op = "login" /\ job.pc = "found" /\ job.u = None /\ job.arg = g
        /\ job.row = None /\ GoesOn(i, job)
    BY <1>9 DEF Job
  <2> HIDE DEF job
  <2>2. jobs'[i] = job
    BY <1>1, <2>1, GoesOnFacts
  <2>3. FitNext(i)
    BY <2>1, <2>2 DEF FitNext, CopySound, HoldsCopy, NeedsUser, KeepsAdmin, CopyOps
  <2>4. InTurn' => /\ Owner(job.arg) \subseteq {job.u}
                   /\ \A j \in Handlers : Deciding(j) => jobs[j].arg # job.arg
    BY <1>5, <1>9, <2>1
  <2>5. job.op \in AccountOps
    BY <2>1 DEF AccountOps, CopyOps
  <2>6. QED
    BY <1>1, <1>2, <1>3, <2>1, <2>3, <2>4, <2>5, JobStep
<1>10. CASE LinkOwner(i, g)
  <2>1. PICK o \in Found(g) :
           IF MayLink(u, o)
           THEN /\ GoesOn(i, Job("link", "save", u, g, jobs[i].row))
                /\ blame' = blame \cup Overlap(g)
           ELSE Ends(i) /\ UNCHANGED blame
    BY <1>10 DEF LinkOwner
  <2>2. jobs[i].op = "link"
    BY <1>10 DEF LinkOwner, Held
  <2>3. QED
    BY <1>6, <1>7, <1>10, <2>1, <2>2
<1>11. CASE LoginOwner(i, g)
  <2>1. PICK o \in Found(g) :
           GoesOn(i, Job("login", "found", o, g, IF o = None THEN None ELSE users[o]))
    BY <1>11 DEF LoginOwner
  <2>2. blame' = blame \cup Overlap(g)
    BY <1>11 DEF LoginOwner
  <2>3. CASE o = None
    <3>1. None \notin Owner(g)
      BY AccountsAssumption DEF Owner
    <3>2. Owner(g) = {}
      BY <2>1, <2>3, <3>1 DEF Found
    <3>3. QED
      BY <1>9, <2>1, <2>2, <2>3, <3>2
  <2>4. CASE o # None
    <3>1. o \in Owner(g)
      BY <2>1, <2>4 DEF Found
    <3>2. QED
      BY <1>8, <2>1, <2>2, <2>4, <3>1
  <2>5. QED
    BY <2>3, <2>4
<1>12. QED
  BY <1>10, <1>11

\* A login learns what to save: with a single administrator, nobody is promoted.
LEMMA LoginDecideStep ==
  ASSUME AccountsInv, HandlersInv, NEW i \in Handlers, LoginDecide(i)
  PROVE  AccountsInv' /\ HandlersInv' /\ JobsWithin(AccountOps) /\ Rows \subseteq Rows'
<1> DEFINE old == jobs[i]
<1>1. /\ UNCHANGED <<users, born, boots, oauth, proved, blame>> /\ ops' = ops
      /\ old.op = "login" /\ old.pc = "found"
  BY DEF LoginDecide, Held, ghosts
<1>2. \A s \in oauth' : s.at \in 0 .. MaxTime /\ s.purpose \in Users \cup {"login"}
  BY <1>1 DEF AccountsInv, UsersTyped
<1>3. (InTurn' => InTurn) /\ proved \subseteq proved' /\ Deciding(i) /\ old.op \in AccountOps
  BY <1>1 DEF InTurn, Deciding, AccountOps, CopyOps
<1>4. CopySound(jobs[i])
  BY DEF AccountsInv, CopiesSound
<1>5. ASSUME NEW pc \in {"save", "promote"},
             GoesOn(i, Job("login", pc, old.u, old.arg, old.row)),
             pc = "promote" => old.u # None /\ \A v \in Rows : ~users[v].admin
      PROVE  AccountsInv' /\ HandlersInv' /\ JobsWithin(AccountOps) /\ Rows \subseteq Rows'
  <2> DEFINE job == Job("login", pc, old.u, old.arg, old.row)
  <2>1. /\ job.op = "login" /\ job.pc = pc /\ job.u = old.u /\ job.arg = old.arg
        /\ job.row = old.row /\ GoesOn(i, job)
    BY <1>5 DEF Job
  <2> HIDE DEF job
  <2>2. jobs'[i] = job
    BY <1>1, <2>1, GoesOnFacts
  <2>3. CopySound(jobs[i])'
    BY <1>1, <1>4, <2>1, <2>2 DEF CopySound, HoldsCopy, CopyOps
  <2>4. NeedsUser(jobs'[i]) => boots # 0
    <3>1. NeedsUser(jobs'[i]) => NeedsUser(jobs[i])
      BY <1>1, <2>1, <2>2 DEF NeedsUser, HoldsCopy
    <3>2. QED
      BY <3>1 DEF AccountsInv, OneAdmin
  <2>5. \A a \in Rows : AdminIs(a) => KeepsAdmin(jobs'[i], a)
    BY <1>1, <1>5, <2>1, <2>2 DEF AdminIs, KeepsAdmin, HoldsCopy
  <2>6. FitNext(i)
    BY <2>3, <2>4, <2>5 DEF FitNext
  <2>7. job.op \in AccountOps
    BY <2>1 DEF AccountOps, CopyOps
  <2>8. QED
    BY <1>1, <1>2, <1>3, <2>1, <2>6, <2>7, JobStep
<1>6. ASSUME GoesOn(i, Free)
      PROVE  AccountsInv' /\ HandlersInv' /\ JobsWithin(AccountOps) /\ Rows \subseteq Rows'
  <2>1. Free.op = "none" /\ Free.op \notin AccountOps
    BY DEF Free, Job, AccountOps, CopyOps
  <2>2. jobs'[i] = Free
    BY <1>1, <1>6, GoesOnFacts
  <2>3. FitNext(i)
    BY <2>1, <2>2, NoJobFits DEF FitNext, CopySound
  <2>4. QED
    BY <1>1, <1>2, <1>3, <1>6, <2>1, <2>3, JobStep
<1>7. CASE old.u # None
  <2> DEFINE pc == IF old.row.admin \/ \E v \in Rows : users[v].admin
                   THEN "save" ELSE "promote"
  <2>1. GoesOn(i, Job("login", pc, old.u, old.arg, old.row))
    BY <1>7 DEF LoginDecide
  <2>2. pc \in {"save", "promote"} /\ (pc = "promote" => \A v \in Rows : ~users[v].admin)
    OBVIOUS
  <2> HIDE DEF pc
  <2>3. QED
    BY <1>5, <1>7, <2>1, <2>2
<1>8. CASE old.u = None
  <2>1. old.row = None
    BY <1>1, <1>4, <1>8 DEF CopySound
  <2>2. GoesOn(i, Job("login", "save", old.u, old.arg, old.row)) \/ GoesOn(i, Free)
    BY <1>8, <2>1 DEF LoginDecide, Ends
  <2>3. QED
    BY <1>5, <1>6, <2>2
<1>9. QED
  BY <1>7, <1>8

\* The row of a user is removed; never the first administrator's while that is the
\* only one.
LEMMA DeleteUserRowStep ==
  ASSUME AccountsInv, HandlersInv, NEW i \in Handlers, DeleteUserRow(i)
  PROVE  /\ AccountsInv' /\ HandlersInv' /\ JobsWithin(AccountOps)
         /\ Rows' = Rows \ {jobs[i].u}
<1> DEFINE u == jobs[i].u
<1>1. /\ jobs[i].op = "delete" /\ Ends(i) /\ ops' = ops
      /\ users' = [users EXCEPT ![u] = None]
      /\ UNCHANGED <<born, oauth, proved, boots, blame>>
  BY DEF DeleteUserRow, Held, ghosts
<1>2. u \in Users /\ boots \in Nat /\ boots # 0
  <2>1. CopySound(jobs[i]) /\ NeedsUser(jobs[i])
    BY <1>1 DEF AccountsInv, CopiesSound, NeedsUser
  <2>2. QED
    BY <1>1, <2>1 DEF CopySound, AccountsInv, UsersTyped, OneAdmin
<1>3. /\ HandlersInv' /\ JobsWithin(AccountOps)
      /\ \A j \in Handlers : jobs'[j] = jobs[j] \/ jobs'[j].op = "none"
  BY <1>1, AtOnce DEF AccountOps
<1>4. /\ users' \in [Users -> UserRow \cup {None}]
      /\ \A v \in Users : users'[v] = IF v = u THEN None ELSE users[v]
  BY <1>1, <1>2 DEF AccountsInv, UsersTyped
<1>5. Rows' = Rows \ {u}
  BY <1>4 DEF Rows
<1>6. UsersTyped' /\ RowsBorn'
  BY <1>1, <1>4, <1>5 DEF AccountsInv, UsersTyped, RowsBorn, Rows
<1>7. CopiesSound'
  <2> SUFFICES ASSUME NEW j \in Handlers
               PROVE  CopySound(jobs[j])'
    BY DEF CopiesSound
  <2>1. CASE jobs'[j] = jobs[j]
    BY <1>1, <2>1, CopyStaysSound DEF AccountsInv, CopiesSound
  <2>2. CASE jobs'[j].op = "none"
    BY <2>2 DEF CopySound, HoldsCopy, CopyOps
  <2>3. QED
    BY <1>3, <2>1, <2>2
<1>8. LinkedByOwner' /\ CanSignIn'
  BY <1>1, <1>4, <1>5 DEF AccountsInv, SignInSound, LinkedByOwner, CanSignIn, Rows
<1>9. (\A g : Owner(g)' \subseteq Owner(g)) /\ (InTurn' => InTurn)
  BY <1>1, <1>4 DEF Owner, Exists, InTurn
<1>10. OneOwner'
  BY <1>9 DEF AccountsInv, SignInSound, OneOwner
<1>11. DecidesAlone'
  <2>1. \A j \in Handlers : jobs'[j] = jobs[j] \/ ~Deciding(j)'
    BY <1>3 DEF Deciding
  <2>2. QED
    BY <1>9, <2>1, DecidesOn
<1>12. OneAdmin'
  <2>1. CASE boots = 1
    <3>1. PICK a \in Rows : AdminIs(a)
      BY <2>1 DEF AccountsInv, OneAdmin
    <3>2. u # a
      BY <1>1, <3>1 DEF AdminIs, KeepsAdmin
    <3>3. a \in Rows' /\ \A v \in Rows' : users'[v].admin <=> v = a
      BY <1>4, <1>5, <3>1, <3>2 DEF AdminIs, Rows
    <3>4. \A j \in Handlers : KeepsAdmin(jobs'[j], a)
      <4> SUFFICES ASSUME NEW j \in Handlers PROVE KeepsAdmin(jobs'[j], a)
        OBVIOUS
      <4>1. CASE jobs'[j] = jobs[j]
        BY <3>1, <4>1 DEF AdminIs
      <4>2. CASE jobs'[j].op = "none"
        BY <4>2 DEF KeepsAdmin, HoldsCopy, CopyOps
      <4>3. QED
        BY <1>3, <4>1, <4>2
    <3>5. AdminIs(a)'
      BY <3>3, <3>4 DEF AdminIs
    <3>6. QED
      BY <1>1, <2>1, <3>3, <3>5 DEF OneAdmin
  <2>2. CASE boots # 1
    BY <1>1, <1>2, <2>2 DEF OneAdmin
  <2>3. QED
    BY <2>1, <2>2
<1>13. QED
  BY <1>3, <1>5, <1>6, <1>7, <1>8, <1>10, <1>11, <1>12 DEF AccountsInv, SignInSound

\* A set of numbers that is not empty has a least one.
LEMMA LeastPlace ==
  ASSUME NEW T \in SUBSET Nat, T # {}
  PROVE  \E x \in T : \A y \in T : x <= y
<1> DEFINE R == OpToRel(<, Nat)
<1>1. IsWellFoundedOn(R, Nat)
  BY NatLessThanWellFounded
<1>2. \A x, y \in Nat : y < x => <<y, x>> \in R
  BY DEF OpToRel
<1> HIDE DEF R
<1>3. PICK x \in T : \A y \in T : ~(<<y, x>> \in R)
  BY <1>1, WFMin
<1>4. \A y \in T : x \in Nat /\ y \in Nat /\ ~(y < x)
  BY <1>2, <1>3
<1>5. \A y \in T : x <= y
  BY <1>4
<1>6. QED
  BY <1>5

\* bootstrap_admin_user: there is an oldest user, and that one becomes administrator
\* when there is none; nothing else of any row changes.
LEMMA BootstrapFacts ==
  ASSUME AccountsInv, BootstrapAdmin
  PROVE  /\ users' \in [Users -> UserRow \cup {None}] /\ Rows' = Rows
         /\ Rows # {} => \E u \in Rows : users'[u].admin
         /\ Rows = {} \/ (\E u \in Rows : users[u].admin) => users' = users
         /\ \A v \in Rows : /\ users'[v].gh = users[v].gh
                            /\ users'[v].pw = users[v].pw
                            /\ users'[v].token = users[v].token
<1>1. users \in [Users -> UserRow \cup {None}] /\ born \in [Users -> Nat]
  BY DEF AccountsInv, UsersTyped
<1>2. CASE Rows = {} \/ \E u \in Rows : users[u].admin
  <2>1. users' = users
    BY <1>2 DEF BootstrapAdmin
  <2>2. QED
    BY <1>1, <1>2, <2>1 DEF Rows
<1>3. CASE Rows # {} /\ \A u \in Rows : ~users[u].admin
  <2> DEFINE first == CHOOSE u \in Rows : \A v \in Rows : born[u] <= born[v]
             T == {born[u] : u \in Rows}
  <2>1. \E u \in Rows : \A v \in Rows : born[u] <= born[v]
    <3>1. T \in SUBSET Nat /\ T # {}
      BY <1>1, <1>3 DEF Rows
    <3>2. PICK x \in T : \A y \in T : x <= y
      BY <3>1, LeastPlace
    <3>3. QED
      BY <3>2
  <2>2. first \in Rows
    BY <2>1
  <2>3. users' = [users EXCEPT ![first].admin = TRUE]
    BY <1>3 DEF BootstrapAdmin
  <2> HIDE DEF first
  <2>4. first \in Users /\ users[first] \in UserRow /\ users[first] # None
    BY <1>1, <2>2 DEF Rows
  <2> DEFINE row == [users[first] EXCEPT !.admin = TRUE]
  <2>5. /\ row \in UserRow /\ row.admin /\ row.gh = users[first].gh
        /\ row.pw = users[first].pw /\ row.token = users[first].token /\ row # None
    BY <2>4, AccountsAssumption DEF UserRow
  <2>6. users' = [users EXCEPT ![first] = row]
    BY <2>3
  <2> HIDE DEF row
  <2>7. /\ users' \in [Users -> UserRow \cup {None}]
        /\ \A v \in Users : users'[v] = IF v = first THEN row ELSE users[v]
    BY <1>1, <2>4, <2>5, <2>6
  <2>8. Rows' = Rows
    BY <2>4, <2>5, <2>7 DEF Rows
  <2>9. QED
    BY <1>3, <2>2, <2>4, <2>5, <2>7, <2>8 DEF Rows
<1>4. QED
  BY <1>2, <1>3

\* A restart ends every request and makes sure of an administrator.
LEMMA AccountsRestart ==
  ASSUME AccountsInv, Restart
  PROVE  AccountsInv' /\ Rows' = Rows
<1>1. /\ jobs' = [j \in Handlers |-> Free] /\ oauth' = {} /\ BootstrapAdmin
      /\ blame \subseteq blame' /\ UNCHANGED <<born, proved, boots>>
  BY DEF Restart
<1>2. /\ users' \in [Users -> UserRow \cup {None}] /\ Rows' = Rows
      /\ Rows = {} \/ (\E u \in Rows : users[u].admin) => users' = users
      /\ \A v \in Rows : /\ users'[v].gh = users[v].gh
                         /\ users'[v].pw = users[v].pw
                         /\ users'[v].token = users[v].token
  BY <1>1, BootstrapFacts
<1>3. \A j \in Handlers : jobs'[j].op = "none"
  BY <1>1 DEF Free, Job
<1>4. \A j \in Handlers : CopySound(jobs[j])' /\ ~NeedsUser(jobs'[j]) /\ ~Deciding(j)'
  BY <1>3 DEF CopySound, NeedsUser, HoldsCopy, CopyOps, Deciding
<1>5. UsersTyped' /\ RowsBorn' /\ CopiesSound' /\ DecidesAlone'
  BY <1>1, <1>2, <1>4 DEF AccountsInv, UsersTyped, RowsBorn, CopiesSound, DecidesAlone
<1>6. LinkedByOwner' /\ CanSignIn'
  BY <1>1, <1>2 DEF AccountsInv, SignInSound, LinkedByOwner, CanSignIn
<1>7. OneOwner'
  <2>1. \A g : Owner(g)' = Owner(g)
    BY <1>2 DEF Owner, Exists, Rows
  <2>2. InTurn' => InTurn
    BY <1>1 DEF InTurn
  <2>3. QED
    BY <2>1, <2>2 DEF AccountsInv, SignInSound, OneOwner
<1>8. OneAdmin'
  <2>1. CASE boots = 0
    BY <1>1, <1>2, <1>4, <2>1 DEF AccountsInv, OneAdmin
  <2>2. CASE boots = 1
    <3>1. PICK a \in Rows : AdminIs(a)
      BY <2>2 DEF AccountsInv, OneAdmin
    <3>2. users' = users
      BY <1>2, <3>1 DEF AdminIs
    <3>3. \A j \in Handlers : KeepsAdmin(jobs'[j], a)
      BY <1>3 DEF KeepsAdmin, HoldsCopy, CopyOps
    <3>4. \A u \in Rows' : users'[u].admin <=> u = a
      BY <1>2, <3>1, <3>2 DEF AdminIs
    <3>5. AdminIs(a)'
      BY <3>3, <3>4 DEF AdminIs
    <3>6. QED
      BY <1>1, <1>2, <2>2, <3>1, <3>5 DEF OneAdmin
  <2>3. CASE boots # 0 /\ boots # 1
    BY <1>1, <2>3 DEF OneAdmin
  <2>4. QED
    BY <2>1, <2>2, <2>3
<1>9. QED
  BY <1>1, <1>2, <1>5, <1>6, <1>7, <1>8 DEF AccountsInv, SignInSound

\* Every step of the accounts but the removal of a row.
AccountStep(i) ==
  \/ ReadingStep(i)
  \/ RegisterSave(i) \/ CreateUserSave(i)
  \/ ChangePasswordSave(i) \/ GithubUnlinkSave(i) \/ GithubDisconnectSave(i)
  \/ \E g \in Identities : LinkOwner(i, g) \/ LoginOwner(i, g)
  \/ LinkSave(i) \/ LoginDecide(i) \/ LoginSave(i) \/ LoginCreate(i)

\* They keep accounts sound.
LEMMA AccountFamily ==
  ASSUME AccountsInv, HandlersInv, now \in 0 .. MaxTime, NEW i \in Handlers,
         AccountStep(i)
  PROVE  AccountsInv' /\ HandlersInv' /\ JobsWithin(AccountOps) /\ Rows \subseteq Rows'
<1>1. CASE ReadingStep(i)
  BY <1>1, ReadStep
<1>2. CASE RegisterSave(i) \/ CreateUserSave(i)
  BY <1>2, RegisterSaveStep, CreateUserSaveStep
<1>3. CASE ChangePasswordSave(i) \/ GithubUnlinkSave(i) \/ GithubDisconnectSave(i)
  BY <1>3, ChangeSaveStep
<1>4. CASE \E g \in Identities : LinkOwner(i, g) \/ LoginOwner(i, g)
  BY <1>4, OwnerStep
<1>5. CASE LinkSave(i) \/ LoginSave(i)
  BY <1>5, SignInSaveStep
<1>6. CASE LoginDecide(i) \/ LoginCreate(i)
  BY <1>6, LoginDecideStep, LoginCreateStep
<1>7. QED
  BY <1>1, <1>2, <1>3, <1>4, <1>5, <1>6 DEF AccountStep

-----------------------------------------------------------------------------
(* All families together *)

\* A step leaves alone whatever family has neither its rows nor its requests changed.
LEMMA LeftAlone ==
  ASSUME IInv, NEW S, JobsWithin(S), blame \subseteq blame', Rows \subseteq Rows',
         ops' \in {ops, ops + 1}
  PROVE  /\ UNCHANGED <<users, born, oauth, proved, boots>> /\ S \cap AccountOps = {}
              => AccountsInv'
         /\ UNCHANGED <<gate, now>> => GateInv'
         /\ UNCHANGED <<buckets, store>> /\ S \cap BucketOps = {} => BucketInv'
         /\ UNCHANGED registries /\ S \cap RegistryOps = {} => RegistryInv'
         /\ UNCHANGED <<app, remote, made>> /\ S \cap AppOps = {} => AppInv'
<1>1. \A j \in Handlers : jobs'[j] = jobs[j] \/ jobs'[j].op \in S \cup {"none"}
  BY DEF JobsWithin
<1>2. \A x : x \notin blame' => x \notin blame
  OBVIOUS
<1>3. \A rows : Owned(rows) => \A b \in rows : Exists(b.u)'
  BY DEF Owned, Exists, Rows, OwnedRow
<1>4. ASSUME UNCHANGED <<users, born, oauth, proved, boots>>, S \cap AccountOps = {}
      PROVE  AccountsInv'
  <2>1. \A j \in Handlers : jobs'[j] = jobs[j] \/ jobs'[j].op \notin AccountOps
    BY <1>1, <1>4 DEF AccountOps, CopyOps
  <2>2. \A s \in oauth' : s.at \in 0 .. MaxTime /\ s.purpose \in Users \cup {"login"}
    BY <1>4 DEF IInv, AccountsInv, UsersTyped
  <2>3. \A j \in Handlers : jobs'[j] = jobs[j] \/ FitNext(j)
    <3> SUFFICES ASSUME NEW j \in Handlers, jobs'[j].op \notin AccountOps
                 PROVE  FitNext(j)
      BY <2>1
    <3>1. CopySound(jobs[j])'
      BY DEF CopySound, HoldsCopy, AccountOps, CopyOps
    <3>2. QED
      BY <3>1, NoJobFits DEF FitNext
  <2>4. InTurn' => InTurn
    BY <1>2 DEF InTurn
  <2>5. DecidesAlone'
    <3>1. \A g : Owner(g)' \subseteq Owner(g)
      BY <1>4 DEF Owner, Exists
    <3>2. \A j \in Handlers : jobs'[j] = jobs[j] \/ ~Deciding(j)'
      BY <2>1 DEF Deciding, AccountOps, CopyOps
    <3>3. QED
      BY <2>4, <3>1, <3>2, DecidesOn DEF IInv
  <2>6. QED
    BY <1>4, <2>2, <2>3, <2>4, <2>5, AccountsSame DEF IInv
<1>5. ASSUME UNCHANGED <<gate, now>>
      PROVE  GateInv'
  BY <1>5, GateQuiet DEF IInv
<1>6. ASSUME UNCHANGED <<buckets, store>>, S \cap BucketOps = {}
      PROVE  BucketInv'
  <2>1. buckets' \subseteq buckets /\ \A b \in buckets' : Exists(b.u)'
    BY <1>3, <1>6 DEF IInv, BucketInv
  <2>2. QED
    BY <1>2, <1>6, <2>1, BucketQuiet DEF IInv
<1>7. ASSUME UNCHANGED registries, S \cap RegistryOps = {}
      PROVE  RegistryInv'
  <2>1. registries' \subseteq registries /\ \A b \in registries' : Exists(b.u)'
    BY <1>3, <1>7 DEF IInv, RegistryInv
  <2>2. \A j \in Handlers : jobs'[j] = jobs[j] \/ jobs'[j].op # "mkregistry"
    BY <1>1, <1>7 DEF RegistryOps
  <2>3. QED
    BY <1>2, <2>1, <2>2, RegistryQuiet DEF IInv
<1>8. ASSUME UNCHANGED <<app, remote, made>>, S \cap AppOps = {}
      PROVE  AppInv'
  <2>1. /\ app' \in [Users -> AppRow \cup {None}] /\ remote' = remote /\ remote \subseteq {1}
        /\ \A u \in Users : app'[u] = app[u] \/ app'[u] = None
    BY <1>8 DEF IInv, AppInv, AppsTyped
  <2>2. \A j \in Handlers : jobs'[j] = jobs[j] \/ jobs'[j].op \notin AppOps
    BY <1>1, <1>8 DEF AppOps
  <2>3. ops \in Nat /\ ops' \in Nat /\ ops <= ops'
    BY AccountsAssumption DEF IInv, HandlersInv
  <2>4. QED
    BY <1>2, <1>8, <2>1, <2>2, <2>3, AppQuiet DEF IInv
<1>9. QED
  BY <1>4, <1>5, <1>6, <1>7, <1>8

\* Accounts.
LEMMA AccountsPreserve ==
  ASSUME IInv, NEW i \in Handlers, AccountStep(i)
  PROVE  IInv'
<1>1. AccountsInv' /\ HandlersInv' /\ JobsWithin(AccountOps) /\ Rows \subseteq Rows'
  BY AccountFamily DEF IInv, GateInv
<1>2. /\ UNCHANGED <<gate, world, now, made>> /\ blame \subseteq blame'
      /\ ops' \in {ops, ops + 1}
  <2>1. CASE ReadingStep(i)
    BY <2>1 DEF ReadingStep, Register, ChangePassword, GithubUnlink, GithubDisconnect,
       CreateUser, DeleteUser, AuthorizeUrl, Callback, ExchangeFails, ghosts, Begins
  <2>2. QED
    BY <2>1 DEF AccountStep, RegisterSave, CreateUserSave, ChangePasswordSave,
       GithubUnlinkSave, GithubDisconnectSave, LinkOwner, LoginOwner, LinkSave,
       LoginDecide, LoginSave, LoginCreate, SaveCopy, ghosts
<1>3. /\ AccountOps \cap BucketOps = {} /\ AccountOps \cap RegistryOps = {}
      /\ AccountOps \cap AppOps = {}
  BY DEF AccountOps, CopyOps, BucketOps, RegistryOps, AppOps
<1>4. UNCHANGED <<buckets, store, registries, app, remote>>
  BY <1>2 DEF world
<1>5. GateInv' /\ BucketInv' /\ RegistryInv' /\ AppInv'
  BY <1>1, <1>2, <1>3, <1>4, LeftAlone
<1>6. QED
  BY <1>1, <1>5 DEF IInv

\* Removal of a user: what the user owns goes in the same transaction.
LEMMA DeletePreserves ==
  ASSUME IInv, NEW i \in Handlers, DeleteUserRow(i)
  PROVE  IInv'
<1>1. /\ AccountsInv' /\ HandlersInv' /\ JobsWithin(AccountOps)
      /\ Rows' = Rows \ {jobs[i].u}
  BY DeleteUserRowStep DEF IInv
<1>2. /\ buckets' = {b \in buckets : b.u # jobs[i].u}
      /\ registries' = {b \in registries : b.u # jobs[i].u}
      /\ app' = [app EXCEPT ![jobs[i].u] = None]
      /\ UNCHANGED <<gate, store, remote, now, made, blame, ops>>
  BY DEF DeleteUserRow, Cascade, ghosts
<1>3. \A b \in buckets' \cup registries' : Exists(b.u)'
  BY <1>1, <1>2 DEF IInv, BucketInv, RegistryInv, Owned, OwnedRow, Exists, Rows
<1>4. \A j \in Handlers : jobs'[j] = jobs[j] \/ jobs'[j].op \in AccountOps \cup {"none"}
  BY <1>1 DEF JobsWithin
<1>5. GateInv'
  BY <1>2, GateQuiet DEF IInv
<1>6. BucketInv'
  <2>1. AccountOps \cap BucketOps = {}
    BY DEF AccountOps, CopyOps, BucketOps
  <2>2. buckets' \subseteq buckets /\ store' = store /\ blame' = blame
    BY <1>2
  <2>3. QED
    BY <1>1, <1>3, <2>1, <2>2, BucketQuiet DEF IInv
<1>7. RegistryInv'
  <2>1. \A j \in Handlers : jobs'[j] = jobs[j] \/ jobs'[j].op # "mkregistry"
    BY <1>4 DEF AccountOps, CopyOps
  <2>2. registries' \subseteq registries /\ blame' = blame
    BY <1>2
  <2>3. QED
    BY <1>3, <2>1, <2>2, RegistryQuiet DEF IInv
<1>8. AppInv'
  <2>1. /\ app' \in [Users -> AppRow \cup {None}]
        /\ \A u \in Users : app'[u] = app[u] \/ app'[u] = None
    BY <1>2 DEF IInv, AppInv, AppsTyped
  <2>2. \A j \in Handlers : jobs'[j] = jobs[j] \/ jobs'[j].op \notin AppOps
    BY <1>4 DEF AccountOps, CopyOps, AppOps
  <2>3. remote' = remote /\ remote \subseteq {1} /\ UNCHANGED <<made, blame>>
    BY <1>2 DEF IInv, AppInv, AppsTyped
  <2>4. ops \in Nat /\ ops' \in Nat /\ ops <= ops'
    BY <1>2, AccountsAssumption DEF IInv, HandlersInv
  <2>5. QED
    BY <2>1, <2>2, <2>3, <2>4, AppQuiet DEF IInv
<1>9. QED
  BY <1>1, <1>5, <1>6, <1>7, <1>8 DEF IInv

\* Buckets.
LEMMA BucketsPreserve ==
  ASSUME IInv, NEW i \in Handlers, BucketStep(i)
  PROVE  IInv'
<1>1. BucketInv' /\ HandlersInv' /\ JobsWithin(BucketOps)
  BY BucketFamily DEF IInv
<1>2. /\ UNCHANGED <<users, born, oauth, gate, now, proved, boots, made>>
      /\ UNCHANGED <<registries, app, remote>> /\ blame \subseteq blame'
      /\ ops' \in {ops, ops + 1}
  BY DEF BucketStep, CreateBucket, CreateBucketSend, CreateBucketSave, DeleteBucket,
         DeleteBucketSend, DeleteBucketRow, StorageFails, RefreshSizes,
         RefreshSizesSave, ghosts, world, Begins
<1>3. /\ BucketOps \cap AccountOps = {} /\ BucketOps \cap RegistryOps = {}
      /\ BucketOps \cap AppOps = {}
  BY DEF AccountOps, CopyOps, BucketOps, RegistryOps, AppOps
<1>4. Rows \subseteq Rows'
  BY <1>2 DEF Rows
<1>5. AccountsInv' /\ GateInv' /\ RegistryInv' /\ AppInv'
  BY <1>1, <1>2, <1>3, <1>4, LeftAlone
<1>6. QED
  BY <1>1, <1>5 DEF IInv

\* Credentials.
LEMMA RegistriesPreserve ==
  ASSUME IInv, NEW i \in Handlers,
         \/ \E u \in Users : CreateRegistry(i, u)
         \/ CreateRegistrySave(i)
         \/ \E r \in registries : DeleteRegistry(i, r)
  PROVE  IInv'
<1>1. RegistryInv' /\ HandlersInv' /\ JobsWithin(RegistryOps)
  BY CreateRegistryStep, CreateRegistrySaveStep, DeleteRegistryStep DEF IInv
<1>2. /\ UNCHANGED <<users, born, oauth, gate, now, proved, boots, made>>
      /\ UNCHANGED <<buckets, store, app, remote>> /\ blame \subseteq blame'
      /\ ops' \in {ops, ops + 1}
  BY DEF CreateRegistry, CreateRegistrySave, DeleteRegistry, ghosts, world, Begins
<1>3. /\ RegistryOps \cap AccountOps = {} /\ RegistryOps \cap BucketOps = {}
      /\ RegistryOps \cap AppOps = {}
  BY DEF AccountOps, CopyOps, BucketOps, RegistryOps, AppOps
<1>4. Rows \subseteq Rows'
  BY <1>2 DEF Rows
<1>5. AccountsInv' /\ GateInv' /\ BucketInv' /\ AppInv'
  BY <1>1, <1>2, <1>3, <1>4, LeftAlone
<1>6. QED
  BY <1>1, <1>5 DEF IInv

\* GitHub apps.
LEMMA AppsPreserve ==
  ASSUME IInv, NEW i \in Handlers, AppStep(i)
  PROVE  IInv'
<1>1. AppInv' /\ HandlersInv' /\ JobsWithin(AppOps)
  BY AppFamily DEF IInv
<1>2. /\ UNCHANGED <<users, born, oauth, gate, now, proved, boots>>
      /\ UNCHANGED <<buckets, store, registries>> /\ blame \subseteq blame'
      /\ ops' \in {ops, ops + 1}
  BY DEF AppStep, GithubAppCallback, DeleteGithubApp, SyncInstallations,
         GithubInstallCallback, SyncInstallationsSave, GithubInstallCallbackSave,
         GithubAppCallbackSave, ConversionFails, ListInstallationsFails, ghosts, world,
         Begins
<1>3. /\ AppOps \cap AccountOps = {} /\ AppOps \cap BucketOps = {}
      /\ AppOps \cap RegistryOps = {}
  BY DEF AccountOps, CopyOps, BucketOps, RegistryOps, AppOps
<1>4. Rows \subseteq Rows'
  BY <1>2 DEF Rows
<1>5. AccountsInv' /\ GateInv' /\ BucketInv' /\ RegistryInv'
  BY <1>1, <1>2, <1>3, <1>4, LeftAlone
<1>6. QED
  BY <1>1, <1>5 DEF IInv

\* The gate, GitHub and the clock.
LEMMA GatePreserves ==
  ASSUME IInv,
         \/ \E i \in Handlers, u \in Users : CreateGatePass(i, u)
         \/ \E t \in tokens : GateCallback(t) \/ GateVisit(t)
         \/ Tick \/ Install
  PROVE  IInv'
<1>1. HandlersInv' /\ JobsWithin({})
  <2>1. ASSUME NEW i \in Handlers, NEW u \in Users, CreateGatePass(i, u)
        PROVE  HandlersInv' /\ JobsWithin({})
    <3>1. Begins(i, Free)
      BY <2>1 DEF CreateGatePass
    <3>2. QED
      BY <3>1, AtOnce DEF IInv
  <2>2. CASE UNCHANGED <<jobs, ops>>
    BY <2>2 DEF IInv, HandlersInv, JobsWithin
  <2>3. QED
    BY <2>1, <2>2 DEF GateCallback, GateVisit, Tick, Install
<1>2. /\ UNCHANGED <<users, born, oauth, proved, boots>>
      /\ UNCHANGED <<buckets, store, registries, app, made, blame>>
      /\ ops' \in {ops, ops + 1}
  BY DEF CreateGatePass, GateCallback, GateVisit, Tick, Install, ghosts, world, Begins
<1>3. Rows \subseteq Rows' /\ blame \subseteq blame'
  BY <1>2 DEF Rows
<1>4. GateInv'
  <2>1. CASE Install
    BY <2>1, GateQuiet DEF Install, IInv
  <2>2. QED
    BY <2>1, GateStep DEF IInv
<1>5. AppInv'
  <2>1. remote \subseteq remote' /\ remote' \subseteq {1}
    BY DEF CreateGatePass, GateCallback, GateVisit, Tick, Install, world, IInv, AppInv,
           AppsTyped
  <2>2. \A j \in Handlers : jobs'[j] = jobs[j] \/ jobs'[j].op \notin AppOps
    BY <1>1 DEF JobsWithin, AppOps
  <2>3. /\ app' \in [Users -> AppRow \cup {None}]
        /\ \A u \in Users : app'[u] = app[u] \/ app'[u] = None
    BY <1>2 DEF IInv, AppInv, AppsTyped
  <2>4. ops \in Nat /\ ops' \in Nat /\ ops <= ops'
    BY <1>2, AccountsAssumption DEF IInv, HandlersInv
  <2>5. QED
    BY <1>2, <2>1, <2>2, <2>3, <2>4, AppQuiet DEF IInv
<1>6. AccountsInv' /\ BucketInv' /\ RegistryInv'
  BY <1>1, <1>2, <1>3, LeftAlone
<1>7. QED
  BY <1>1, <1>4, <1>5, <1>6 DEF IInv

\* A request ends without its save, of whatever family it is.
LEMMA AbandonedPreserves ==
  ASSUME IInv, NEW i \in Handlers, Abandoned(i)
  PROVE  IInv'
<1>1. /\ Ends(i) /\ ops' = ops /\ blame' = blame \cup BrokenOff({i})
      /\ UNCHANGED <<users, born, oauth, proved, boots, made, gate, now>>
      /\ UNCHANGED <<buckets, store, registries, app, remote>>
  BY DEF Abandoned, world
<1>2. /\ HandlersInv' /\ Free.op = "none"
      /\ \A j \in Handlers : jobs'[j] = IF j = i THEN Free ELSE jobs[j]
  BY <1>1, EndsFacts DEF IInv, Free, Job
<1>3. JobsWithin({jobs[i].op}) /\ \A j \in Handlers : jobs'[j] = jobs[j] \/ jobs'[j].op = "none"
  BY <1>2 DEF JobsWithin
<1>4. Rows' = Rows /\ \A x : x \notin blame' => x \notin blame
  BY <1>1 DEF Rows
<1>5. GateInv'
  BY <1>1, GateQuiet DEF IInv
<1>6. \A b \in buckets' \cup registries' : Exists(b.u)'
  BY <1>1 DEF IInv, BucketInv, RegistryInv, Owned, Exists
<1>7. BucketInv'
  <2>1. {i} \in SUBSET Handlers
    OBVIOUS
  <2>2. \A j \in Handlers : jobs'[j] = IF j \in {i} THEN Free ELSE jobs[j]
    BY <1>2
  <2>3. QED
    BY <1>1, <1>6, <2>1, <2>2, BucketBrokenOff DEF IInv
<1>8. RegistryInv'
  <2>1. registries' \subseteq registries
        /\ \A j \in Handlers : jobs'[j] = jobs[j] \/ jobs'[j].op # "mkregistry"
    BY <1>1, <1>3
  <2>2. QED
    BY <1>4, <1>6, <2>1, RegistryQuiet DEF IInv
<1>9. AppInv'
  <2>1. /\ app' \in [Users -> AppRow \cup {None}]
        /\ \A u \in Users : app'[u] = app[u] \/ app'[u] = None
        /\ remote' = remote /\ remote \subseteq {1}
    BY <1>1 DEF IInv, AppInv, AppsTyped
  <2>2. \A j \in Handlers : jobs'[j] = jobs[j] \/ jobs'[j].op \notin AppOps
    BY <1>3 DEF AppOps
  <2>3. ops \in Nat /\ ops' \in Nat /\ ops <= ops'
    BY <1>1, AccountsAssumption DEF IInv, HandlersInv
  <2>4. QED
    BY <1>1, <1>4, <2>1, <2>2, <2>3, AppQuiet DEF IInv
<1>10. AccountsInv'
  <2>1. \A s \in oauth' : s.at \in 0 .. MaxTime /\ s.purpose \in Users \cup {"login"}
    BY <1>1 DEF IInv, AccountsInv, UsersTyped
  <2>2. \A j \in Handlers : jobs'[j] = jobs[j] \/ FitNext(j)
    <3> SUFFICES ASSUME NEW j \in Handlers, jobs'[j].op = "none"
                 PROVE  FitNext(j)
      BY <1>3
    <3>1. jobs'[j].op \notin AccountOps
      BY DEF AccountOps, CopyOps
    <3>2. CopySound(jobs[j])'
      BY DEF CopySound, HoldsCopy, CopyOps
    <3>3. QED
      BY <3>1, <3>2, NoJobFits DEF FitNext
  <2>3. InTurn' => InTurn
    BY <1>4 DEF InTurn
  <2>4. DecidesAlone'
    <3>1. \A g : Owner(g)' \subseteq Owner(g)
      BY <1>1 DEF Owner, Exists
    <3>2. \A j \in Handlers : jobs'[j] = jobs[j] \/ ~Deciding(j)'
      BY <1>3 DEF Deciding
    <3>3. QED
      BY <2>3, <3>1, <3>2, DecidesOn DEF IInv
  <2>5. QED
    BY <1>1, <2>1, <2>2, <2>3, <2>4, AccountsSame DEF IInv
<1>11. QED
  BY <1>2, <1>5, <1>7, <1>8, <1>9, <1>10 DEF IInv

\* A crash and restart.
LEMMA RestartPreserves ==
  ASSUME IInv, Restart
  PROVE  IInv'
<1>1. AccountsInv' /\ Rows' = Rows
  BY AccountsRestart DEF IInv
<1>2. /\ jobs' = [j \in Handlers |-> Free] /\ blame' = blame \cup BrokenOff(Handlers)
      /\ UNCHANGED <<gate, buckets, store, registries, app, remote, now, made, ops>>
  BY DEF Restart, world
<1>3. \A j \in Handlers : jobs'[j] = Free /\ jobs'[j].op = "none"
  BY <1>2 DEF Free, Job
<1>4. HandlersInv'
  BY <1>2, <1>3 DEF IInv, HandlersInv
<1>5. \A b \in buckets' \cup registries' : Exists(b.u)'
  BY <1>1, <1>2 DEF IInv, BucketInv, RegistryInv, Owned, OwnedRow, Exists, Rows
<1>6. GateInv'
  BY <1>2, GateQuiet DEF IInv
<1>7. BucketInv'
  <2>1. /\ Handlers \in SUBSET Handlers
        /\ \A j \in Handlers : jobs'[j] = IF j \in Handlers THEN Free ELSE jobs[j]
    BY <1>3
  <2>2. QED
    BY <1>2, <1>5, <2>1, BucketBrokenOff DEF IInv
<1>8. RegistryInv'
  <2>1. registries' \subseteq registries /\ ("registry" \notin blame' => "registry" \notin blame)
    BY <1>2
  <2>2. \A j \in Handlers : jobs'[j] = jobs[j] \/ jobs'[j].op # "mkregistry"
    BY <1>3
  <2>3. QED
    BY <1>5, <2>1, <2>2, RegistryQuiet DEF IInv
<1>9. AppInv'
  <2>1. /\ app' \in [Users -> AppRow \cup {None}]
        /\ \A u \in Users : app'[u] = app[u] \/ app'[u] = None
        /\ remote' = remote /\ remote \subseteq {1}
    BY <1>2 DEF IInv, AppInv, AppsTyped
  <2>2. \A j \in Handlers : jobs'[j] = jobs[j] \/ jobs'[j].op \notin AppOps
    BY <1>3 DEF AppOps
  <2>3. "app" \notin blame' => "app" \notin blame
    BY <1>2
  <2>4. ops \in Nat /\ ops' \in Nat /\ ops <= ops'
    BY <1>2, AccountsAssumption DEF IInv, HandlersInv
  <2>5. QED
    BY <1>2, <2>1, <2>2, <2>3, <2>4, AppQuiet DEF IInv
<1>10. QED
  BY <1>1, <1>4, <1>6, <1>7, <1>8, <1>9 DEF IInv

-----------------------------------------------------------------------------
(* The theorems *)

\* The invariant holds before the first request ...
LEMMA InitIInv == Init => IInv
<1> SUFFICES ASSUME Init PROVE IInv
  OBVIOUS
<1>1. /\ Rows = {} /\ \A u \in Users : users[u] = None
      /\ \A i \in Handlers : jobs[i].op = "none" /\ jobs[i].pc = "none"
  BY DEF Init, Rows, Free, Job
<1>2. \A g : Owner(g) = {}
  BY <1>1 DEF Owner, Exists
<1>3. AccountsInv
  <2>1. UsersTyped
    BY DEF Init, UsersTyped
  <2>2. RowsBorn /\ CopiesSound /\ OneAdmin /\ DecidesAlone
    BY <1>1 DEF Init, RowsBorn, CopiesSound, OneAdmin, DecidesAlone, Deciding,
                CopySound, HoldsCopy, CopyOps, NeedsUser
  <2>3. SignInSound
    BY <1>1, <1>2 DEF SignInSound, LinkedByOwner, CanSignIn, OneOwner
  <2>4. QED
    BY <2>1, <2>2, <2>3 DEF AccountsInv
<1>4. GateInv
  BY AccountsAssumption DEF Init, GateInv, TokensBounded, AccessExpires
<1>5. BucketInv
  BY <1>1 DEF Init, BucketInv, Owned, BucketJobs, OneBucket, Held
<1>6. RegistryInv
  BY <1>1 DEF Init, RegistryInv, Owned, RegistryJobs, OneRegistry,
              RegistryUnambiguous, MatchingRegistries
<1>7. AppInv
  BY <1>1 DEF Init, AppInv, AppsTyped, AppJobs, NewestAppCounts, OneCallback, MadeBefore
<1>8. HandlersInv
  BY AccountsAssumption DEF Init, HandlersInv
<1>9. QED
  BY <1>3, <1>4, <1>5, <1>6, <1>7, <1>8 DEF IInv

\* ... and every step of a handler, of the gate, of GitHub, of the clock and every
\* crash keeps it.
LEMMA NextIInv == IInv /\ [Next]_vars => IInv'
<1> SUFFICES ASSUME IInv, [Next]_vars PROVE IInv'
  OBVIOUS
<1>1. CASE UNCHANGED vars
  <2>1. /\ UNCHANGED <<users, born, oauth, jobs, gate, now, proved, boots, made, blame>>
        /\ UNCHANGED <<registries, buckets, store, app, remote, ops>>
    BY <1>1 DEF vars, world, ghosts
  <2>2. JobsWithin({}) /\ Rows \subseteq Rows' /\ HandlersInv'
    BY <2>1 DEF JobsWithin, Rows, IInv, HandlersInv
  <2>3. AccountsInv' /\ GateInv' /\ BucketInv' /\ RegistryInv' /\ AppInv'
    <3>1. ops' \in {ops, ops + 1} /\ blame \subseteq blame'
      BY <2>1
    <3>2. QED
      BY <2>1, <2>2, <3>1, LeftAlone
  <2>4. QED
    BY <2>2, <2>3 DEF IInv
<1>2. ASSUME NEW i \in Handlers, Requests(i)
      PROVE  IInv'
  <2>1. ASSUME \/ Register(i)
               \/ \E u \in Users : \/ ChangePassword(i, u) \/ CreateUser(i, u)
                                   \/ GithubUnlink(i, u) \/ GithubDisconnect(i, u)
        PROVE  IInv'
    BY <2>1, AccountsPreserve DEF AccountStep, ReadingStep
  <2>2. ASSUME NEW u \in Users, CreateGatePass(i, u)
        PROVE  IInv'
    BY <2>2, GatePreserves
  <2>3. ASSUME NEW u \in Users, CreateBucket(i, u)
        PROVE  IInv'
    BY <2>3, BucketsPreserve DEF BucketStep
  <2>4. ASSUME NEW u \in Users, CreateRegistry(i, u)
        PROVE  IInv'
    BY <2>4, RegistriesPreserve
  <2>5. ASSUME NEW u \in Users,
               \/ GithubAppCallback(i, u) \/ DeleteGithubApp(i, u)
               \/ GetGithubApp(i, u) \/ GetAppRepos(i, u)
               \/ GithubInstallCallback(i, u)
        PROVE  IInv'
    BY <2>5, AppsPreserve DEF AppStep, GetGithubApp, GetAppRepos
  <2>6. ASSUME NEW a \in Users, NEW u \in Users,
               DeleteUser(i, a, u)
        PROVE  IInv'
    BY <2>6, AccountsPreserve DEF AccountStep, ReadingStep
  <2>7. ASSUME \/ \E p \in Users \cup {"login"} : AuthorizeUrl(i, p)
               \/ \E s \in oauth, u \in Users : Callback(i, s, u)
        PROVE  IInv'
    BY <2>7, AccountsPreserve DEF AccountStep, ReadingStep
  <2>8. ASSUME NEW b \in buckets, DeleteBucket(i, b) \/ RefreshSizes(i, b)
        PROVE  IInv'
    BY <2>8, BucketsPreserve DEF BucketStep
  <2>9. ASSUME NEW r \in registries, DeleteRegistry(i, r)
        PROVE  IInv'
    BY <2>9, RegistriesPreserve
  <2>10. QED
    BY <1>2, <2>1, <2>2, <2>3, <2>4, <2>5, <2>6, <2>7, <2>8, <2>9 DEF Requests
<1>3. ASSUME NEW i \in Handlers, Steps(i)
      PROVE  IInv'
  <2>1. CASE \/ RegisterSave(i) \/ CreateUserSave(i) \/ ChangePasswordSave(i)
             \/ GithubUnlinkSave(i) \/ GithubDisconnectSave(i) \/ ExchangeFails(i)
    BY <2>1, AccountsPreserve DEF AccountStep, ReadingStep
  <2>2. CASE \/ \E g \in Identities : LinkOwner(i, g) \/ LoginOwner(i, g)
             \/ LinkSave(i) \/ LoginDecide(i) \/ LoginSave(i) \/ LoginCreate(i)
    BY <2>2, AccountsPreserve DEF AccountStep
  <2>3. CASE DeleteUserRow(i)
    BY <2>3, DeletePreserves
  <2>4. CASE \/ CreateBucketSend(i) \/ CreateBucketSave(i)
             \/ DeleteBucketSend(i) \/ DeleteBucketRow(i) \/ StorageFails(i)
             \/ RefreshSizesSave(i)
    BY <2>4, BucketsPreserve DEF BucketStep
  <2>5. CASE CreateRegistrySave(i)
    BY <2>5, RegistriesPreserve
  <2>6. CASE \/ SyncInstallationsSave(i) \/ GithubInstallCallbackSave(i)
             \/ ListInstallationsFails(i) \/ GithubAppCallbackSave(i)
             \/ ConversionFails(i)
    BY <2>6, AppsPreserve DEF AppStep
  <2>7. CASE Abandoned(i)
    BY <2>7, AbandonedPreserves
  <2>8. QED
    BY <1>3, <2>1, <2>2, <2>3, <2>4, <2>5, <2>6, <2>7 DEF Steps
<1>4. CASE \/ \E t \in tokens : GateCallback(t) \/ GateVisit(t)
           \/ Tick \/ Install
  BY <1>4, GatePreserves
<1>5. CASE Restart
  BY <1>5, RestartPreserves
<1>6. QED
  BY <1>1, <1>2, <1>3, <1>4, <1>5 DEF Next

\* The inductive invariant of accounts, gate, buckets, credentials and apps.
THEOREM Invariance == Spec => []IInv
<1>1. Init => IInv
  BY InitIInv
<1>2. IInv /\ [Next]_vars => IInv'
  BY NextIInv
<1>3. QED
  BY <1>1, <1>2, PTL DEF Spec

\* enforce_login_gate: whatever passes and sessions a browser collected, a visit is
\* let through only within bounded time of the dashboard's last sight of its user.
THEOREM AccessIsBounded == Spec => []AccessExpires
<1>1. IInv => AccessExpires
  BY DEF IInv, GateInv
<1>2. QED
  BY <1>1, Invariance, PTL

\* handlers/auth.rs: identities are linked by their owners, to one account each unless
\* a stale row was saved or two sign-ins overlapped, and no account loses its last way
\* to sign in.
THEOREM SignInIsSound == Spec => []SignInSound
<1>1. IInv => SignInSound
  BY DEF IInv, AccountsInv
<1>2. QED
  BY <1>1, Invariance, PTL

\* Buckets, credentials and GitHub apps: the rows match the services behind them.
THEOREM RowsMatch == Spec => []RowsMatchServices
<1>1. IInv => RowsMatchServices
  <2> SUFFICES ASSUME IInv PROVE RowsMatchServices
    OBVIOUS
  <2>1. TypeOK
    BY DEF IInv, AccountsInv, GateInv, BucketInv, RegistryInv, AppInv, HandlersInv,
           TypeOK
  <2>2. RowHasBucket
    <3> SUFFICES ASSUME NEW b \in buckets, "bucket" \notin blame,
                        \A i \in Handlers : ~Held(i, "rmbucket", "row")
                 PROVE  store
      BY DEF RowHasBucket
    <3>1. Loose(b)
      BY DEF Loose
    <3>2. QED
      BY <3>1 DEF IInv, BucketInv, OneBucket
  <2>3. NewestAppCounts /\ RegistryUnambiguous
    BY DEF IInv, AppInv, RegistryInv
  <2>4. QED
    BY <2>1, <2>2, <2>3 DEF RowsMatchServices
<1>2. QED
  BY <1>1, Invariance, PTL

\* register, delete_user and bootstrap_admin_user: an installation with users has an
\* administrator, unless two first ones were made at a time, and a restart always
\* leaves one.
THEOREM AdminStays == Spec => AdminSurvives
<1>1. IInv => (boots <= 1 /\ Rows # {} => \E u \in Rows : users[u].admin)
  <2> SUFFICES ASSUME IInv, boots <= 1, Rows # {} PROVE \E u \in Rows : users[u].admin
    OBVIOUS
  <2>1. boots \in Nat /\ boots # 0
    BY DEF IInv, AccountsInv, UsersTyped, OneAdmin
  <2>2. boots = 1
    BY <2>1
  <2>3. QED
    BY <2>2 DEF IInv, AccountsInv, OneAdmin, AdminIs
<1>2. IInv /\ [Next]_vars =>
        [crashes' # crashes /\ (\E u \in Users : users'[u] # None) =>
             \E u \in Users : users'[u] # None /\ users'[u].admin]_vars
  <2> SUFFICES ASSUME IInv, Next, crashes' # crashes, \E u \in Users : users'[u] # None
               PROVE  \E u \in Users : users'[u] # None /\ users'[u].admin
    BY DEF vars
  <2>1. Restart
    <3>1. ASSUME NEW i \in Handlers, Requests(i) PROVE FALSE
      BY <3>1 DEF Requests, Register, ChangePassword, GithubUnlink, CreateGatePass,
         CreateBucket, GithubAppCallback, DeleteGithubApp, GetGithubApp, GetAppRepos,
         SyncInstallations, GithubInstallCallback, GithubDisconnect, CreateRegistry,
         CreateUser, DeleteUser, AuthorizeUrl, Callback, DeleteBucket, RefreshSizes,
         DeleteRegistry
    <3>2. ASSUME NEW i \in Handlers, Steps(i) PROVE FALSE
      BY <3>2 DEF Steps, RegisterSave, CreateUserSave, ChangePasswordSave,
         GithubUnlinkSave, GithubDisconnectSave, DeleteUserRow, LinkOwner, LoginOwner,
         LinkSave, LoginDecide, LoginSave, LoginCreate, SaveCopy, CreateBucketSend,
         CreateBucketSave, DeleteBucketSend, DeleteBucketRow, StorageFails,
         RefreshSizesSave, CreateRegistrySave, ExchangeFails, SyncInstallationsSave,
         GithubInstallCallbackSave, GithubAppCallbackSave, ConversionFails,
         ListInstallationsFails, Abandoned
    <3>3. QED
      BY <3>1, <3>2 DEF Next, GateCallback, GateVisit, Install, Tick
  <2>2. /\ Rows' = Rows
        /\ Rows # {} => \E u \in Rows : users'[u].admin
    BY <2>1, BootstrapFacts DEF IInv, Restart
  <2>3. QED
    BY <2>2 DEF Rows
<1>3. QED
  BY <1>1, <1>2, Invariance, PTL DEF Spec, AdminSurvives

=============================================================================
