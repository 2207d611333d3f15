------------------------------- MODULE Proxy -------------------------------
(***************************************************************************)
(* Requests through the proxy (crates/containr-proxy): request_filter      *)
(* looks the host's route up for the https rule, again to authenticate and *)
(* again to choose an upstream, while refreshes remove the route and put a *)
(* new state in its place.  A route state carries its own in-flight        *)
(* counters, round-robin cursor and cache of verified credentials; whoever *)
(* holds an old state keeps using it.  One app host with a route; the      *)
(* dashboard's and the storage host have fixed upstreams.                  *)
(***************************************************************************)
EXTENDS Naturals, Sequences, FiniteSets, FiniteSetsExt

CONSTANTS
    Requests,     \* requests the proxy may be handling at a time
    Credentials,  \* values of an Authorization header
    Configs,      \* route configurations [app, auth, pass, ssl, algo, ups]
    Kinds,        \* requests clients send [host, tls, cred, signedIn, token]
    CacheCap,     \* MAX_AUTH_CACHE_ENTRIES
    MaxStates,    \* bound on the route states
    MaxArrivals,  \* bound on the requests
    StorageSet,   \* whether the storage endpoint is configured
    None

ASSUME ProxyAssumption ==
    /\ IsFiniteSet(Requests)
    /\ None \notin Configs
    /\ \A k \in Kinds : k.host \in {"app", "dashboard", "storage", "other"}
    /\ CacheCap \in Nat \ {0}
    /\ {MaxStates, MaxArrivals} \subseteq Nat
    /\ StorageSet \in BOOLEAN
    /\ \A c \in Configs : /\ c.app \in BOOLEAN
                          /\ c.auth \in {"open", "basic", "gate"}
                          /\ c.pass \subseteq Credentials
                          /\ c.ssl \in BOOLEAN
                          /\ c.algo \in {"roundrobin", "least"}
                          /\ c.ups \in Nat

VARIABLES
    states,    \* every RouteState that was made, oldest first
    current,   \* the index of the one in the route table, 0 for none
    cert,      \* whether the app host has a certificate that is valid
    req,       \* req[r]: the request in slot r
    log,       \* entries appended to the http request log
    unlogged,  \* ghost: requests that ended without an entry
    chosen,    \* ghost: requests an upstream was chosen for
    arrivals   \* requests so far

vars == <<states, current, cert, req, log, unlogged, chosen, arrivals>>

Free == [pc |-> "free", kind |-> None, at |-> 0, up |-> 0, steady |-> TRUE]

(* The route the table has: a configuration, or None. *)
Route == IF current = 0 THEN None ELSE states[current].cfg

Replied(r, code) == req' = [req EXCEPT ![r] = [Free EXCEPT !.pc = code]]

Goes(r, pc) == req' = [req EXCEPT ![r].pc = pc]

(* A change of the table is seen by every request that is being filtered. *)
Unsteady ==
    [r \in Requests |-> IF req[r].pc \in {"filter", "find", "auth", "verify",
                                          "select", "add"}
                        THEN [req[r] EXCEPT !.steady = FALSE] ELSE req[r]]

-----------------------------------------------------------------------------
(* The route table                                                         *)

(* The state add_route makes: nothing in flight and nothing cached. *)
NewState(c) ==
    [cfg |-> c, inflight |-> [i \in 1 .. c.ups |-> 0], cursor |-> 0,
     cache |-> {}, picks |-> [i \in 1 .. c.ups |-> 0]]

AddRoute(c) ==
    /\ Len(states) < MaxStates
    /\ states' = Append(states, NewState(c))
    /\ current' = Len(states) + 1
    /\ req' = Unsteady
    /\ UNCHANGED <<cert, log, unlogged, chosen, arrivals>>

RemoveRoute ==
    /\ current # 0
    /\ current' = 0
    /\ req' = Unsteady
    /\ UNCHANGED <<states, cert, log, unlogged, chosen, arrivals>>

(* A certificate of the host is issued, expires or is removed. *)
CertificateChanges ==
    /\ cert' = ~cert
    /\ UNCHANGED <<states, current, req, log, unlogged, chosen, arrivals>>

-----------------------------------------------------------------------------
(* request_filter                                                          *)

Arrive(r, k) ==
    /\ req[r].pc \notin {"filter", "find", "auth", "verify", "select", "add",
                         "upstream"}
    /\ arrivals < MaxArrivals
    /\ arrivals' = arrivals + 1
    /\ req' = [req EXCEPT ![r] = [Free EXCEPT !.pc = "filter", !.kind = k]]
    /\ UNCHANGED <<states, current, cert, log, unlogged, chosen>>

(* Mutant: the https rule holds while the host has a certificate. *)
HttpsRequiredCertified(k) ==
    /\ cert
    /\ \/ k.host \in {"dashboard", "storage"}
       \/ k.host = "app" /\ current # 0 /\ states[current].cfg.ssl

(* The hosts of the settings, and an app host whose route says so. *)
HttpsRequired(k) ==
    \/ k.host \in {"dashboard", "storage"}
    \/ k.host = "app" /\ current # 0 /\ states[current].cfg.ssl

(* The dashboard and the storage host go to upstreams of the settings, the *)
(* latter only when one is configured.                                     *)
SettingsHost(k) ==
    IF k.host = "dashboard" \/ StorageSet THEN "passed" ELSE "503"

(* A challenge token is answered on any host, plain http is redirected     *)
(* when the host requires https and has a certificate and refused when it  *)
(* has none, and the hosts of the settings are passed on.                  *)
Filter(r) ==
    LET k == req[r].kind IN
    /\ req[r].pc = "filter"
    /\ IF k.token THEN Replied(r, "200")
       ELSE IF ~k.tls /\ HttpsRequired(k)
       THEN Replied(r, IF cert THEN "308" ELSE "426")
       ELSE IF k.host \in {"dashboard", "storage"}
       THEN Replied(r, SettingsHost(k))
       ELSE Goes(r, "find")
    /\ UNCHANGED <<states, current, cert, log, unlogged, chosen, arrivals>>

(* enforce_login_gate: a visitor with an access cookie goes on, any other  *)
(* is sent to the dashboard to sign in.                                    *)
EnforceLoginGate(r) ==
    IF req[r].kind.signedIn THEN Goes(r, "select") ELSE Replied(r, "login")

(* get_route once more: the login gate of that route decides, or its basic *)
(* auth is looked at next.                                                 *)
FindRoute(r) ==
    /\ req[r].pc = "find"
    /\ IF req[r].kind.host = "other" \/ Route = None THEN Replied(r, "404")
       ELSE IF Route.auth = "gate"
       THEN EnforceLoginGate(r)
       ELSE Goes(r, "auth")
    /\ UNCHANGED <<states, current, cert, log, unlogged, chosen, arrivals>>

(* check_basic_auth looks the route up by itself; what it cannot answer    *)
(* from the cache is verified later, on the state it found.                *)
CheckBasicAuth(r) ==
    LET cred == req[r].kind.cred IN
    /\ req[r].pc = "auth"
    /\ IF current = 0 THEN Goes(r, "select")
       ELSE IF Route.auth # "basic" THEN Goes(r, "select")
       ELSE IF cred = None THEN Replied(r, "401")
       ELSE IF cred \in states[current].cache THEN Goes(r, "select")
       ELSE req' = [req EXCEPT ![r].pc = "verify", ![r].at = current]
    /\ UNCHANGED <<states, current, cert, log, unlogged, chosen, arrivals>>

(* Mutant: what was verified is cached on the state the table has now. *)
CacheOnCurrent(g, cred) ==
    IF current = 0 THEN states
    ELSE [states EXCEPT ![current].cache =
             IF Cardinality(@) >= CacheCap THEN {cred} ELSE @ \cup {cred}]

(* A full cache is emptied before it takes one more. *)
CacheOn(g, cred) ==
    [states EXCEPT ![g].cache =
        IF Cardinality(@) >= CacheCap THEN {cred} ELSE @ \cup {cred}]

(* PendingBasicAuth.verify, on a blocking thread. *)
Verify(r) ==
    LET g == req[r].at  cred == req[r].kind.cred IN
    /\ req[r].pc = "verify"
    /\ IF cred \in states[g].cfg.pass
       THEN states' = CacheOn(g, cred) /\ Goes(r, "select")
       ELSE states' = states /\ Replied(r, "401")
    /\ UNCHANGED <<current, cert, log, unlogged, chosen, arrivals>>

(* The chosen upstream and the cursor after it. *)
RoundRobin(s) == <<(s.cursor % s.cfg.ups) + 1, s.cursor + 1>>

(* The first upstream with the fewest requests in flight. *)
LeastConnections(s) ==
    Min({i \in 1 .. s.cfg.ups :
            \A j \in 1 .. s.cfg.ups : s.inflight[i] <= s.inflight[j]})

(* select_upstream chooses on the state the table has now ... *)
SelectUpstream(r) ==
    /\ req[r].pc = "select"
    /\ IF Route = None \/ (Route # None /\ Route.ups = 0)
       THEN Replied(r, "503") /\ UNCHANGED <<states, chosen>>
       ELSE LET s == states[current]
                pick == IF Route.algo = "roundrobin" THEN RoundRobin(s)
                        ELSE <<LeastConnections(s), s.cursor>>
            IN /\ req' = [req EXCEPT ![r].pc = "add", ![r].at = current,
                                     ![r].up = pick[1]]
               /\ states' = [states EXCEPT ![current].cursor = pick[2],
                                           ![current].picks[pick[1]] = @ + 1]
               /\ chosen' = chosen + 1
    /\ UNCHANGED <<current, cert, log, unlogged, arrivals>>

(* ... and counts the request in afterwards. *)
CountIn(r) ==
    /\ req[r].pc = "add"
    /\ states' = [states EXCEPT ![req[r].at].inflight[req[r].up] = @ + 1]
    /\ Goes(r, "upstream")
    /\ UNCHANGED <<current, cert, log, unlogged, chosen, arrivals>>

(* Mutant: the count is taken off the state the table has now. *)
CountOutCurrent(r) ==
    IF current # 0 => req[r].up \notin DOMAIN states[current].inflight
    THEN states
    ELSE [states EXCEPT ![current].inflight[req[r].up] = IF @ = 0 THEN 0 ELSE @ - 1]

(* SelectedUpstream.complete *)
CountOut(r) ==
    [states EXCEPT ![req[r].at].inflight[req[r].up] = IF @ = 0 THEN 0 ELSE @ - 1]

(* One entry for a route that belongs to an app's service, none for an     *)
(* external route; append_http_request_log may fail, with only a warning.  *)
WriteLog(c) ==
    \/ c.app /\ log' = log + 1 /\ UNCHANGED unlogged
    \/ unlogged' = unlogged + 1 /\ UNCHANGED log

(* logging runs once at the end of a request, however it ended. *)
Complete(r) ==
    /\ req[r].pc = "upstream"
    /\ states' = CountOut(r)
    /\ WriteLog(states[req[r].at].cfg)
    /\ Replied(r, "done")
    /\ UNCHANGED <<current, cert, chosen, arrivals>>

-----------------------------------------------------------------------------
Init ==
    /\ states = <<>> /\ current = 0
    /\ cert = FALSE
    /\ req = [r \in Requests |-> Free]
    /\ log = 0 /\ unlogged = 0 /\ chosen = 0 /\ arrivals = 0

Next ==
    \/ \E c \in Configs : AddRoute(c)
    \/ RemoveRoute
    \/ CertificateChanges
    \/ \E r \in Requests, k \in Kinds : Arrive(r, k)
    \/ \E r \in Requests : \/ Filter(r) \/ FindRoute(r) \/ CheckBasicAuth(r)
                           \/ Verify(r) \/ SelectUpstream(r) \/ CountIn(r)
                           \/ Complete(r)

Spec == Init /\ [][Next]_vars

-----------------------------------------------------------------------------
Pcs == {"free", "filter", "find", "auth", "verify", "select", "add", "upstream",
        "passed", "200", "308", "401", "404", "426", "503", "login", "done"}

(* A route state of configuration c: one counter per upstream. *)
RouteState(c) ==
    [cfg : {c}, inflight : [1 .. c.ups -> Nat], cursor : Nat,
     cache : SUBSET Credentials, picks : [1 .. c.ups -> Nat]]

(* Type correctness: no counter runs negative, a state keeps its           *)
(* configuration's upstreams and the cache its bound.                      *)
TypeOK ==
    /\ Len(states) \in Nat
    /\ states = [g \in 1 .. Len(states) |-> states[g]]
    /\ \A g \in 1 .. Len(states) :
          /\ states[g].cfg \in Configs
          /\ states[g] \in RouteState(states[g].cfg)
          /\ IsFiniteSet(states[g].cache)
          /\ Cardinality(states[g].cache) <= CacheCap
    /\ current \in 0 .. Len(states)
    /\ cert \in BOOLEAN
    /\ req \in [Requests -> [pc : Pcs, kind : Kinds \cup {None},
                             at : 0 .. Len(states), up : Nat, steady : BOOLEAN]]
    /\ \A r \in Requests : req[r].pc \in {"filter", "find", "auth", "verify",
                                          "select", "add", "upstream"}
                               => req[r].kind \in Kinds
    /\ log \in Nat /\ unlogged \in Nat /\ chosen \in Nat
    /\ arrivals \in 0 .. MaxArrivals

(* auth_cache "lives on the route state, so it is dropped whenever routes  *)
(* refresh": whatever a state has cached is right for that state's own     *)
(* password, also when a verification ends after a refresh.                *)
CacheSound ==
    \A g \in 1 .. Len(states) : states[g].cache \subseteq states[g].cfg.pass

(* Requests that are with upstream i of state g, and those an upstream was *)
(* chosen for.                                                             *)
With(g, i) ==
    {r \in Requests : req[r].pc = "upstream" /\ req[r].at = g /\ req[r].up = i}

Chosen == {r \in Requests : req[r].pc \in {"add", "upstream"}}

(* The counter of an upstream is the number of requests with it. *)
CountersExact ==
    \A g \in 1 .. Len(states) : \A i \in 1 .. states[g].cfg.ups :
        states[g].inflight[i] = Cardinality(With(g, i))

(* A request is logged at most once, when it leaves its upstream. *)
LoggedOnce == (log + unlogged) + Cardinality(Chosen) = chosen

(* Round robin spreads the requests of one state evenly. *)
Spread ==
    \A g \in 1 .. Len(states) :
        states[g].cfg.algo = "roundrobin" =>
            \A i, j \in 1 .. states[g].cfg.ups :
                states[g].picks[i] <= states[g].picks[j] + 1

(* select_upstream, complete and logging: the counter of an upstream is    *)
(* the number of requests that are with it, whatever refreshes happened    *)
(* meanwhile, every request an upstream was chosen for ends with one log   *)
(* entry, or with none when its route has no app or the append failed, and *)
(* round robin spreads the requests of one state evenly.                   *)
RequestsAccounted ==
    /\ TypeOK
    /\ CountersExact
    /\ LoggedOnce
    /\ Spread

(* request_filter: while the route stays as it is, a request goes upstream *)
(* only over tls where the route asks for it and only when it satisfied    *)
(* the login gate or the password of the state it is sent to.              *)
SteadyAdmission ==
    \A r \in Requests :
        req[r].pc \in {"add", "upstream"} /\ req[r].steady =>
            LET c == states[req[r].at].cfg  k == req[r].kind IN
            /\ c.ssl => k.tls
            /\ c.auth = "basic" => k.cred \in c.pass
            /\ c.auth = "gate" => k.signedIn

-----------------------------------------------------------------------------
(* The inductive invariant behind them *)

(* A request an upstream was chosen for names one of its state's. *)
ChosenExists ==
    \A r \in Chosen : /\ req[r].at # 0
                      /\ req[r].up \in 1 .. states[req[r].at].cfg.ups

(* A verification runs on a state that was found. *)
VerifiesFound == \A r \in Requests : req[r].pc = "verify" => req[r].at # 0

(* Every upstream had its turn as often as the others, and the first ones, *)
(* up to the cursor, once more.                                            *)
Turns ==
    \A g \in 1 .. Len(states) :
        states[g].cfg.algo = "roundrobin" /\ states[g].cfg.ups # 0 =>
            \A i, j \in 1 .. states[g].cfg.ups :
                LET turn(n) == IF n <= states[g].cursor % states[g].cfg.ups
                               THEN 1 ELSE 0
                IN states[g].picks[i] + turn(j) = states[g].picks[j] + turn(i)

(* What request q has shown so far, if the route stayed as it is. *)
Shown(q) ==
    LET k == q.kind  c == states[current].cfg IN
    q.steady =>
        /\ q.pc = "find" /\ current # 0 /\ k.host # "other" => (c.ssl => k.tls)
        /\ q.pc \in {"auth", "verify", "select"} =>
              current # 0 /\ (c.ssl => k.tls)
        /\ q.pc \in {"auth", "verify"} => c.auth # "gate"
        /\ q.pc = "verify" => q.at = current
        /\ q.pc = "select" => /\ c.auth = "basic" => k.cred \in c.pass
                              /\ c.auth = "gate" => k.signedIn

ShownSoFar == \A r \in Requests : Shown(req[r])

IInv ==
    /\ TypeOK
    /\ CountersExact
    /\ LoggedOnce
    /\ CacheSound
    /\ SteadyAdmission
    /\ ChosenExists
    /\ VerifiesFound
    /\ Turns
    /\ ShownSoFar
=============================================================================
