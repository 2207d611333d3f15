---------------------------- MODULE Certificates ----------------------------
(***************************************************************************)
(* Certificates of the domains the proxy serves: the one task of main.rs   *)
(* that takes requests from a bounded channel and runs the renewal pass,   *)
(* ensure_certificate with the ACME order it may start, the challenge      *)
(* tokens the proxy answers with, the reissue handler that removes a       *)
(* certificate and asks for a new one, and the certificate cache of the    *)
(* TLS handshake.  One unit of time is one renewal interval; a certificate *)
(* is represented by the units it has left.                                *)
(***************************************************************************)
EXTENDS Naturals, Sequences, FiniteSets

CONSTANTS
    Domains,      \* every domain an app or the settings may name
    Base,         \* the one that comes from the settings: the dashboard's
    QueueCap,     \* capacity of the certificate request channel
    Life,         \* units a new certificate is valid for
    Window,       \* units before expiry from which it is renewed
    Visited,      \* the domains clients open a TLS connection to
    MaxOps,       \* bound on the user's operations
    MaxFails,     \* bound on the failures of the authority and the database
    MaxCrashes,   \* bound on the crashes
    None

ASSUME CertificatesAssumption ==
    /\ Base \in Domains /\ Visited \subseteq Domains
    /\ QueueCap \in Nat \ {0}
    /\ Life \in Nat /\ Window \in 1 .. Life - 1
    /\ {MaxOps, MaxFails, MaxCrashes} \subseteq Nat
    /\ IsFiniteSet(Domains) /\ Domains \cap {"idle", "delete"} = {}
    /\ None \notin Domains /\ None \notin Nat

VARIABLES
    mode,        \* mode[d]: "none", "http" (plain only) or "https"
    file,        \* whether the saved settings name Base
    cert,        \* cert[d]: units the stored certificate has left, or None
    queue,       \* the request channel
    worker,      \* the certificate task
    challenges,  \* domains whose challenge token the proxy answers
    due,         \* the renewal interval has fired and waits for the task
    reissue,     \* the reissue handler: domains to go, and its next step
    tls,         \* tls[d]: the cached key of the handshake, or None
    served,      \* served[d]: what the last handshake presented
    asked,       \* ghost: reissued domains nobody has tried yet
    tries,       \* ghost: failed attempts since the last certificate
    away,        \* ghost: domains not managed all the time since then
    ops,         \* user operations so far
    fails,       \* failures so far
    crashes      \* crashes so far

task == <<queue, worker, challenges, due>>
ghosts == <<asked, tries, away>>
vars == <<mode, file, cert, task, reissue, tls, served, ghosts, ops, fails,
          crashes>>

Idle == [pc |-> "idle", dom |-> None, valid |-> FALSE, pass |-> {}]

Quiet == [step |-> "idle", todo |-> {}]

Steps == {"account", "authorize", "wait", "finalize"}

Least(a, b) == IF a < b THEN a ELSE b

(* collect_managed_certificate_domains: the https domains of every app and *)
(* the domains of the settings.                                            *)
Managed == {d \in Domains : mode[d] = "https"}

(* get_app_by_domain or storage_or_dashboard_domain_allowed: a domain that *)
(* is switched to plain http is still one the task would serve.            *)
Allowed(d) == mode[d] # "none"

(* Mutant: only an expired certificate is renewed. *)
NeedsRenewalExpired(d) == cert[d] = None \/ cert[d] = 0

(* ensure_certificate: none stored, or too little of it left. *)
NeedsRenewal(d) == cert[d] = None \/ cert[d] <= Window

-----------------------------------------------------------------------------
(* The handshake's cache                                                   *)

(* A row that is written or removed no longer is the one that was cached;  *)
(* the identifier survives a renewal and dies with the row.                *)
Rewritten(d) ==
    IF tls[d] = None THEN tls ELSE [tls EXCEPT ![d].fresh = FALSE]

Removed(d) ==
    IF tls[d] = None THEN tls
    ELSE [tls EXCEPT ![d].fresh = FALSE, ![d].same = FALSE]

(* Mutant: the cached key is compared by the row's identifier alone. *)
CacheHitById(d) == tls[d] # None /\ tls[d].same

(* load_cert: the cached key is good for the row with the same identifier  *)
(* and expiry.                                                             *)
CacheHit(d) == tls[d] # None /\ tls[d].same /\ tls[d].left = cert[d]

(* DynamicCertResolver.load_cert: an expired or missing row empties the    *)
(* cache; otherwise the cached key or the one parsed from the row.         *)
Handshake(d) ==
    /\ IF cert[d] = None \/ cert[d] = 0
       THEN /\ tls' = [tls EXCEPT ![d] = None]
            /\ served' = [served EXCEPT ![d] = "none"]
       ELSE IF CacheHit(d)
       THEN /\ served' = [served EXCEPT ![d] =
                             IF tls[d].fresh THEN "stored" ELSE "other"]
            /\ tls' = tls
       ELSE /\ tls' = [tls EXCEPT ![d] =
                          [left |-> cert[d], same |-> TRUE, fresh |-> TRUE]]
            /\ served' = [served EXCEPT ![d] = "stored"]
    /\ UNCHANGED <<mode, file, cert, task, reissue, ghosts, ops, fails, crashes>>

-----------------------------------------------------------------------------
(* Operations of the users                                                 *)

(* The permits the reissue handler holds occupy their places already. *)
Permits == Cardinality(reissue.todo)

(* try_send: a request that finds the channel full is dropped. *)
TrySend(d) == IF Len(queue) + Permits < QueueCap THEN Append(queue, d) ELSE queue

Leaving(d, m) == IF m = "https" THEN away ELSE away \cup {d}

(* A create, update or delete of a service saves the app and asks for the  *)
(* certificates of its domains.                                            *)
SaveApp(d, m) ==
    /\ d # Base
    /\ ops < MaxOps
    /\ ops' = ops + 1
    /\ mode' = [mode EXCEPT ![d] = m]
    /\ away' = Leaving(d, m)
    /\ queue' = IF m = "https" THEN TrySend(d) ELSE queue
    /\ UNCHANGED <<file, cert, worker, challenges, due, reissue, tls, served,
                   asked, tries, fails, crashes>>

(* update_settings: the configuration changes in memory and is then        *)
(* written; when the write fails nothing is asked for and the change stays *)
(* until a restart.                                                        *)
UpdateSettings(m) ==
    /\ ops < MaxOps
    /\ ops' = ops + 1
    /\ mode' = [mode EXCEPT ![Base] = m]
    /\ away' = Leaving(Base, m)
    /\ \/ /\ file' = (m = "https")
          /\ queue' = IF m = "https" THEN TrySend(Base) ELSE queue
       \/ UNCHANGED <<file, queue>>
    /\ UNCHANGED <<cert, worker, challenges, due, reissue, tls, served, asked,
                   tries, fails, crashes>>

(* issue_dashboard_certificate *)
IssueDashboardCertificate ==
    /\ mode[Base] = "https"
    /\ ops < MaxOps
    /\ ops' = ops + 1
    /\ queue' = TrySend(Base)
    /\ UNCHANGED <<mode, file, cert, worker, challenges, due, reissue, tls,
                   served, ghosts, fails, crashes>>

(* Mutant: the places in the channel are not reserved. *)
ReissueCertificateNoPermit(ds) ==
    /\ reissue = Quiet
    /\ ds # {} /\ ds \subseteq Managed \ {Base}
    /\ ops < MaxOps
    /\ ops' = ops + 1
    /\ reissue' = [step |-> "delete", todo |-> ds]
    /\ UNCHANGED <<mode, file, cert, task, tls, served, ghosts, fails, crashes>>

(* reissue_certificate: every domain has passed its DNS check and a permit *)
(* for every request is reserved before anything is removed.               *)
ReissueCertificate(ds) ==
    /\ reissue = Quiet
    /\ ds # {} /\ ds \subseteq Managed \ {Base}
    /\ ops < MaxOps
    /\ ops' = ops + 1
    /\ Len(queue) + Cardinality(ds) <= QueueCap
    /\ reissue' = [step |-> "delete", todo |-> ds]
    /\ UNCHANGED <<mode, file, cert, task, tls, served, ghosts, fails, crashes>>

(* The handler removes the certificate of the next domain; a failure is    *)
(* logged and changes nothing.                                             *)
ReissueDelete(d) ==
    /\ reissue.step = "delete" /\ d \in reissue.todo
    /\ reissue' = [reissue EXCEPT !.step = d]
    /\ \/ /\ cert' = [cert EXCEPT ![d] = None]
          /\ tls' = Removed(d)
          /\ asked' = asked \cup {d}
          /\ away' = IF d \in Managed THEN away \ {d} ELSE away
          /\ tries' = [tries EXCEPT ![d] = 0]
       \/ UNCHANGED <<cert, tls, ghosts>>
    /\ UNCHANGED <<mode, file, task, served, ops, fails, crashes>>

(* permit.send: the place was reserved, so the request is never dropped. *)
ReissueSend(d) ==
    /\ reissue.step = d
    /\ queue' = IF Len(queue) < QueueCap THEN Append(queue, d) ELSE queue
    /\ reissue' = IF reissue.todo = {d} THEN Quiet
                  ELSE [step |-> "delete", todo |-> reissue.todo \ {d}]
    /\ UNCHANGED <<mode, file, cert, worker, challenges, due, tls, served,
                   ghosts, ops, fails, crashes>>

-----------------------------------------------------------------------------
(* The certificate task                                                    *)

(* The task goes on with domain d: the stored certificate will do, or an   *)
(* order is started.                                                       *)
EnsureCertificate(d, pass) ==
    IF NeedsRenewal(d)
    THEN worker' = [Idle EXCEPT !.pc = "account", !.dom = d, !.pass = pass]
    ELSE worker' = [Idle EXCEPT !.pc = IF pass = {} THEN "idle" ELSE "pass",
                                !.pass = pass]

(* cert_request_rx.recv: a domain nobody has, and one the database cannot  *)
(* look up, are skipped.                                                   *)
TakeRequest ==
    /\ worker.pc = "idle" /\ queue # <<>>
    /\ queue' = Tail(queue)
    /\ \/ /\ Allowed(Head(queue))
          /\ EnsureCertificate(Head(queue), {})
          /\ asked' = IF NeedsRenewal(Head(queue)) THEN asked
                      ELSE asked \ {Head(queue)}
       \/ /\ worker' = worker
          /\ asked' = asked \ {Head(queue)}
    /\ UNCHANGED <<mode, file, cert, challenges, due, reissue, tls, served,
                   tries, away, ops, fails, crashes>>

(* One more failed attempt for each of the domains. *)
Failed(ds) ==
    [d \in Domains |-> IF d \in ds THEN Least(tries[d] + 1, Window) ELSE tries[d]]

(* Mutant: the pass renews what is stored and asks for nothing new. *)
RenewalPassStored ==
    /\ worker.pc = "idle" /\ due
    /\ due' = FALSE
    /\ LET ds == {d \in Managed : cert[d] # None} IN
       worker' = IF ds = {} THEN Idle
                 ELSE [Idle EXCEPT !.pc = "pass", !.pass = ds]
    /\ UNCHANGED <<mode, file, cert, queue, challenges, reissue, tls, served,
                   ghosts, ops, fails, crashes>>

(* renew_managed_certificates at start-up and at every tick; it is given   *)
(* up when the apps cannot be listed.                                      *)
RenewalPass ==
    /\ worker.pc = "idle" /\ due
    /\ due' = FALSE
    /\ \/ /\ worker' = IF Managed = {} THEN Idle
                       ELSE [Idle EXCEPT !.pc = "pass", !.pass = Managed]
          /\ UNCHANGED <<tries, fails>>
       \/ /\ fails < MaxFails /\ fails' = fails + 1
          /\ worker' = worker
          /\ tries' = Failed(Managed)
    /\ UNCHANGED <<mode, file, cert, queue, challenges, reissue, tls, served,
                   asked, away, ops, crashes>>

(* The pass turns to its next domain, with the list it began with. *)
PassDomain(d) ==
    /\ worker.pc = "pass" /\ d \in worker.pass
    /\ EnsureCertificate(d, worker.pass \ {d})
    /\ UNCHANGED <<mode, file, cert, queue, challenges, due, reissue, tls,
                   served, ghosts, ops, fails, crashes>>

(* get_or_create_account, then complete_order up to the authorisations. *)
OpenOrder ==
    /\ worker.pc = "account"
    /\ worker' = [worker EXCEPT !.pc = "authorize"]
    /\ UNCHANGED <<mode, file, cert, queue, challenges, due, reissue, tls,
                   served, ghosts, ops, fails, crashes>>

(* An authorisation is still valid from an earlier order, or its challenge *)
(* token is stored and the authority is told to validate.                  *)
Authorize ==
    /\ worker.pc = "authorize"
    /\ \/ /\ worker' = [worker EXCEPT !.pc = "wait", !.valid = TRUE]
          /\ challenges' = challenges
       \/ /\ worker' = [worker EXCEPT !.pc = "wait"]
          /\ challenges' = challenges \cup {worker.dom}
    /\ UNCHANGED <<mode, file, cert, queue, due, reissue, tls, served, ghosts,
                   ops, fails, crashes>>

(* request_filter of the proxy answers the authority's request for a token *)
(* it knows, before any redirect, gate or password.                        *)
ServeChallenge(d) ==
    /\ d \in challenges
    /\ worker.pc = "wait" /\ worker.dom = d /\ ~worker.valid
    /\ worker' = [worker EXCEPT !.valid = TRUE]
    /\ UNCHANGED <<mode, file, cert, queue, challenges, due, reissue, tls,
                   served, ghosts, ops, fails, crashes>>

(* The order is ready: finalize it and wait for the certificate. *)
FinalizeOrder ==
    /\ worker.pc = "wait" /\ worker.valid
    /\ worker' = [worker EXCEPT !.pc = "finalize"]
    /\ UNCHANGED <<mode, file, cert, queue, challenges, due, reissue, tls,
                   served, ghosts, ops, fails, crashes>>

(* The order is over: its tokens go, and the pass goes on. *)
OrderOver ==
    /\ worker' = [Idle EXCEPT !.pc = IF worker.pass = {} THEN "idle" ELSE "pass",
                              !.pass = worker.pass]
    /\ asked' = asked \ {worker.dom}

(* Mutant: the tokens of a failed order stay. *)
OrderFailsKeepsToken ==
    /\ worker.pc \in Steps
    /\ fails < MaxFails /\ fails' = fails + 1
    /\ OrderOver
    /\ tries' = Failed({worker.dom})
    /\ UNCHANGED <<mode, file, cert, queue, challenges, due, reissue, tls,
                   served, away, ops, crashes>>

(* Any call of the authority fails, the order becomes invalid, or thirty   *)
(* attempts were not enough.                                               *)
OrderFails ==
    /\ worker.pc \in Steps
    /\ fails < MaxFails /\ fails' = fails + 1
    /\ OrderOver
    /\ challenges' = challenges \ {worker.dom}
    /\ tries' = Failed({worker.dom})
    /\ UNCHANGED <<mode, file, cert, queue, due, reissue, tls, served, away,
                   ops, crashes>>

(* request_certificate saves the new certificate under the row's old       *)
(* identifier, if there is a row.  The domain may have left meanwhile.     *)
OrderSucceeds ==
    /\ worker.pc = "finalize"
    /\ OrderOver
    /\ challenges' = challenges \ {worker.dom}
    /\ cert' = [cert EXCEPT ![worker.dom] = Life]
    /\ tls' = Rewritten(worker.dom)
    /\ tries' = [tries EXCEPT ![worker.dom] = 0]
    /\ away' = IF worker.dom \in Managed THEN away \ {worker.dom} ELSE away
    /\ UNCHANGED <<mode, file, queue, due, reissue, served, ops, fails, crashes>>

-----------------------------------------------------------------------------
(* Time and crashes                                                        *)

(* A renewal interval passes.  Passes take minutes and intervals hours, so *)
(* the pass of the last interval is over.                                  *)
Tick ==
    /\ ~due /\ worker.pc = "idle"
    /\ due' = TRUE
    /\ cert' = [d \in Domains |-> IF cert[d] \in {None, 0} THEN cert[d]
                                  ELSE cert[d] - 1]
    /\ tls' = [d \in Domains |->
                 IF tls[d] = None THEN None
                 ELSE [tls[d] EXCEPT !.left = IF @ = 0 THEN 0 ELSE @ - 1]]
    /\ UNCHANGED <<mode, file, queue, worker, challenges, reissue, served,
                   ghosts, ops, fails, crashes>>

(* Everything but the database and the settings file is in memory. *)
Crash ==
    /\ crashes < MaxCrashes
    /\ crashes' = crashes + 1
    /\ mode' = [mode EXCEPT ![Base] = IF file THEN "https" ELSE "none"]
    /\ away' = IF file THEN away ELSE away \cup {Base}
    /\ queue' = <<>> /\ worker' = Idle /\ challenges' = {} /\ due' = TRUE
    /\ reissue' = Quiet
    /\ tls' = [d \in Domains |-> None]
    /\ asked' = {}
    /\ UNCHANGED <<file, cert, served, tries, ops, fails>>

-----------------------------------------------------------------------------
Init ==
    /\ mode = [d \in Domains |-> "none"]
    /\ file = FALSE
    /\ cert = [d \in Domains |-> None]
    /\ queue = <<>> /\ worker = Idle /\ challenges = {} /\ due = TRUE
    /\ reissue = Quiet
    /\ tls = [d \in Domains |-> None]
    /\ served = [d \in Domains |-> "none"]
    /\ asked = {}
    /\ tries = [d \in Domains |-> 0]
    /\ away = Domains
    /\ ops = 0 /\ fails = 0 /\ crashes = 0

Task ==
    \/ TakeRequest \/ RenewalPass
    \/ OpenOrder \/ Authorize \/ FinalizeOrder \/ OrderFails \/ OrderSucceeds
    \/ \E d \in Domains : PassDomain(d) \/ ServeChallenge(d)

User ==
    \/ \E d \in Domains, m \in {"none", "http", "https"} : SaveApp(d, m)
    \/ \E m \in {"none", "https"} : UpdateSettings(m)
    \/ IssueDashboardCertificate
    \/ \E ds \in SUBSET Domains : ReissueCertificate(ds)

Next ==
    \/ User
    \/ \E d \in Domains : ReissueDelete(d) \/ ReissueSend(d)
    \/ \E d \in Visited : Handshake(d)
    \/ Task
    \/ Tick
    \/ Crash

Spec == Init /\ [][Next]_vars

(* The task is polled and the interval fires; the authority asks for a     *)
(* token it was told of, and fails only finitely often (MaxFails).         *)
FairSpec == Spec /\ WF_vars(Task) /\ WF_vars(Tick)

(* request_certificate ("challenge tokens are removed on every exit        *)
(* path"): the proxy answers challenges for the domain whose order is open *)
(* and for no other.                                                       *)
ChallengesOfOpenOrder ==
    \A d \in challenges : worker.pc \in Steps /\ worker.dom = d

(* reissue_certificate: a certificate is removed only for a request that   *)
(* is in the channel, about to enter it, or being worked on.               *)
ReissueFollowsUp ==
    \A d \in asked : \/ \E i \in DOMAIN queue : queue[i] = d
                     \/ reissue.step = d
                     \/ worker.pc \in Steps /\ worker.dom = d

(* load_cert: the handshake presents the certificate that is stored, though *)
(* a renewal keeps the row's identifier and a reissue replaces the row.    *)
HandshakeServesStored == \A d \in Domains : served[d] # "other"

(* ensure_certificate and the renewal interval: a certificate of a domain  *)
(* that was managed all along expires only after as many failed attempts   *)
(* as there are intervals in the renewal window.                           *)
NoLapse ==
    \A d \in Managed \ away : cert[d] = 0 => tries[d] = Window

(* The dropped try_send, a crash and a failed order only delay a           *)
(* certificate: the renewal pass asks for every managed domain again.      *)
ManagedGetsCertificate ==
    \A d \in Domains :
        (d \in Managed /\ cert[d] = None) ~> (d \notin Managed \/ cert[d] # None)

-----------------------------------------------------------------------------
(* The inductive invariant behind the safety properties                    *)

Certs == 0 .. Life \cup {None}

Keys == [left : Nat, same : BOOLEAN, fresh : BOOLEAN]

Shapes ==
    /\ mode \in [Domains -> {"none", "http", "https"}]
    /\ cert \in [Domains -> Certs]
    /\ tls \in [Domains -> Keys \cup {None}]
    /\ served \in [Domains -> {"none", "stored", "other"}]
    /\ queue \in Seq(Domains)
    /\ worker \in [pc : {"idle", "pass"} \cup Steps, dom : Domains \cup {None},
                   valid : BOOLEAN, pass : SUBSET Domains]
    /\ worker.pc \in Steps => worker.dom \in Domains
    /\ reissue \in [step : Domains \cup {"idle", "delete"}, todo : SUBSET Domains]
    /\ asked \subseteq Domains

(* The handler's permits are places nobody else takes. *)
PlacesReserved ==
    /\ Len(queue) + Cardinality(reissue.todo) <= QueueCap
    /\ reissue.step \in Domains => reissue.step \in reissue.todo
    /\ reissue.step = "idle" => reissue.todo = {}

(* An order is only made for a certificate that is to be renewed, and it   *)
(* is so until the order is over.                                          *)
OrdersAreDue ==
    worker.pc \in Steps =>
        cert[worker.dom] = None \/ cert[worker.dom] <= Window

(* A cached key with the row's identifier is the row's own, or is known by *)
(* an expiry before the row's.                                             *)
CacheTellsApart ==
    \A d \in Domains :
        tls[d] # None =>
            (tls[d].same =>
                /\ cert[d] # None
                /\ tls[d].left <= cert[d]
                /\ tls[d].fresh => tls[d].left = cert[d]
                /\ ~tls[d].fresh /\ cert[d] # 0 => tls[d].left < cert[d])

(* Between two intervals the pass comes to every domain that is managed.   *)
Pending(d) ==
    \/ due
    \/ worker.pc # "idle" /\ d \in worker.pass
    \/ worker.pc \in Steps /\ d = worker.dom

(* Every interval within the renewal window saw an attempt or is about to; *)
(* domains that are not managed are away.                                  *)
AttemptsKeepUp ==
    /\ tries \in [Domains -> 0 .. Window]
    /\ Domains \ Managed \subseteq away
    /\ \A d \in Domains \ away :
          cert[d] # None =>
              /\ Window <= tries[d] + cert[d]
              /\ ~Pending(d) => tries[d] = Window \/ Window < tries[d] + cert[d]

TaskInv ==
    /\ Shapes
    /\ ChallengesOfOpenOrder
    /\ PlacesReserved
    /\ ReissueFollowsUp
    /\ OrdersAreDue
    /\ CacheTellsApart
    /\ HandshakeServesStored

IInv == TaskInv /\ AttemptsKeepUp
=============================================================================
