------------------------------- MODULE MCProxy -------------------------------
EXTENDS Proxy, TLC

CONSTANTS old, new, r1, r2

(* The slots of the requests are alike. *)
Slots == Permutations(Requests)

Route2(auth, pass, ssl, algo) ==
    [app |-> TRUE, auth |-> auth, pass |-> pass, ssl |-> ssl, algo |-> algo, ups |-> 2]

(* A password that is changed, a gated https route, a route without a live *)
(* container, and an external route.                                       *)
RouteConfigs ==
    {Route2("basic", {old, new}, FALSE, "roundrobin"),
     Route2("basic", {new}, FALSE, "least"),
     Route2("gate", {}, TRUE, "roundrobin"),
     [Route2("open", {}, FALSE, "roundrobin") EXCEPT !.ups = 0],
     [Route2("open", {}, TRUE, "roundrobin") EXCEPT !.app = FALSE, !.ups = 1]}

App(tls, cred, signedIn) ==
    [host |-> "app", tls |-> tls, cred |-> cred, signedIn |-> signedIn,
     token |-> FALSE]

RequestKinds ==
    {App(FALSE, old, FALSE), App(FALSE, new, FALSE), App(TRUE, None, TRUE),
     App(FALSE, None, TRUE), App(TRUE, None, FALSE),
     [App(FALSE, None, FALSE) EXCEPT !.token = TRUE],
     [App(FALSE, None, FALSE) EXCEPT !.host = "dashboard"],
     [App(TRUE, None, FALSE) EXCEPT !.host = "dashboard"],
     [App(TRUE, None, FALSE) EXCEPT !.host = "storage"],
     [App(TRUE, None, FALSE) EXCEPT !.host = "other"]}
=============================================================================
