---------------------------- MODULE MCInventory -----------------------------
(* Two projects, the second one optional, and the edits of the settings    *)
(* page that the rules tell apart.                                         *)
EXTENDS Inventory, TLC

MCApps == {"p1", "p2"}
MCIds == {1, 2, 3, 4}
MCReserved == {80}
MCTexts == {"web", "db", "new", "job", "d1", "d2", "hash", "host", "owner",
            "daily", "u", "c1", "s1", "s2", "x", "y", "z", Mask}

Volume(host, shared, over) ==
    [host |-> host, shared |-> shared, overFile |-> over]

Base(id, name) ==
    [id |-> id, name |-> name, image |-> TRUE, type |-> "private",
     port |-> 8080, domains |-> {}, httpOnly |-> {}, extra |-> {},
     replicas |-> 1, deps |-> {}, health |-> FALSE, registry |-> Null,
     env |-> Null, schedule |-> Null, mounts |-> Null, notes |-> Null,
     basic |-> Null, gate |-> Null, maps |-> {}, files |-> FALSE,
     args |-> Null, workdir |-> Null, context |-> Null, command |-> Null]

Web == [Base(1, "web") EXCEPT !.type = "web", !.domains = {"d1"},
            !.httpOnly = {"d1"}, !.extra = {81}, !.deps = {"db"},
            !.basic = "hash", !.mounts = Volume(Null, FALSE, TRUE)]

Db == [Base(2, "db") EXCEPT !.env = [val |-> "s1", secret |-> TRUE],
            !.registry = [username |-> "u", password |-> "c1"],
            !.mounts = Volume(Null, FALSE, FALSE), !.files = TRUE,
            !.image = FALSE, !.maps = {5432}]

P1 == [repo |-> TRUE, env |-> Null, services |-> {Web, Db}]

MCInitialApps == {[a \in MCApps |-> IF a = "p1" THEN P1 ELSE Null]}

NewRequest(name) ==
    [ServiceSettings(Base(0, name)) EXCEPT !.type = Absent, !.expose = Absent]

MCNewRequests ==
    {[service |-> [NewRequest("web") EXCEPT !.expose = TRUE, !.domain = "d2",
                                            !.maps = {5433}],
      stack |-> TRUE, repo |-> FALSE, deploy |-> TRUE,
      env |-> [val |-> "y", secret |-> Absent]],
     [service |-> [NewRequest("new") EXCEPT !.image = FALSE],
      stack |-> FALSE, repo |-> TRUE, deploy |-> FALSE,
      env |-> [val |-> "z", secret |-> TRUE]]}

DataEdits ==
    {[mounts |-> Volume(Null, TRUE, FALSE)],
     [mounts |-> Volume(Null, FALSE, FALSE), env |-> Null]}

SecretEdits ==
    {[env |-> [val |-> Mask, secret |-> FALSE], registry |-> Null],
     [env |-> [val |-> Mask, secret |-> TRUE]]}

ShapeEdits ==
    {[domains |-> {"d2"}, env |-> [val |-> "s2", secret |-> TRUE]],
     [maps |-> {5433}, basic |-> [password |-> Absent]],
     [files |-> TRUE, mounts |-> Absent],
     [files |-> Absent, mounts |-> Volume(Null, FALSE, TRUE)],
     [mounts |-> Volume("host", FALSE, FALSE)],
     [type |-> "private", expose |-> FALSE, domains |-> Absent,
      gate |-> "owner", basic |-> Null],
     [type |-> "cron", port |-> 0, expose |-> FALSE, domains |-> {},
      schedule |-> "daily", extra |-> {}, maps |-> {}, name |-> "job"]}

Submitted(edits) ==
    {[service |-> e, repo |-> Absent, env |-> Absent] : e \in edits}

MCEdits ==
    Submitted(DataEdits \cup SecretEdits \cup ShapeEdits)
    \cup {[service |-> [image |-> TRUE], repo |-> FALSE,
           env |-> [val |-> "x", secret |-> FALSE]]}

ClientSymmetry == Permutations(Clients)
=============================================================================
