------------------------ MODULE ServiceActionsProofs ------------------------
(***************************************************************************)
(* What a service list shows, what an answered request has done, and that  *)
(* one deployment is Running: for any number of deployments, replicas,     *)
(* handlers and requests, as long as requests and rollouts do not overlap. *)
(***************************************************************************)
EXTENDS ServiceActions, FiniteSetTheorems, FunctionTheorems, NaturalsInduction,
        WellFoundedInduction, TLAPS

USE ServiceActionsAssumption

-----------------------------------------------------------------------------
(* The deployment a request acts on *)

\* sort_deployments_desc: some deployment of a non-empty list is the newest.
LEMMA NewestFacts ==
  ASSUME NEW T \in SUBSET Deps, T # {}
  PROVE  Newest(T) \in T /\ \A e \in T : e <= Newest(T)
<1> DEFINE R == OpToRel(<, Nat)
           Gap(d) == MaxDeps - d
           S == {Gap(d) : d \in T}
<1>1. IsWellFoundedOn(R, Nat)
  BY NatLessThanWellFounded
<1>2. \A x, y \in Nat : y < x => <<y, x>> \in R
  BY DEF OpToRel
<1>3. S \subseteq Nat /\ S # {}
  <2>1. MaxDeps \in Nat /\ \A d \in T : d \in 1 .. MaxDeps
    BY DEF Deps
  <2>2. \A d \in T : Gap(d) \in Nat
    BY <2>1
  <2>3. QED
    BY <2>2
<1> HIDE DEF R
<1>4. PICK x \in S : \A y \in S : ~(<<y, x>> \in R)
  BY <1>1, <1>3, WFMin
<1>5. PICK d \in T : x = Gap(d)
  OBVIOUS
<1>6. ASSUME NEW e \in T PROVE e <= d
  <2>1. Gap(e) \in S /\ Gap(e) \in Nat /\ x \in Nat
    BY <1>3
  <2>2. ~(Gap(e) < x)
    BY <1>2, <1>4, <2>1
  <2>3. QED
    BY <1>5, <2>1, <2>2 DEF Deps
<1>7. QED
  BY <1>6 DEF Newest

\* resolve_app_service_deployment finds a deployment with an image if there is
\* one, and a Running one before any other.
LEMMA ResolveFacts ==
  ASSUME RowsInv
  PROVE  /\ ResolveDeployment # Null =>
              /\ ResolveDeployment \in Deps
              /\ HasServiceImage(ResolveDeployment)
              /\ Running \subseteq {ResolveDeployment}
         /\ ResolveDeployment = Null => Running = {}
<1> DEFINE images == {d \in Deps : HasServiceImage(d)}
           running == {d \in images : dep[d].status = "running"}
<1>1. running = Running /\ \A d, e \in Running : d = e
  BY DEF RowsInv, Running
<1>2. CASE running # {}
  <2>1. Newest(running) \in running
    BY <1>2, NewestFacts
  <2>2. ResolveDeployment = Newest(running)
    BY <1>2 DEF ResolveDeployment
  <2>3. QED
    BY <1>1, <2>1, <2>2
<1>3. CASE running = {} /\ images # {}
  <2>1. Newest(images) \in images
    BY <1>3, NewestFacts
  <2>2. ResolveDeployment = Newest(images)
    BY <1>3 DEF ResolveDeployment
  <2>3. QED
    BY <1>1, <1>3, <2>1, <2>2
<1>4. CASE running = {} /\ images = {}
  BY <1>1, <1>4 DEF ResolveDeployment
<1>5. QED
  BY <1>2, <1>3, <1>4

\* The same without RowsInv: the deployment is one of Deps.
LEMMA ResolveType == ResolveDeployment \in Deps \cup {Null}
<1> DEFINE images == {d \in Deps : HasServiceImage(d)}
           running == {d \in images : dep[d].status = "running"}
<1>1. running # {} => Newest(running) \in Deps
  BY NewestFacts
<1>2. images # {} => Newest(images) \in Deps
  BY NewestFacts
<1>3. QED
  BY <1>1, <1>2 DEF ResolveDeployment

-----------------------------------------------------------------------------
(* Handlers *)

\* The fields of a handler.
LEMMA HandlerFields ==
  ASSUME TypeOK, NEW i \in Handlers
  PROVE  /\ h[i].pc \in {"idle", "stopping", "resolving", "starting",
                         "deleting", "rows"}
         /\ h[i].op \in {"none", "start", "stop", "restart", "scale", "delete"}
         /\ h[i].d \in Deps \cup {Null}
         /\ h[i].status \in Statuses
         /\ h[i].reps \in Replicas
         /\ h[i].want \in 0 .. MaxReplicas
         /\ h[i].next \in 0 .. MaxReplicas
         /\ h[i].changed \in BOOLEAN
  BY DEF TypeOK, Requests

\* The replica rows of a deployment or a copy.
LEMMA ReplicasFacts ==
  /\ NoReplicas \in Replicas /\ \A r \in Indices : NoReplicas[r] = NoReplica
  /\ \A x \in ReplicaRows : /\ x.cid \in BOOLEAN
                            /\ x = UpReplica => x.cid
                            /\ x = UpReplica <=> x.status = "running"
                            /\ StoppedRow(x) \in ReplicaRows
                            /\ StoppedRow(x) # UpReplica
                            /\ x.status = "none" => StoppedRow(x) = x
                            /\ AlreadyRunning(x) <=> x = UpReplica
  /\ UpReplica \in ReplicaRows /\ FailedReplica \in ReplicaRows
  /\ NoReplica \in ReplicaRows /\ NoReplica # UpReplica
  /\ FailedReplica # UpReplica
  BY DEF Replicas, ReplicaRows, NoReplicas, NoReplica, UpReplica, DownReplica,
         FailedReplica, StoppedRow, AlreadyRunning

\* A request at replica r goes on to the next one.
LEMMA PutFacts ==
  ASSUME TypeOK, NEW i \in Busy, NEW r \in Indices, NEW row \in ReplicaRows,
         NEW c \in BOOLEAN, Put(i, r, row, c)
  PROVE  /\ h' \in [Handlers -> Requests] /\ Busy' = Busy
         /\ \A j \in Handlers \ {i} : h'[j] = h[j]
         /\ h'[i].pc = h[i].pc /\ h'[i].op = h[i].op /\ h'[i].d = h[i].d
         /\ h'[i].status = h[i].status /\ h'[i].want = h[i].want
         /\ h'[i].next = r + 1 /\ h'[i].changed = c
         /\ h'[i].reps[r] = row
         /\ \A q \in Indices : q # r => h'[i].reps[q] = h[i].reps[q]
<1> DEFINE reps == [h[i].reps EXCEPT ![r] = row]
<1>1. i \in Handlers /\ h[i].pc # "idle"
  BY DEF Busy
<1>2. /\ reps \in Replicas /\ reps[r] = row
      /\ \A q \in Indices : q # r => reps[q] = h[i].reps[q]
  BY <1>1, HandlerFields DEF Replicas
<1>3. r + 1 \in 0 .. MaxReplicas
  BY DEF Indices
<1> HIDE DEF reps
<1>4. /\ h'[i] = Request(h[i].pc, h[i].op, h[i].d, h[i].status, reps,
                         h[i].want, r + 1, c)
      /\ \A j \in Handlers \ {i} : h'[j] = h[j]
      /\ h' = [h EXCEPT ![i] = h'[i]]
  BY <1>1 DEF Put, TypeOK, reps
<1>5. h'[i] \in Requests
  BY <1>1, <1>2, <1>3, <1>4, HandlerFields DEF Request, Requests
<1>6. /\ h'[i].pc = h[i].pc /\ h'[i].op = h[i].op /\ h'[i].d = h[i].d
      /\ h'[i].status = h[i].status /\ h'[i].want = h[i].want
      /\ h'[i].next = r + 1 /\ h'[i].changed = c /\ h'[i].reps = reps
  BY <1>4 DEF Request
<1>7. h' \in [Handlers -> Requests]
  BY <1>4, <1>5 DEF TypeOK
<1>8. Busy' = Busy
  BY <1>1, <1>4, <1>6 DEF Busy
<1>9. QED
  BY <1>2, <1>4, <1>6, <1>7, <1>8

\* A request goes on to another phase.
LEMMA MovesFacts ==
  ASSUME TypeOK, NEW i \in Busy, NEW pc \in {"resolving", "deleting", "rows"},
         Moves(i, pc)
  PROVE  /\ h' \in [Handlers -> Requests] /\ Busy' = Busy
         /\ \A j \in Handlers \ {i} : h'[j] = h[j]
         /\ h'[i].pc = pc /\ h'[i].op = h[i].op /\ h'[i].d = h[i].d
         /\ h'[i].want = h[i].want
<1>1. i \in Handlers /\ h[i].pc # "idle"
  BY DEF Busy
<1>2. /\ h'[i] = Request(pc, h[i].op, h[i].d, h[i].status, h[i].reps,
                         h[i].want, h[i].next, h[i].changed)
      /\ \A j \in Handlers \ {i} : h'[j] = h[j]
      /\ h' = [h EXCEPT ![i] = h'[i]]
  BY <1>1 DEF Moves, TypeOK
<1>3. h'[i] \in Requests
  BY <1>1, <1>2, HandlerFields DEF Request, Requests
<1>4. /\ h'[i].pc = pc /\ h'[i].op = h[i].op /\ h'[i].d = h[i].d
      /\ h'[i].want = h[i].want
  BY <1>2 DEF Request
<1>5. h' \in [Handlers -> Requests]
  BY <1>2, <1>3 DEF TypeOK
<1>6. Busy' = Busy
  BY <1>1, <1>2, <1>4 DEF Busy
<1>7. QED
  BY <1>2, <1>4, <1>5, <1>6

\* A request is answered.
LEMMA FinishFacts ==
  ASSUME TypeOK, NEW i \in Busy, NEW ok, Finish(i, ok)
  PROVE  /\ h' \in [Handlers -> Requests] /\ Busy' = Busy \ {i}
         /\ \A j \in Handlers \ {i} : h'[j] = h[j]
         /\ last'.op = h[i].op /\ last'.ok = ok /\ last'.d = h[i].d
<1>1. IdleHandler \in Requests /\ IdleHandler.pc = "idle"
  BY ReplicasFacts DEF IdleHandler, Statuses, Request, Requests
<1>2. i \in Handlers /\ h' = [h EXCEPT ![i] = IdleHandler]
  BY DEF Busy, Finish
<1>3. /\ h'[i] = IdleHandler
      /\ h' \in [Handlers -> Requests]
      /\ \A j \in Handlers \ {i} : h'[j] = h[j]
  BY <1>1, <1>2 DEF TypeOK
<1>4. Busy' = Busy \ {i}
  BY <1>1, <1>2, <1>3 DEF Busy
<1>5. QED
  BY <1>3, <1>4 DEF Finish

\* A request arrives.
LEMMA BeginFacts ==
  ASSUME TypeOK, NEW i \in Handlers,
         NEW op \in {"start", "stop", "restart", "scale", "delete"},
         NEW n \in 0 .. MaxReplicas, op = "scale" => n # 0,
         BeginOp(i, op, n)
  PROVE  /\ h' \in [Handlers -> Requests] /\ Busy' = Busy \cup {i}
         /\ \A j \in Handlers \ {i} : h'[j] = h[j]
         /\ h'[i].op = op /\ h'[i].d = ResolveDeployment
         /\ h'[i].pc = IF op \in {"start", "scale"} THEN "starting"
                       ELSE IF ResolveDeployment = Null THEN "deleting"
                       ELSE "stopping"
         /\ ResolveDeployment # Null =>
              /\ h'[i].status = dep[ResolveDeployment].status
              /\ h'[i].reps = dep[ResolveDeployment].reps
         /\ h'[i].want = Desired' /\ h'[i].next = 0 /\ ~h'[i].changed
         /\ replicas' \in 1 .. MaxReplicas
         /\ Desired' = replicas'
<1> DEFINE d == ResolveDeployment
           pc == IF op \in {"start", "scale"} THEN "starting"
                 ELSE IF d = Null THEN "deleting" ELSE "stopping"
           status == IF d = Null THEN "none" ELSE dep[d].status
           reps == IF d = Null THEN NoReplicas ELSE dep[d].reps
           want == Desired'
<1>1. d \in Deps \cup {Null}
  BY ResolveType
<1>2. replicas' \in 1 .. MaxReplicas /\ Desired' = replicas'
  BY DEF BeginOp, TypeOK, Desired
<1>3. status \in Statuses /\ reps \in Replicas
  BY <1>1, ReplicasFacts DEF TypeOK, Statuses
<1>4. want \in 0 .. MaxReplicas /\ 0 \in 0 .. MaxReplicas
  BY <1>2
<1>5. pc \in {"starting", "deleting", "stopping"}
  OBVIOUS
<1>6. h' = [h EXCEPT ![i] = Request(pc, op, d, status, reps, want, 0, FALSE)]
  BY DEF BeginOp
<1>7. h[i].pc = "idle"
  BY DEF BeginOp
<1> HIDE DEF d, pc, status, reps, want
<1>8. Request(pc, op, d, status, reps, want, 0, FALSE) \in Requests
  BY <1>1, <1>3, <1>4, <1>5 DEF Request, Requests
<1>9. /\ h'[i] = Request(pc, op, d, status, reps, want, 0, FALSE)
      /\ \A j \in Handlers \ {i} : h'[j] = h[j]
      /\ h' \in [Handlers -> Requests]
  BY <1>6, <1>8 DEF TypeOK
<1>10. /\ h'[i].pc = pc /\ h'[i].op = op /\ h'[i].d = d
       /\ h'[i].status = status /\ h'[i].reps = reps /\ h'[i].want = want
       /\ h'[i].next = 0 /\ h'[i].changed = FALSE
  BY <1>9 DEF Request
<1>11. Busy' = Busy \cup {i}
  BY <1>5, <1>9, <1>10 DEF Busy
<1>12. QED
  BY <1>2, <1>9, <1>10, <1>11 DEF d, pc, status, reps, want

\* A restart goes on with the deployment it reads for its start.
LEMMA RestartFacts ==
  ASSUME TypeOK, NEW i \in Busy, RestartStart(i), ResolveDeployment # Null
  PROVE  /\ h' \in [Handlers -> Requests] /\ Busy' = Busy
         /\ \A j \in Handlers \ {i} : h'[j] = h[j]
         /\ h'[i].pc = "starting" /\ h'[i].op = h[i].op
         /\ h'[i].d = ResolveDeployment
         /\ h'[i].status = dep[ResolveDeployment].status
         /\ h'[i].reps = dep[ResolveDeployment].reps
         /\ h'[i].want = h[i].want /\ h'[i].next = 0 /\ ~h'[i].changed
         /\ last' = last
<1> DEFINE d == ResolveDeployment
<1>1. d \in Deps
  BY ResolveType
<1>2. dep[d].status \in Statuses /\ dep[d].reps \in Replicas
  BY <1>1 DEF TypeOK
<1>3. i \in Handlers
  BY DEF Busy
<1>4. /\ h' = [h EXCEPT ![i] = Request("starting", h[i].op, d, dep[d].status,
                                       dep[d].reps, h[i].want, 0, FALSE)]
      /\ last' = last
  BY DEF RestartStart
<1> HIDE DEF d
<1>5. Request("starting", h[i].op, d, dep[d].status, dep[d].reps, h[i].want,
              0, FALSE) \in Requests
  BY <1>1, <1>2, <1>3, HandlerFields DEF Request, Requests
<1>6. /\ h'[i] = Request("starting", h[i].op, d, dep[d].status, dep[d].reps,
                         h[i].want, 0, FALSE)
      /\ \A j \in Handlers \ {i} : h'[j] = h[j]
      /\ h' \in [Handlers -> Requests]
  BY <1>3, <1>4, <1>5 DEF TypeOK
<1>7. /\ h'[i].pc = "starting" /\ h'[i].op = h[i].op /\ h'[i].d = d
      /\ h'[i].status = dep[d].status /\ h'[i].reps = dep[d].reps
      /\ h'[i].want = h[i].want /\ h'[i].next = 0 /\ h'[i].changed = FALSE
  BY <1>6 DEF Request
<1>8. Busy' = Busy
  BY <1>3, <1>6, <1>7 DEF Busy
<1>9. QED
  BY <1>4, <1>6, <1>7, <1>8 DEF d

\* What persist_deployment leaves in the database.
LEMMA PersistFacts ==
  ASSUME TypeOK, NEW i \in Busy, h[i].d \in Deps, NEW s \in Statuses,
         Persist(i, s)
  PROVE  /\ dep' \in [Deps -> [status : Statuses, image : BOOLEAN,
                               reps : Replicas]]
         /\ \A e \in Deps : e # h[i].d => dep'[e] = dep[e]
         /\ ~h[i].changed => dep' = dep
         /\ h[i].changed /\ app /\ hasRow =>
              /\ dep'[h[i].d].status = s
              /\ dep'[h[i].d].image = dep[h[i].d].image
              /\ dep'[h[i].d].reps = h[i].reps
<1>1. h[i].reps \in Replicas /\ h[i].changed \in BOOLEAN
  BY HandlerFields DEF Busy
<1>2. dep[h[i].d] \in [status : Statuses, image : BOOLEAN, reps : Replicas]
  BY DEF TypeOK
<1>3. CASE ~h[i].changed \/ ~app
  BY <1>3 DEF Persist, TypeOK
<1>4. CASE h[i].changed /\ app
  <2> DEFINE reps == IF hasRow THEN h[i].reps ELSE dep[h[i].d].reps
             row == Deployment(s, dep[h[i].d].image, reps)
  <2>1. reps \in Replicas
    BY <1>1, <1>2
  <2>2. dep' = [dep EXCEPT ![h[i].d] = row]
    BY <1>4 DEF Persist
  <2> HIDE DEF reps
  <2>3. /\ row \in [status : Statuses, image : BOOLEAN, reps : Replicas]
        /\ row.status = s /\ row.image = dep[h[i].d].image /\ row.reps = reps
    BY <1>2, <2>1 DEF Deployment
  <2> HIDE DEF row
  <2>4. /\ dep' \in [Deps -> [status : Statuses, image : BOOLEAN,
                              reps : Replicas]]
        /\ dep'[h[i].d] = row
        /\ \A e \in Deps : e # h[i].d => dep'[e] = dep[e]
    BY <2>2, <2>3 DEF TypeOK
  <2>5. QED
    BY <1>4, <2>3, <2>4 DEF reps
<1>5. QED
  BY <1>1, <1>3, <1>4

-----------------------------------------------------------------------------
(* Types *)

\* Docker removes what it is asked to, or keeps it running.
LEMMA RemoveFacts ==
  ASSUME NEW asked, Remove(asked)
  PROVE  /\ cont' \subseteq cont /\ cont \ asked \subseteq cont'
         /\ cont' \cap asked \subseteq refused'
         /\ orphan \cap cont' \subseteq orphan'
         /\ refused \cap cont' \subseteq refused'
  BY DEF Remove

\* What a request leaves behind when it is cut short are containers of the
\* service.
LEMMA UnderwayType ==
  ASSUME TypeOK, NEW i \in Busy, h[i].pc = "starting" => h[i].d \in Deps,
         cont' \in Underway(i)
  PROVE  cont' \subseteq Indices \X Deps
<1>1. h[i].next \in 0 .. MaxReplicas /\ h[i].want \in 0 .. MaxReplicas
  BY HandlerFields DEF Busy
<1>2. h[i].next < h[i].want => h[i].next \in Indices
  BY <1>1 DEF Indices
<1>3. \/ cont' \subseteq cont
      \/ /\ h[i].pc = "starting" /\ h[i].next < h[i].want
         /\ cont' = cont \cup {<<h[i].next, h[i].d>>}
  BY DEF Underway
<1>4. QED
  BY <1>2, <1>3 DEF TypeOK

\* A request keeps the types.
LEMMA HandlerType ==
  ASSUME TypeOK, NEW i \in Handlers, HandlerStep(i)
  PROVE  TypeOK'
<1>1. ASSUME NEW op \in {"start", "stop", "restart", "scale", "delete"},
             NEW n \in 0 .. MaxReplicas, op = "scale" => n # 0,
             BeginOp(i, op, n)
      PROVE  TypeOK'
  <2>1. /\ h' \in [Handlers -> Requests] /\ Busy' = Busy \cup {i}
        /\ \A j \in Handlers \ {i} : h'[j] = h[j]
        /\ h'[i].op = op /\ h'[i].d = ResolveDeployment
        /\ h'[i].pc = IF op \in {"start", "scale"} THEN "starting"
                      ELSE IF ResolveDeployment = Null THEN "deleting"
                      ELSE "stopping"
        /\ replicas' \in 1 .. MaxReplicas
    BY <1>1, BeginFacts
  <2>2. /\ ops' \in 0 .. MaxOps
        /\ UNCHANGED <<app, hasRow, alone, prebuilt, dep, cont>>
        /\ op \in {"start", "stop", "restart", "scale"} =>
             ResolveDeployment # Null
    BY <1>1 DEF BeginOp, TypeOK
  <2>3. overlap' \in BOOLEAN
    BY <1>1 DEF BeginOp, TypeOK
  <2>4. \A j \in Busy' : h'[j].d = Null => h'[j].pc \in {"deleting", "rows"}
    BY <2>1, <2>2 DEF TypeOK, Busy
  <2>5. QED
    BY <2>1, <2>2, <2>3, <2>4 DEF TypeOK
<1>2. CASE \/ \E op \in {"start", "stop", "restart"} : RunAction(i, op)
           \/ \E n \in 1 .. MaxReplicas : UpdateReplicas(i, n)
           \/ DeleteService(i)
  BY <1>1, <1>2 DEF RunAction, UpdateReplicas, DeleteService
<1>3. ASSUME h[i].pc # "idle"
      PROVE  /\ i \in Busy
             /\ h[i].pc \notin {"deleting", "rows"} => h[i].d \in Deps
             /\ h[i].reps \in Replicas /\ h[i].changed \in BOOLEAN
             /\ h[i].status \in Statuses
             /\ h[i].next \in 0 .. MaxReplicas /\ h[i].want \in 0 .. MaxReplicas
             /\ \A r \in Indices : /\ h[i].reps[r] \in ReplicaRows
                                   /\ StoppedRow(h[i].reps[r]) \in ReplicaRows
  BY <1>3, HandlerFields, ReplicasFacts DEF Busy, TypeOK, Replicas
<1>4. ASSUME NEW r \in Indices, NEW row \in ReplicaRows, NEW c \in BOOLEAN,
             i \in Busy, Put(i, r, row, c)
      PROVE  /\ h' \in [Handlers -> Requests]
             /\ \A j \in Busy' : h'[j].d = Null =>
                                     h'[j].pc \in {"deleting", "rows"}
  BY <1>4, PutFacts DEF TypeOK, Busy
<1>5. ASSUME NEW ok, i \in Busy, Finish(i, ok)
      PROVE  /\ h' \in [Handlers -> Requests]
             /\ \A j \in Busy' : h'[j].d = Null =>
                                     h'[j].pc \in {"deleting", "rows"}
  BY <1>5, FinishFacts DEF TypeOK, Busy
<1>6. ASSUME i \in Busy, NEW pc \in {"resolving", "deleting", "rows"},
             Moves(i, pc), h[i].d = Null => pc \in {"deleting", "rows"}
      PROVE  /\ h' \in [Handlers -> Requests]
             /\ \A j \in Busy' : h'[j].d = Null =>
                                     h'[j].pc \in {"deleting", "rows"}
  BY <1>6, MovesFacts DEF TypeOK, Busy
<1>7. CASE StopReplica(i) \/ StopExtra(i)
  <2>1. h[i].next \in Indices /\ h[i].pc \in {"stopping", "starting"}
    BY <1>7 DEF StopReplica, StopExtra
  <2>2. cont' \subseteq Indices \X Deps
    <3>1. PICK asked : Remove(asked)
      BY <1>7 DEF StopReplica, StopExtra, StopContainer
    <3>2. QED
      BY <3>1, RemoveFacts DEF TypeOK
  <2>3. (h[i].changed \/ h[i].reps[h[i].next].status # "none") \in BOOLEAN
    BY <1>3, <2>1
  <2>4. Put(i, h[i].next, StoppedRow(h[i].reps[h[i].next]),
            h[i].changed \/ h[i].reps[h[i].next].status # "none")
    BY <1>7 DEF StopReplica, StopExtra
  <2>5. /\ h' \in [Handlers -> Requests]
        /\ \A j \in Busy' : h'[j].d = Null => h'[j].pc \in {"deleting", "rows"}
    BY <1>3, <1>4, <2>1, <2>3, <2>4
  <2>6. UNCHANGED <<app, hasRow, alone, prebuilt, replicas, dep, ops,
                    overlap>>
    BY <1>7 DEF StopReplica, StopExtra
  <2>7. QED
    BY <2>2, <2>5, <2>6 DEF TypeOK
<1>8. CASE StopDone(i) \/ StartDone(i)
  <2>1. h[i].pc \in {"stopping", "starting"}
        /\ \E s \in {"running", h[i].status} : Persist(i, s)
    BY <1>8 DEF StopDone, StartDone
  <2>2. dep' \in [Deps -> [status : Statuses, image : BOOLEAN, reps : Replicas]]
    <3>1. PICK s \in Statuses : Persist(i, s)
      BY <1>3, <2>1 DEF Statuses
    <3>2. QED
      BY <1>3, <2>1, <3>1, PersistFacts
  <2>3. \/ \E ok : Finish(i, ok)
        \/ \E pc \in {"resolving", "deleting"} : Moves(i, pc)
    BY <1>8 DEF StopDone, StartDone
  <2>4. h[i].d # Null
    BY <1>3, <2>1
  <2>5. /\ h' \in [Handlers -> Requests]
        /\ \A j \in Busy' : h'[j].d = Null => h'[j].pc \in {"deleting", "rows"}
    BY <1>3, <1>5, <1>6, <2>1, <2>3, <2>4
  <2>6. UNCHANGED <<app, hasRow, alone, prebuilt, replicas, cont, ops,
                    overlap>>
    BY <1>8 DEF StopDone, StartDone
  <2>7. QED
    BY <2>2, <2>5, <2>6 DEF TypeOK
<1>9. CASE RestartStart(i)
  <2>1. i \in Busy
    BY <1>3, <1>9 DEF RestartStart
  <2>2. /\ h' \in [Handlers -> Requests]
        /\ \A j \in Busy' : h'[j].d = Null => h'[j].pc \in {"deleting", "rows"}
    <3>1. CASE ResolveDeployment = Null
      BY <1>5, <1>9, <2>1, <3>1 DEF RestartStart
    <3>2. CASE ResolveDeployment # Null
      BY <1>9, <2>1, <3>2, RestartFacts DEF TypeOK, Busy
    <3>3. QED
      BY <3>1, <3>2
  <2>3. QED
    BY <1>9, <2>2 DEF RestartStart, TypeOK
<1>10. CASE StartReplica(i)
  <2>1. h[i].pc = "starting" /\ h[i].next \in Indices /\ h[i].d \in Deps
    BY <1>3, <1>10 DEF StartReplica, Indices
  <2>2. UNCHANGED <<app, hasRow, alone, prebuilt, replicas, dep, ops, overlap>>
    BY <1>10 DEF StartReplica
  <2>3. CASE AlreadyRunning(h[i].reps[h[i].next])
    <3>1. Put(i, h[i].next, h[i].reps[h[i].next], h[i].changed)
          /\ UNCHANGED cont
      BY <1>10, <2>3 DEF StartReplica
    <3>2. QED
      BY <1>3, <1>4, <2>1, <2>2, <3>1 DEF TypeOK
  <2>4. CASE CreateReplica(i, h[i].next)
    <3>1. Put(i, h[i].next, UpReplica, TRUE)
          /\ cont' = cont \cup {<<h[i].next, h[i].d>>}
      BY <2>4 DEF CreateReplica
    <3>2. cont' \subseteq Indices \X Deps
      BY <2>1, <3>1 DEF TypeOK
    <3>3. /\ h' \in [Handlers -> Requests]
          /\ \A j \in Busy' : h'[j].d = Null => h'[j].pc \in {"deleting", "rows"}
      BY <1>3, <1>4, <2>1, <3>1, ReplicasFacts
    <3>4. QED
      BY <2>2, <3>1, <3>2, <3>3 DEF TypeOK
  <2>5. CASE /\ EndUnsaved(i)
             /\ cont' \in {cont, cont \ {<<h[i].next, h[i].d>>},
                           cont \cup {<<h[i].next, h[i].d>>}}
    <3>1. Finish(i, FALSE)
      BY <2>5 DEF EndUnsaved
    <3>2. cont' \subseteq Indices \X Deps
      BY <2>1, <2>5 DEF TypeOK
    <3>3. /\ h' \in [Handlers -> Requests]
          /\ \A j \in Busy' : h'[j].d = Null => h'[j].pc \in {"deleting", "rows"}
      BY <1>3, <1>5, <2>1, <3>1
    <3>4. QED
      BY <2>2, <3>2, <3>3 DEF TypeOK
  <2>6. QED
    BY <1>10, <2>3, <2>4, <2>5
    DEF StartReplica, NetworkFails, PullFails, MountsFail, CreateFails,
        Unhealthy, RemoveByName
<1>11. CASE DeleteRuntime(i)
  <2>1. i \in Busy /\ cont' \subseteq Indices \X Deps
    <3>1. i \in Busy /\ (cont' \in SUBSET cont \/ Remove(cont))
      BY <1>3, <1>11 DEF DeleteRuntime
    <3>2. cont' \subseteq cont
      BY <3>1, RemoveFacts
    <3>3. QED
      BY <3>1, <3>2 DEF TypeOK
  <2>2. /\ h' \in [Handlers -> Requests]
        /\ \A j \in Busy' : h'[j].d = Null => h'[j].pc \in {"deleting", "rows"}
    BY <1>5, <1>6, <1>11, <2>1 DEF DeleteRuntime, EndUnsaved
  <2>3. QED
    BY <1>11, <2>1, <2>2 DEF DeleteRuntime, TypeOK
<1>12. CASE DeleteApp(i) \/ DeleteServiceRow(i)
  <2>1. i \in Busy /\ \E ok : Finish(i, ok)
    BY <1>3, <1>12 DEF DeleteApp, DeleteServiceRow
  <2>2. /\ h' \in [Handlers -> Requests]
        /\ \A j \in Busy' : h'[j].d = Null => h'[j].pc \in {"deleting", "rows"}
    BY <1>5, <2>1
  <2>3. dep' \in [Deps -> [status : Statuses, image : BOOLEAN, reps : Replicas]]
    <3>1. /\ "none" \in Statuses /\ NoReplicas \in Replicas
          /\ \A d \in Deps : dep[d].status \in Statuses
                             /\ dep[d].image \in BOOLEAN
      BY ReplicasFacts DEF Statuses, TypeOK
    <3>2. CASE DeleteApp(i)
      BY <3>1, <3>2 DEF DeleteApp, NoDeployment, Deployment
    <3>3. CASE DeleteServiceRow(i)
      BY <3>1, <3>3 DEF DeleteServiceRow, Deployment
    <3>4. QED
      BY <1>12, <3>2, <3>3
  <2>4. QED
    BY <1>12, <2>2, <2>3 DEF DeleteApp, DeleteServiceRow, TypeOK
<1>13. CASE CutShort(i)
  <2>1. i \in Busy /\ Finish(i, FALSE) /\ cont' \in Underway(i)
        /\ (h[i].pc = "starting" => h[i].d \in Deps)
        /\ UNCHANGED <<app, hasRow, alone, prebuilt, replicas, dep, ops, overlap>>
    BY <1>3, <1>13 DEF CutShort, EndUnsaved
  <2>2. cont' \subseteq Indices \X Deps
    BY <2>1, UnderwayType
  <2>3. /\ h' \in [Handlers -> Requests]
        /\ \A j \in Busy' : h'[j].d = Null => h'[j].pc \in {"deleting", "rows"}
    BY <1>5, <2>1
  <2>4. QED
    BY <2>1, <2>2, <2>3 DEF TypeOK
<1>14. CASE StopPassedOver(i)
  <2>1. i \in Busy /\ Moves(i, "deleting")
        /\ UNCHANGED <<app, hasRow, alone, prebuilt, replicas, dep, cont, ops,
                       overlap>>
    BY <1>3, <1>14 DEF StopPassedOver
  <2>2. /\ h' \in [Handlers -> Requests]
        /\ \A j \in Busy' : h'[j].d = Null => h'[j].pc \in {"deleting", "rows"}
    BY <1>6, <2>1
  <2>3. QED
    BY <2>1, <2>2 DEF TypeOK
<1>15. QED
  BY <1>2, <1>7, <1>8, <1>9, <1>10, <1>11, <1>12, <1>13, <1>14 DEF HandlerStep

\* The rows a successful rollout leaves.
LEMMA CommitFacts ==
  ASSUME TypeOK, NEW d \in Deps, RolloutCommit(d)
  PROVE  /\ dep' \in [Deps -> [status : Statuses, image : BOOLEAN,
                               reps : Replicas]]
         /\ dep'[d].status = "running" /\ dep'[d].image = TRUE
         /\ \A r \in Indices :
              dep'[d].reps[r] = IF <<r, d>> \in cont THEN UpReplica
                                ELSE NoReplica
         /\ \A e \in Deps \ {d} :
              \/ /\ dep[e].status = "running"
                 /\ dep'[e].status = "stopped"
                 /\ \A r \in Indices : dep'[e].reps[r] # UpReplica
              \/ /\ dep[e].status # "running"
                 /\ dep'[e] = dep[e]
<1> DEFINE new == [r \in Indices |-> IF <<r, d>> \in cont THEN UpReplica
                                     ELSE NoReplica]
           down(e) == [r \in Indices |-> StoppedRow(dep[e].reps[r])]
<1>1. /\ new \in Replicas
      /\ \A r \in Indices : new[r] = IF <<r, d>> \in cont THEN UpReplica
                                      ELSE NoReplica
  BY ReplicasFacts DEF Replicas
<1>2. ASSUME NEW e \in Deps
      PROVE  /\ dep[e] \in [status : Statuses, image : BOOLEAN,
                             reps : Replicas]
             /\ down(e) \in Replicas
             /\ \A r \in Indices : down(e)[r] # UpReplica
  <2>1. dep[e] \in [status : Statuses, image : BOOLEAN, reps : Replicas]
    BY DEF TypeOK
  <2>2. \A r \in Indices : dep[e].reps[r] \in ReplicaRows
    BY <2>1 DEF Replicas
  <2>3. QED
    BY <2>1, <2>2, ReplicasFacts DEF Replicas
<1>3. dep' = [e \in Deps |->
                IF e = d THEN Deployment("running", TRUE, new)
                ELSE IF e \in {x \in Deps \ {d} : dep[x].status = "running"}
                THEN Deployment("stopped", dep[e].image, down(e))
                ELSE dep[e]]
  BY DEF RolloutCommit
<1> HIDE DEF new, down
<1>4. /\ dep'[d].status = "running" /\ dep'[d].image = TRUE
      /\ dep'[d].reps = new
  BY <1>3 DEF Deployment
<1>5. ASSUME NEW e \in Deps \ {d}
      PROVE  \/ /\ dep[e].status = "running"
                /\ dep'[e].status = "stopped"
                /\ \A r \in Indices : dep'[e].reps[r] # UpReplica
             \/ /\ dep[e].status # "running"
                /\ dep'[e] = dep[e]
  BY <1>2, <1>3 DEF Deployment
<1>6. \A e \in Deps : dep'[e] \in [status : Statuses, image : BOOLEAN,
                                   reps : Replicas]
  BY <1>1, <1>2, <1>3 DEF Deployment, Statuses
<1>7. dep' \in [Deps -> [status : Statuses, image : BOOLEAN, reps : Replicas]]
  BY <1>3, <1>6
<1>8. QED
  BY <1>1, <1>4, <1>5, <1>7

\* The rows a rollout saves as it goes.
LEMMA CreateFacts ==
  ASSUME TypeOK, NEW d \in Deps, RolloutCreate(d)
  PROVE  /\ dep' \in [Deps -> [status : Statuses, image : BOOLEAN,
                               reps : Replicas]]
         /\ dep'[d].status = "starting"
         /\ \A r \in Indices :
              dep'[d].reps[r] = UpReplica <=> r \in 0 .. Desired - 1
         /\ \A e \in Deps \ {d} : dep'[e] = dep[e]
<1> DEFINE new == [r \in Indices |-> IF r \in 0 .. Desired - 1 THEN UpReplica
                                     ELSE NoReplica]
<1>1. /\ new \in Replicas
      /\ \A r \in Indices : new[r] = UpReplica <=> r \in 0 .. Desired - 1
  BY ReplicasFacts DEF Replicas
<1>2. dep' = [dep EXCEPT ![d] = Deployment("starting", TRUE, new)]
  BY DEF RolloutCreate
<1> HIDE DEF new
<1>3. Deployment("starting", TRUE, new)
        \in [status : Statuses, image : BOOLEAN, reps : Replicas]
  BY <1>1 DEF Deployment, Statuses
<1>4. /\ dep'[d] = Deployment("starting", TRUE, new)
      /\ \A e \in Deps \ {d} : dep'[e] = dep[e]
      /\ dep' \in [Deps -> [status : Statuses, image : BOOLEAN, reps : Replicas]]
  BY <1>2, <1>3 DEF TypeOK
<1>5. QED
  BY <1>1, <1>4 DEF Deployment

\* The rows a failed rollout leaves.
LEMMA FailFacts ==
  ASSUME TypeOK, NEW d \in Deps, RolloutFail(d)
  PROVE  /\ dep' \in [Deps -> [status : Statuses, image : BOOLEAN,
                               reps : Replicas]]
         /\ dep'[d].status = "failed"
         /\ \A r \in Indices : dep'[d].reps[r] # UpReplica
         /\ \A e \in Deps \ {d} : dep'[e] = dep[e]
<1>1. PICK n \in 0 .. Desired :
        dep' = [dep EXCEPT ![d] =
                  Deployment("failed", n > 0,
                             [r \in Indices |-> IF r < n THEN FailedReplica
                                                ELSE NoReplica])]
  BY DEF RolloutFail
<1> DEFINE new == [r \in Indices |-> IF r < n THEN FailedReplica ELSE NoReplica]
           image == n > 0
<1>2. /\ new \in Replicas /\ \A r \in Indices : new[r] # UpReplica
      /\ image \in BOOLEAN
  BY ReplicasFacts DEF Replicas
<1>3. dep' = [dep EXCEPT ![d] = Deployment("failed", image, new)]
  BY <1>1
<1> HIDE DEF new, image
<1>4. Deployment("failed", image, new)
        \in [status : Statuses, image : BOOLEAN, reps : Replicas]
  BY <1>2 DEF Deployment, Statuses
<1>5. /\ dep'[d] = Deployment("failed", image, new)
      /\ \A e \in Deps \ {d} : dep'[e] = dep[e]
      /\ dep' \in [Deps -> [status : Statuses, image : BOOLEAN, reps : Replicas]]
  BY <1>3, <1>4 DEF TypeOK
<1>6. QED
  BY <1>2, <1>5 DEF Deployment

\* A rollout keeps the types.
LEMMA RolloutType ==
  ASSUME TypeOK, NEW d \in Deps,
         RolloutCreate(d) \/ RolloutCommit(d) \/ RolloutFail(d)
  PROVE  TypeOK'
<1> USE DEF TypeOK
<1>1. CASE RolloutCreate(d)
  <2>1. dep' \in [Deps -> [status : Statuses, image : BOOLEAN, reps : Replicas]]
    BY <1>1, CreateFacts
  <2>2. cont' \subseteq Indices \X Deps
    BY <1>1 DEF RolloutCreate, Desired, Indices
  <2>3. QED
    BY <1>1, <2>1, <2>2 DEF RolloutCreate, Busy
<1>2. CASE RolloutCommit(d)
  <2>1. dep' \in [Deps -> [status : Statuses, image : BOOLEAN, reps : Replicas]]
    BY <1>2, CommitFacts
  <2>2. PICK asked : Remove(asked)
    BY <1>2 DEF RolloutCommit
  <2>3. cont' \subseteq Indices \X Deps
    BY <2>2, RemoveFacts
  <2>4. QED
    BY <1>2, <2>1, <2>3 DEF RolloutCommit, Busy
<1>3. CASE RolloutFail(d)
  <2>1. dep' \in [Deps -> [status : Statuses, image : BOOLEAN, reps : Replicas]]
    BY <1>3, FailFacts
  <2>2. cont' \subseteq cont
    BY <1>3 DEF RolloutFail
  <2>3. QED
    BY <1>3, <2>1, <2>2 DEF RolloutFail, Busy
<1>4. QED
  BY <1>1, <1>2, <1>3

-----------------------------------------------------------------------------
(* One request or rollout at a time *)

\* Which containers the rows and the copy of a request name.
LEMMA NamedAt ==
  /\ Named \subseteq Indices \X Deps
  /\ \A r \in Indices, e \in Deps :
       <<r, e>> \in Named <=> dep[e].reps[r] = UpReplica
  BY DEF Named

LEMMA CopyNamesAt ==
  ASSUME NEW i, h[i].d \in Deps
  PROVE  /\ CopyNames(i) \subseteq Indices \X Deps
         /\ \A r \in Indices, e \in Deps :
              <<r, e>> \in CopyNames(i) <=> e = h[i].d /\ h[i].reps[r] = UpReplica
  BY DEF CopyNames

\* A request in flight is the only one, and finds the service there.
LEMMA SoloFacts ==
  ASSUME TypeOK, SoloInv, NEW i \in Busy
  PROVE  /\ Busy = {i} /\ app /\ hasRow /\ last = Null /\ ~RollingOut
         /\ i \in Handlers
         /\ h[i].want = Desired /\ Desired \in 1 .. MaxReplicas
         /\ h[i].next \in 0 .. MaxReplicas /\ h[i].changed \in BOOLEAN
         /\ \A r \in Indices : h[i].reps[r] \in ReplicaRows
         /\ h[i].pc = "stopping" => StoppingInv(i)
         /\ h[i].pc = "starting" => StartingInv(i)
         /\ h[i].pc \in {"resolving", "deleting", "rows"} => StoppedInv(i)
<1>1. Busy = {i} /\ app /\ hasRow /\ last = Null /\ ~RollingOut
  BY DEF SoloInv, OneAtATime
<1>2. i \in Handlers
  BY DEF Busy
<1>3. /\ h[i].next \in 0 .. MaxReplicas /\ h[i].changed \in BOOLEAN
      /\ \A r \in Indices : h[i].reps[r] \in ReplicaRows
  BY <1>2, HandlerFields DEF Replicas
<1>4. Desired \in 1 .. MaxReplicas
  BY DEF Desired, TypeOK
<1>5. QED
  BY <1>1, <1>2, <1>3, <1>4 DEF SoloInv, HandlersInv

\* With at most one Running deployment, that one has all the names.
LEMMA OnlyOneNames ==
  ASSUME RowsInv, ~RollingOut, NEW d, Running \subseteq {d}
  PROVE  \A r \in Indices, e \in Deps :
           <<r, e>> \in Named <=> e = d /\ dep[d].reps[r] = UpReplica
<1>1. \A r \in Indices, e \in Deps : <<r, e>> \in Named => e \in Running
  BY DEF RowsInv, RollingOut, Running
<1>2. QED
  BY <1>1, NamedAt DEF Running

\* RowsInv and Named depend on the rows only.
LEMMA SameRows ==
  ASSUME UNCHANGED <<dep, prebuilt>>
  PROVE  /\ Named' = Named /\ Running' = Running
         /\ RollingOut' = RollingOut
         /\ RowsInv => RowsInv'
         /\ \A d \in Deps : HasServiceImage(d) => HasServiceImage(d)'
  BY DEF Named, Running, RollingOut, RowsInv, HasServiceImage

\* A request arrives while nothing else goes on.
LEMMA SoloBegin ==
  ASSUME TypeOK, SoloInv, NEW i \in Handlers,
         NEW op \in {"start", "stop", "restart", "scale", "delete"},
         NEW n \in 0 .. MaxReplicas, op = "scale" => n # 0,
         BeginOp(i, op, n), ~overlap'
  PROVE  SoloInv' /\ AnsweredIsDone'
<1> DEFINE d == ResolveDeployment
<1>1. /\ Busy = {} /\ ~RollingOut /\ hasRow /\ last' = Null
      /\ UNCHANGED <<app, hasRow, alone, prebuilt, dep, cont, torn, orphan,
                     refused>>
      /\ op # "delete" => d # Null
  BY DEF BeginOp, ghosts
<1>2. /\ Busy' = {i}
      /\ h'[i].op = op /\ h'[i].d = d
      /\ h'[i].pc = IF op \in {"start", "scale"} THEN "starting"
                    ELSE IF d = Null THEN "deleting" ELSE "stopping"
      /\ d # Null => h'[i].status = dep[d].status /\ h'[i].reps = dep[d].reps
      /\ h'[i].want = Desired' /\ h'[i].next = 0 /\ ~h'[i].changed
      /\ replicas' \in 1 .. MaxReplicas /\ Desired' = replicas'
  BY <1>1, BeginFacts
<1>3. /\ d # Null => d \in Deps /\ HasServiceImage(d) /\ Running \subseteq {d}
      /\ d = Null => Running = {}
  BY ResolveFacts DEF SoloInv
<1>4. /\ Named' = Named /\ Running' = Running /\ RollingOut' = RollingOut
      /\ RowsInv'
      /\ \A e \in Deps : HasServiceImage(e) => HasServiceImage(e)'
  BY <1>1, SameRows DEF SoloInv
<1> HIDE DEF d
<1>5. /\ Named \subseteq cont \cup torn
      /\ cont \subseteq Named \cup orphan \cup refused
  BY <1>1 DEF SoloInv, RestInv
<1>6. OneAtATime'
  BY <1>1, <1>2, <1>4 DEF OneAtATime, SoloInv
<1>7. d # Null => CopyHeld(i)'
  <2> SUFFICES ASSUME d # Null PROVE CopyHeld(i)'
    OBVIOUS
  <2>1. \A r \in Indices, e \in Deps :
          <<r, e>> \in Named <=> e = d /\ dep[d].reps[r] = UpReplica
    BY <1>1, <1>3, OnlyOneNames DEF SoloInv
  <2>2. CopyNames(i)' = {c \in Indices \X {d} : dep[d].reps[c[1]] = UpReplica}
    BY <1>2 DEF CopyNames
  <2>3. CopyNames(i)' = Named
    BY <1>3, <2>1, <2>2, NamedAt
  <2>4. QED
    BY <1>1, <1>2, <1>3, <1>4, <1>5, <2>3 DEF CopyHeld
<1>8. HandlersInv'
  <2>1. h'[i].pc = "stopping" => StoppingInv(i)'
    BY <1>2, <1>7 DEF StoppingInv, Indices
  <2>2. h'[i].pc = "starting" => StartingInv(i)'
    BY <1>1, <1>2, <1>4, <1>5, <1>7 DEF StartingInv, Indices
  <2>3. h'[i].pc = "deleting" => StoppedInv(i)'
    <3>1. d = Null => Named = {}
      <4>1. \A c \in Named : c[2] \in Running
        BY <1>1, NamedAt DEF SoloInv, RowsInv, RollingOut, Running
      <4>2. QED
        BY <1>3, <4>1
    <3>2. QED
      BY <1>1, <1>2, <1>5, <3>1 DEF StoppedInv
  <2>4. QED
    BY <1>2, <2>1, <2>2, <2>3 DEF HandlersInv
<1>9. RestInv' /\ AnsweredIsDone'
  BY <1>1, <1>2
  DEF RestInv, AnsweredIsDone, StartedRuns, StoppedIsDown,
      DeletedLeavesNothing, Quiet
<1>10. QED
  BY <1>4, <1>6, <1>8, <1>9 DEF SoloInv

\* A request that goes on leaves the rows alone, so only what concerns it is
\* to be shown.
LEMMA SoloGoesOn ==
  ASSUME TypeOK, SoloInv, NEW i \in Busy, ~overlap', Busy' = Busy,
         UNCHANGED <<app, hasRow, prebuilt, replicas, dep, last>>,
         h'[i].want = h[i].want,
         h'[i].pc = "stopping" => StoppingInv(i)',
         h'[i].pc = "starting" => StartingInv(i)',
         h'[i].pc \in {"resolving", "deleting", "rows"} => StoppedInv(i)'
  PROVE  SoloInv' /\ AnsweredIsDone'
<1>1. /\ Busy = {i} /\ app /\ hasRow /\ last = Null /\ ~RollingOut
      /\ h[i].want = Desired
  BY SoloFacts
<1>2. RollingOut' = RollingOut /\ RowsInv'
  BY SameRows DEF SoloInv
<1>3. OneAtATime'
  BY <1>1, <1>2 DEF SoloInv, OneAtATime
<1>4. HandlersInv'
  BY <1>1 DEF HandlersInv, Desired
<1>5. RestInv' /\ AnsweredIsDone'
  BY <1>1
  DEF RestInv, AnsweredIsDone, StartedRuns, StoppedIsDown,
      DeletedLeavesNothing, Quiet
<1>6. QED
  BY <1>2, <1>3, <1>4, <1>5 DEF SoloInv

\* A request that is answered with an error, or with success about rows and
\* containers that are as it says.
LEMMA SoloEnds ==
  ASSUME TypeOK, SoloInv, NEW i \in Busy, NEW ok, Finish(i, ok), ~overlap',
         hasRow' => app', RowsInv', ~RollingOut',
         Named' \subseteq cont' \cup torn',
         cont' \subseteq Named' \cup orphan' \cup refused',
         ok /\ h[i].op \in {"start", "restart", "scale"} =>
           /\ dep'[h[i].d].status = "running"
           /\ \A r \in 0 .. Desired' - 1 :
                /\ <<r, h[i].d>> \in Named'
                /\ \/ <<r, h[i].d>> \in cont'
                   \/ h[i].op # "restart" /\ <<r, h[i].d>> \in torn'
           /\ h[i].op = "scale" =>
                \A r \in Indices : r >= Desired' => <<r, h[i].d>> \notin Named',
         ok /\ h[i].op = "stop" =>
           Named' = {} /\ cont' \subseteq orphan' \cup refused',
         ~hasRow' =>
           cont' \subseteq IF alone' THEN refused' ELSE orphan' \cup refused'
  PROVE  SoloInv' /\ AnsweredIsDone'
<1>1. /\ Busy' = {}
      /\ last'.op = h[i].op /\ last'.ok = ok /\ last'.d = h[i].d
  BY FinishFacts, SoloFacts
<1>2. OneAtATime' /\ HandlersInv' /\ RestInv'
  BY <1>1 DEF OneAtATime, HandlersInv, RestInv
<1>3. StartedRuns'
  BY <1>1 DEF StartedRuns
<1>4. StoppedIsDown' /\ DeletedLeavesNothing'
  BY <1>1 DEF StoppedIsDown, DeletedLeavesNothing
<1>5. QED
  BY <1>2, <1>3, <1>4 DEF SoloInv, AnsweredIsDone

\* A request that ends without its save leaves the rows as they were.
LEMMA SoloUnsaved ==
  ASSUME TypeOK, SoloInv, NEW i \in Busy, EndUnsaved(i), ~overlap',
         UNCHANGED <<app, hasRow, prebuilt, dep>>
  PROVE  SoloInv' /\ AnsweredIsDone'
<1>1. app /\ hasRow /\ ~RollingOut
  BY SoloFacts
<1>2. Named' = Named /\ ~RollingOut' /\ RowsInv'
  BY <1>1, SameRows DEF SoloInv
<1>3. /\ Finish(i, FALSE)
      /\ Named' \subseteq cont' \cup torn'
      /\ cont' \subseteq Named' \cup orphan' \cup refused'
  BY <1>2 DEF EndUnsaved
<1>4. QED
  BY <1>1, <1>2, <1>3, SoloEnds

\* delete_app_service goes on after a stop that failed.
LEMMA SoloPassedOver ==
  ASSUME TypeOK, SoloInv, NEW i \in Busy, StopPassedOver(i), ~overlap'
  PROVE  SoloInv' /\ AnsweredIsDone'
<1>1. /\ Moves(i, "deleting") /\ h[i].op = "delete"
      /\ orphan' = orphan \cup cont
      /\ UNCHANGED <<app, hasRow, alone, prebuilt, replicas, dep, cont, refused,
                     last>>
  BY DEF StopPassedOver
<1>2. /\ Busy' = Busy /\ h'[i].pc = "deleting" /\ h'[i].op = h[i].op
      /\ h'[i].want = h[i].want
  BY <1>1, MovesFacts
<1>3. StoppedInv(i)'
  BY <1>1, <1>2 DEF StoppedInv
<1>4. QED
  BY <1>1, <1>2, <1>3, SoloGoesOn

\* One more replica is stopped.
LEMMA SoloStopOne ==
  ASSUME TypeOK, SoloInv, NEW i \in Busy, StopReplica(i) \/ StopExtra(i),
         ~overlap'
  PROVE  SoloInv' /\ AnsweredIsDone'
<1> DEFINE r == h[i].next
           d == h[i].d
           asked == IF h[i].reps[r].cid THEN {<<r, d>>} ELSE {}
<1>1. /\ r \in Indices /\ Remove(asked)
      /\ Put(i, r, StoppedRow(h[i].reps[r]),
             h[i].changed \/ h[i].reps[r].status # "none")
      /\ UNCHANGED <<app, hasRow, alone, prebuilt, replicas, dep, torn, last>>
      /\ \/ h[i].pc = "stopping"
         \/ h[i].pc = "starting" /\ h[i].op = "scale" /\ r >= h[i].want
  BY DEF StopReplica, StopExtra, StopContainer
<1>2. /\ h[i].changed \in BOOLEAN
      /\ \A q \in Indices : h[i].reps[q] \in ReplicaRows
      /\ h[i].pc = "stopping" => StoppingInv(i)
      /\ h[i].pc = "starting" => StartingInv(i)
      /\ h[i].want \in Int
  BY SoloFacts
<1>3. /\ StoppedRow(h[i].reps[r]) \in ReplicaRows
      /\ StoppedRow(h[i].reps[r]) # UpReplica
      /\ h[i].reps[r].status = "none" =>
           StoppedRow(h[i].reps[r]) = h[i].reps[r]
  BY <1>1, <1>2, ReplicasFacts
<1>4. CopyHeld(i)
  BY <1>1, <1>2 DEF StoppingInv, StartingInv
<1>5. /\ Busy' = Busy
      /\ h'[i].pc = h[i].pc /\ h'[i].op = h[i].op /\ h'[i].d = d
      /\ h'[i].status = h[i].status /\ h'[i].want = h[i].want
      /\ h'[i].next = r + 1
      /\ h'[i].changed = (h[i].changed \/ h[i].reps[r].status # "none")
      /\ h'[i].reps[r] = StoppedRow(h[i].reps[r])
      /\ \A q \in Indices : q # r => h'[i].reps[q] = h[i].reps[q]
  <2> DEFINE row == StoppedRow(h[i].reps[r])
             c == h[i].changed \/ h[i].reps[r].status # "none"
  <2>1. /\ r \in Indices /\ row \in ReplicaRows /\ c \in BOOLEAN
        /\ Put(i, r, row, c)
    BY <1>1, <1>2, <1>3
  <2> HIDE DEF row, c, r
  <2>2. /\ Busy' = Busy
        /\ h'[i].pc = h[i].pc /\ h'[i].op = h[i].op /\ h'[i].d = d
        /\ h'[i].status = h[i].status /\ h'[i].want = h[i].want
        /\ h'[i].next = r + 1 /\ h'[i].changed = c /\ h'[i].reps[r] = row
        /\ \A q \in Indices : q # r => h'[i].reps[q] = h[i].reps[q]
    BY <2>1, PutFacts
  <2>3. QED
    BY <2>2 DEF row, c
<1>6. /\ d \in Deps /\ d' = d
      /\ Running' = Running /\ HasServiceImage(d)'
      /\ Named' = Named
  BY <1>1, <1>4, <1>5, SameRows DEF CopyHeld
<1>7. /\ CopyNames(i)' \subseteq Indices \X Deps
      /\ \A q \in Indices, e \in Deps :
           <<q, e>> \in CopyNames(i)' <=>
             <<q, e>> \in CopyNames(i) /\ <<q, e>> # <<r, d>>
  <2>1. /\ CopyNames(i)' \subseteq Indices \X Deps
        /\ \A q \in Indices, e \in Deps :
             <<q, e>> \in CopyNames(i)' <=> e = d /\ h'[i].reps[q] = UpReplica
    BY <1>5, <1>6 DEF CopyNames
  <2>2. QED
    BY <1>3, <1>5, <1>6, <2>1, CopyNamesAt
<1>8. /\ CopyNames(i)' \subseteq cont' \cup torn'
      /\ cont' \subseteq CopyNames(i)' \cup orphan' \cup refused'
  <2>1. /\ cont' \subseteq cont /\ cont \ asked \subseteq cont'
        /\ cont' \cap asked \subseteq refused'
        /\ orphan \cap cont' \subseteq orphan'
        /\ refused \cap cont' \subseteq refused'
    <3> HIDE DEF asked
    <3>1. QED
      BY <1>1, RemoveFacts
  <2>2. asked \subseteq {<<r, d>>}
    OBVIOUS
  <2>3. <<r, d>> \in CopyNames(i) => <<r, d>> \in asked
    BY <1>1, <1>2, <1>6, CopyNamesAt, ReplicasFacts
  <2>4. /\ CopyNames(i) \subseteq cont \cup torn /\ torn' = torn
        /\ cont \subseteq CopyNames(i) \cup orphan \cup refused
        /\ cont \subseteq Indices \X Deps
    BY <1>1, <1>4 DEF CopyHeld, TypeOK
  <2> HIDE DEF asked, r, d
  <2>5. ASSUME NEW q \in Indices, NEW e \in Deps, <<q, e>> \in CopyNames(i)'
        PROVE  <<q, e>> \in cont' \cup torn'
    BY <1>7, <2>1, <2>2, <2>4, <2>5
  <2>6. ASSUME NEW q \in Indices, NEW e \in Deps, <<q, e>> \in cont'
        PROVE  <<q, e>> \in CopyNames(i)' \cup orphan' \cup refused'
    BY <1>7, <2>1, <2>3, <2>4, <2>6
  <2>7. cont' \subseteq Indices \X Deps
    BY <2>1, <2>4
  <2>8. QED
    BY <1>7, <2>5, <2>6, <2>7
<1>9. CopyHeld(i)'
  <2>1. ASSUME NEW q \in Indices, q >= h'[i].next \/ ~h'[i].changed
        PROVE  h'[i].reps[q] = dep[d].reps[q]
    <3>1. \A x \in Indices : x >= r \/ ~h[i].changed =>
                               h[i].reps[x] = dep[d].reps[x]
      BY <1>4 DEF CopyHeld
    <3>2. CASE q # r
      <4>1. ~h'[i].changed => ~h[i].changed
        BY <1>2, <1>5
      <4>2. q >= r \/ ~h[i].changed
        BY <1>1, <1>5, <2>1, <4>1 DEF Indices
      <4>3. QED
        BY <1>5, <3>1, <3>2, <4>2
    <3>3. CASE q = r
      <4>1. ~(q >= r + 1) /\ q >= r
        BY <1>1, <3>3 DEF Indices
      <4>2. h[i].reps[r].status = "none"
        BY <1>2, <1>5, <2>1, <4>1
      <4>3. QED
        BY <1>3, <1>5, <3>1, <3>3, <4>1, <4>2
    <3>4. QED
      BY <3>2, <3>3
  <2>2. QED
    BY <1>1, <1>4, <1>5, <1>6, <1>8, <2>1 DEF CopyHeld
<1>10. h'[i].pc = "stopping" => StoppingInv(i)'
  BY <1>1, <1>2, <1>3, <1>5, <1>9 DEF StoppingInv, Indices
<1>11. h'[i].pc = "starting" => StartingInv(i)'
  BY <1>1, <1>2, <1>3, <1>5, <1>9 DEF StartingInv, Indices
<1>12. QED
  BY <1>1, <1>5, <1>10, <1>11, SoloGoesOn

\* One more replica is found running or started, or the start ends with an error.
LEMMA SoloStartOne ==
  ASSUME TypeOK, SoloInv, NEW i \in Busy, StartReplica(i), ~overlap'
  PROVE  SoloInv' /\ AnsweredIsDone'
<1> DEFINE r == h[i].next
           d == h[i].d
<1>1. /\ h[i].pc = "starting" /\ r < h[i].want
      /\ UNCHANGED <<app, hasRow, alone, prebuilt, replicas, dep, overlap>>
  BY DEF StartReplica
<1>2. /\ h[i].changed \in BOOLEAN /\ app /\ hasRow /\ ~RollingOut
      /\ \A q \in Indices : h[i].reps[q] \in ReplicaRows
      /\ StartingInv(i)
      /\ h[i].want \in 1 .. MaxReplicas /\ r \in 0 .. MaxReplicas
  <2>1. /\ h[i].want = Desired /\ Desired \in 1 .. MaxReplicas
        /\ h[i].next \in 0 .. MaxReplicas
        /\ h[i].pc = "starting" => StartingInv(i)
        /\ h[i].changed \in BOOLEAN /\ app /\ hasRow /\ ~RollingOut
        /\ \A q \in Indices : h[i].reps[q] \in ReplicaRows
    BY SoloFacts
  <2>2. QED
    BY <1>1, <2>1
<1>3. r \in Indices
  <2>1. \A x \in 0 .. MaxReplicas, w \in 1 .. MaxReplicas :
          x < w => x \in 0 .. MaxReplicas - 1
    OBVIOUS
  <2>2. QED
    BY <1>1, <1>2, <2>1 DEF Indices
<1>4. CopyHeld(i) /\ (h[i].op = "restart" => CopyNames(i) \subseteq cont)
  BY <1>2 DEF StartingInv
<1>5. /\ d \in Deps /\ HasServiceImage(d)
      /\ \A e \in Deps : HasServiceImage(e) => HasServiceImage(e)'
      /\ Running' = Running
      /\ Named' = Named /\ RowsInv' /\ ~RollingOut'
  <2>1. /\ Named' = Named /\ Running' = Running
        /\ RollingOut' = RollingOut
        /\ RowsInv => RowsInv'
        /\ \A e \in Deps : HasServiceImage(e) => HasServiceImage(e)'
    BY <1>1, SameRows
  <2>2. QED
    BY <1>2, <1>4, <2>1 DEF CopyHeld, SoloInv
<1>6. \A x \in Indices : x >= r \/ ~h[i].changed =>
                           h[i].reps[x] = dep[d].reps[x]
  BY <1>4 DEF CopyHeld
<1>7. ASSUME NEW row \in ReplicaRows, NEW c \in BOOLEAN, Put(i, r, row, c),
             row = UpReplica, ~c => ~h[i].changed /\ row = h[i].reps[r],
             cont \subseteq cont', cont' \subseteq cont \cup {<<r, d>>},
             torn \subseteq torn' \cup {<<r, d>>}, <<r, d>> \in cont' \cup torn',
             h[i].op = "restart" => <<r, d>> \in cont',
             orphan \subseteq orphan' \cup {<<r, d>>},
             refused \subseteq refused' \cup {<<r, d>>}, last' = last
      PROVE  SoloInv' /\ AnsweredIsDone'
  <2>1. /\ Busy' = Busy
        /\ h'[i].pc = h[i].pc /\ h'[i].op = h[i].op /\ h'[i].d = d
        /\ h'[i].status = h[i].status /\ h'[i].want = h[i].want
        /\ h'[i].next = r + 1 /\ h'[i].changed = c /\ h'[i].reps[r] = row
        /\ \A q \in Indices : q # r => h'[i].reps[q] = h[i].reps[q]
    <3> HIDE DEF r
    <3>1. QED
      BY <1>3, <1>7, PutFacts
  <2>2. \A q \in Indices, e \in Deps :
          <<q, e>> \in CopyNames(i)' <=> e = d /\ h'[i].reps[q] = UpReplica
    BY <1>5, <2>1 DEF CopyNames
  <2>3. \A q \in Indices, e \in Deps :
          <<q, e>> \in CopyNames(i) <=> e = d /\ h[i].reps[q] = UpReplica
    BY <1>5, CopyNamesAt
  <2>4. CopyNames(i)' = CopyNames(i) \cup {<<r, d>>}
    <3>1. /\ CopyNames(i)' \subseteq Indices \X Deps
          /\ CopyNames(i) \cup {<<r, d>>} \subseteq Indices \X Deps
      BY <1>3, <1>5, <2>1 DEF CopyNames
    <3>2. \A q \in Indices, e \in Deps :
            <<q, e>> \in CopyNames(i)' <=>
              <<q, e>> \in CopyNames(i) \/ <<q, e>> = <<r, d>>
      <4> SUFFICES ASSUME NEW q \in Indices, NEW e \in Deps
                   PROVE  <<q, e>> \in CopyNames(i)' <=>
                            <<q, e>> \in CopyNames(i) \/ <<q, e>> = <<r, d>>
        OBVIOUS
      <4>1. <<q, e>> = <<r, d>> <=> q = r /\ e = d
        OBVIOUS
      <4>2. /\ h'[i].reps[r] = UpReplica
            /\ q # r => h'[i].reps[q] = h[i].reps[q]
        BY <1>7, <2>1
      <4> HIDE DEF r, d
      <4>3. CASE q = r
        BY <2>2, <2>3, <4>1, <4>2, <4>3
      <4>4. CASE q # r
        BY <2>2, <2>3, <4>1, <4>2, <4>4
      <4>5. QED
        BY <4>3, <4>4
    <3>3. QED
      BY <3>1, <3>2
  <2>5. ASSUME NEW q \in Indices, q >= h'[i].next \/ ~h'[i].changed
        PROVE  h'[i].reps[q] = dep[d].reps[q]
    <3>1. CASE q # r
      <4>1. q >= r \/ ~h[i].changed
        BY <1>3, <1>7, <2>1, <2>5 DEF Indices
      <4>2. QED
        BY <1>6, <2>1, <3>1, <4>1
    <3>2. CASE q = r
      <4>1. ~(q >= r + 1) /\ q >= r
        BY <1>3, <3>2 DEF Indices
      <4>2. row = h[i].reps[r]
        BY <1>7, <2>1, <2>5, <4>1
      <4>3. QED
        BY <1>6, <2>1, <3>2, <4>1, <4>2
    <3>3. QED
      BY <3>1, <3>2
  <2>6. CopyHeld(i)'
    <3>1. /\ CopyNames(i)' \subseteq cont' \cup torn'
          /\ cont' \subseteq CopyNames(i)' \cup orphan' \cup refused'
      <4>1. /\ CopyNames(i) \subseteq cont \cup torn
            /\ cont \subseteq CopyNames(i) \cup orphan \cup refused
        BY <1>4 DEF CopyHeld
      <4> HIDE DEF r, d
      <4>2. QED
        BY <1>7, <2>4, <4>1
    <3>2. QED
      BY <1>1, <1>4, <1>5, <2>1, <2>5, <3>1 DEF CopyHeld
  <2>7. StartingInv(i)'
    <3>1. \A q \in Indices : q < r + 1 => (h'[i].reps[q] = UpReplica <=> q < h[i].want)
      BY <1>1, <1>2, <1>3, <1>7, <2>1 DEF StartingInv, Indices
    <3>2. r + 1 <= h[i].want
      BY <1>1, <1>2
    <3>3. h[i].op = "restart" => CopyNames(i)' \subseteq cont'
      BY <1>4, <1>7, <2>4
    <3>4. h[i].op \in {"start", "restart", "scale"}
      BY <1>2 DEF StartingInv
    <3>5. QED
      BY <2>1, <2>6, <3>1, <3>2, <3>3, <3>4 DEF StartingInv
  <2>8. QED
    BY <1>1, <1>7, <2>1, <2>7, SoloGoesOn
<1>8. CASE AlreadyRunning(h[i].reps[r])
  <2>1. /\ Put(i, r, h[i].reps[r], h[i].changed)
        /\ UNCHANGED <<cont, torn, orphan, refused, last>>
    BY <1>8 DEF StartReplica, ghosts
  <2>2. h[i].reps[r] \in ReplicaRows /\ h[i].reps[r] = UpReplica
    BY <1>2, <1>3, <1>8, ReplicasFacts
  <2>3. <<r, d>> \in CopyNames(i)
    BY <1>3, <1>5, <2>2, CopyNamesAt
  <2>4. <<r, d>> \in cont \cup torn
    BY <1>4, <2>3 DEF CopyHeld
  <2>5. h[i].op = "restart" => <<r, d>> \in cont
    BY <1>4, <2>3
  <2>6. QED
    BY <1>2, <1>7, <2>1, <2>2, <2>4, <2>5
<1>9. CASE CreateReplica(i, r)
  <2>1. Put(i, r, UpReplica, TRUE) /\ cont' = cont \cup {<<r, d>>}
        /\ torn' = torn \ {<<r, d>>} /\ orphan' = orphan \ {<<r, d>>}
        /\ refused' = refused \ {<<r, d>>} /\ last' = last
    BY <1>9 DEF CreateReplica
  <2>2. QED
    BY <1>7, <2>1, ReplicasFacts
<1>10. CASE EndUnsaved(i)
  BY <1>1, <1>10, SoloUnsaved
<1>11. QED
  BY <1>8, <1>9, <1>10
  DEF StartReplica, NetworkFails, PullFails, MountsFail, CreateFails, Unhealthy

\* Every replica is stopped: the copy is saved, and the request is answered or
\* goes on to its next phase.
LEMMA SoloStopDone ==
  ASSUME TypeOK, SoloInv, NEW i \in Busy, StopDone(i), ~overlap'
  PROVE  SoloInv' /\ AnsweredIsDone'
<1> DEFINE d == h[i].d
<1>1. /\ h[i].pc = "stopping" /\ h[i].next = MaxReplicas
      /\ Persist(i, h[i].status)
      /\ UNCHANGED <<app, hasRow, alone, prebuilt, replicas, cont, torn, orphan,
                     refused>>
  BY DEF StopDone, ghosts
<1>2. /\ h[i].pc = "stopping" => StoppingInv(i)
      /\ h[i].changed \in BOOLEAN /\ app /\ hasRow /\ ~RollingOut
      /\ \A q \in Indices : h[i].reps[q] \in ReplicaRows
      /\ h[i].want = Desired
  BY SoloFacts
<1>3. CopyHeld(i) /\ \A q \in Indices : h[i].reps[q] # UpReplica
  BY <1>1, <1>2 DEF StoppingInv, Indices
<1>4. d \in Deps /\ h[i].status \in Statuses /\ h[i].status = dep[d].status
      /\ HasServiceImage(d) /\ Running \subseteq {d}
  BY <1>3, HandlerFields DEF CopyHeld, Busy
<1>5. /\ \A e \in Deps : e # d => dep'[e] = dep[e]
      /\ ~h[i].changed => dep' = dep
      /\ h[i].changed /\ app /\ hasRow =>
           /\ dep'[d].status = dep[d].status
           /\ dep'[d].image = dep[d].image /\ dep'[d].reps = h[i].reps
  BY <1>1, <1>4, PersistFacts
<1>6. /\ \A e \in Deps : dep'[e].status = dep[e].status
                         /\ dep'[e].image = dep[e].image
      /\ \A q \in Indices : dep'[d].reps[q] = h[i].reps[q]
  <2>1. ~h[i].changed => \A q \in Indices : h[i].reps[q] = dep[d].reps[q]
    BY <1>3 DEF CopyHeld
  <2>2. QED
    BY <1>2, <1>5, <2>1
<1>7. Running' = Running /\ RollingOut' = RollingOut
      /\ \A e \in Deps : HasServiceImage(e)' = HasServiceImage(e)
  BY <1>1, <1>6 DEF Running, RollingOut, HasServiceImage
<1>8. \A e \in Deps : \A q \in Indices : dep'[e].reps[q] # UpReplica
  <2>1. \A e \in Deps : \A q \in Indices : dep[e].reps[q] = UpReplica => e = d
    <3>1. RowsInv /\ ~RollingOut /\ Running \subseteq {d}
      BY <1>2, <1>4 DEF SoloInv
    <3>2. \A q \in Indices, e \in Deps :
            <<q, e>> \in Named <=> e = d /\ dep[d].reps[q] = UpReplica
      BY <3>1, OnlyOneNames
    <3>3. QED
      BY <3>2, NamedAt
  <2>2. QED
    BY <1>3, <1>5, <1>6, <2>1
<1>9. Named' = {}
  BY <1>8 DEF Named
<1>10. RowsInv'
  <2>1. \A e \in Running' : HasServiceImage(e)'
    BY <1>7 DEF SoloInv, RowsInv, Running
  <2>2. \A e \in Deps : dep'[e].status \in {"none", "starting"} =>
              \A f \in Deps : e < f => dep'[f].status = "none"
    BY <1>6 DEF SoloInv, RowsInv
  <2>3. QED
    BY <1>7, <1>9, <2>1, <2>2 DEF SoloInv, RowsInv
<1>11. cont \subseteq orphan \cup refused
  <2>1. CopyNames(i) = {}
    BY <1>3 DEF CopyNames
  <2>2. QED
    BY <1>3, <2>1 DEF CopyHeld
<1>12. Saved(i)
  BY <1>2 DEF Saved
<1>13. CASE h[i].op = "stop" /\ Finish(i, Saved(i))
  <2>1. Finish(i, TRUE)
    BY <1>12, <1>13 DEF Finish, Saved
  <2>2. QED
    BY <1>1, <1>2, <1>7, <1>9, <1>10, <1>11, <1>13, <2>1, SoloEnds
<1>14. ASSUME NEW pc \in {"resolving", "deleting"}, Moves(i, pc),
              h[i].op = (IF pc = "resolving" THEN "restart" ELSE "delete"),
              last' = last
       PROVE  SoloInv' /\ AnsweredIsDone'
  <2>1. /\ Busy' = Busy /\ h'[i].pc = pc /\ h'[i].op = h[i].op
        /\ h'[i].want = h[i].want
    BY <1>14, MovesFacts
  <2>2. StoppedInv(i)'
    BY <1>1, <1>9, <1>11, <1>14, <2>1 DEF StoppedInv
  <2>3. Busy = {i} /\ last = Null
    BY SoloFacts
  <2>4. OneAtATime'
    BY <1>1, <1>2, <1>7, <1>14, <2>1, <2>3 DEF OneAtATime
  <2>5. HandlersInv'
    BY <1>1, <1>2, <1>14, <2>1, <2>2, <2>3 DEF HandlersInv, Desired
  <2>6. RestInv' /\ AnsweredIsDone'
    BY <2>1, <2>3
    DEF RestInv, AnsweredIsDone, StartedRuns, StoppedIsDown,
        DeletedLeavesNothing, Quiet
  <2>7. QED
    BY <1>10, <2>4, <2>5, <2>6 DEF SoloInv
<1>15. QED
  BY <1>12, <1>13, <1>14 DEF StopDone

\* The second half of a restart reads the deployment again.
LEMMA SoloRestart ==
  ASSUME TypeOK, SoloInv, NEW i \in Busy, RestartStart(i), ~overlap'
  PROVE  SoloInv' /\ AnsweredIsDone'
<1> DEFINE d == ResolveDeployment
<1>1. /\ h[i].pc = "resolving"
      /\ UNCHANGED <<app, hasRow, alone, prebuilt, replicas, dep, cont, torn,
                     orphan, refused>>
  BY DEF RestartStart, ghosts
<1>2. /\ h[i].pc \in {"resolving", "deleting", "rows"} => StoppedInv(i)
      /\ app /\ hasRow /\ ~RollingOut
      /\ h[i].want = Desired /\ Desired \in 1 .. MaxReplicas
  BY SoloFacts
<1>3. Named = {} /\ cont \subseteq orphan \cup refused /\ h[i].op = "restart"
  BY <1>1, <1>2 DEF StoppedInv
<1>4. /\ d # Null => d \in Deps /\ HasServiceImage(d) /\ Running \subseteq {d}
  BY ResolveFacts DEF SoloInv
<1>5. /\ Named' = Named /\ Running' = Running /\ RollingOut' = RollingOut
      /\ RowsInv'
      /\ \A e \in Deps : HasServiceImage(e) => HasServiceImage(e)'
  BY <1>1, SameRows DEF SoloInv
<1>6. CASE d = Null
  <2>1. Finish(i, FALSE)
    BY <1>6 DEF RestartStart
  <2>2. QED
    BY <1>1, <1>2, <1>3, <1>5, <2>1, SoloEnds
<1>7. CASE d # Null
  <2>1. /\ Busy' = Busy /\ h'[i].pc = "starting" /\ h'[i].op = h[i].op
        /\ h'[i].d = d /\ h'[i].status = dep[d].status
        /\ h'[i].reps = dep[d].reps
        /\ h'[i].want = h[i].want /\ h'[i].next = 0 /\ ~h'[i].changed
        /\ last' = last
    BY <1>7, RestartFacts
  <2> HIDE DEF d
  <2>2. CopyNames(i)' = {}
    <3>1. \A q \in Indices : dep[d].reps[q] # UpReplica
      BY <1>3, <1>4, <1>7, NamedAt
    <3>2. QED
      BY <2>1, <3>1 DEF CopyNames
  <2>3. CopyHeld(i)'
    BY <1>1, <1>3, <1>4, <1>5, <1>7, <2>1, <2>2 DEF CopyHeld
  <2>4. StartingInv(i)'
    BY <1>2, <1>3, <2>1, <2>2, <2>3 DEF StartingInv, Indices
  <2>5. QED
    BY <1>1, <2>1, <2>4, SoloGoesOn
<1>8. QED
  BY <1>6, <1>7

\* Every wanted replica runs: the copy is saved as Running and the request is
\* answered.
LEMMA SoloStartDone ==
  ASSUME TypeOK, SoloInv, NEW i \in Busy, StartDone(i), ~overlap'
  PROVE  SoloInv' /\ AnsweredIsDone'
<1> DEFINE d == h[i].d
<1>1. /\ h[i].pc = "starting"
      /\ IF h[i].op = "scale" THEN h[i].next >= MaxReplicas
         ELSE h[i].next >= h[i].want
      /\ Persist(i, "running") /\ Finish(i, Saved(i))
      /\ UNCHANGED <<app, hasRow, alone, prebuilt, replicas, cont, torn, orphan,
                     refused>>
  BY DEF StartDone, ghosts
<1>2. /\ h[i].pc = "starting" => StartingInv(i)
      /\ h[i].changed \in BOOLEAN /\ app /\ hasRow /\ ~RollingOut
      /\ \A q \in Indices : h[i].reps[q] \in ReplicaRows
      /\ h[i].want = Desired /\ Desired \in 1 .. MaxReplicas
      /\ h[i].next \in 0 .. MaxReplicas
  BY SoloFacts
<1>3. CopyHeld(i)
  BY <1>1, <1>2 DEF StartingInv
<1>4. /\ \A q \in Indices : q < Desired => h[i].reps[q] = UpReplica
      /\ h[i].op = "scale" =>
           \A q \in Indices : q >= Desired => h[i].reps[q] # UpReplica
  <2>1. \A q \in Indices : q < h[i].next =>
                             (h[i].reps[q] = UpReplica <=> q < Desired)
    BY <1>1, <1>2 DEF StartingInv
  <2>2. Desired <= h[i].next
    BY <1>1, <1>2
  <2>3. h[i].op = "scale" => h[i].next = MaxReplicas
    BY <1>1, <1>2
  <2>4. \A q \in Indices : q \in Int /\ q < MaxReplicas
    BY DEF Indices
  <2>5. QED
    BY <1>2, <2>1, <2>2, <2>3, <2>4
<1>5. /\ d \in Deps /\ HasServiceImage(d) /\ Running \subseteq {d}
      /\ "running" \in Statuses
  BY <1>3 DEF CopyHeld, Statuses
<1>6. /\ \A e \in Deps : e # d => dep'[e] = dep[e]
      /\ ~h[i].changed => dep' = dep
      /\ h[i].changed /\ app /\ hasRow =>
           /\ dep'[d].status = "running"
           /\ dep'[d].image = dep[d].image /\ dep'[d].reps = h[i].reps
  BY <1>1, <1>5, PersistFacts
<1>7. /\ dep'[d].status = "running" /\ dep'[d].image = dep[d].image
      /\ \A q \in Indices : dep'[d].reps[q] = h[i].reps[q]
  <2>1. CASE h[i].changed
    BY <1>2, <1>6, <2>1
  <2>2. CASE ~h[i].changed
    <3>1. \A q \in Indices : h[i].reps[q] = dep[d].reps[q]
      BY <1>3, <2>2 DEF CopyHeld
    <3>2. 0 \in Indices /\ 0 < Desired
      BY <1>2 DEF Indices
    <3>3. <<0, d>> \in Named
      BY <1>4, <1>5, <3>1, <3>2, NamedAt
    <3>4. d \in Running
      BY <1>2, <1>5, <3>3 DEF SoloInv, RowsInv, Running, RollingOut
    <3>5. QED
      BY <1>6, <2>2, <3>1, <3>4 DEF Running
  <2>3. QED
    BY <1>2, <2>1, <2>2
<1>8. Running' = {d}
  BY <1>5, <1>6, <1>7 DEF Running
<1>9. ~RollingOut'
  BY <1>2, <1>6, <1>7 DEF RollingOut
<1>10. \A q \in Indices, e \in Deps :
         <<q, e>> \in Named' <=> e = d /\ h[i].reps[q] = UpReplica
  <2>1. \A q \in Indices, e \in Deps :
          <<q, e>> \in Named' <=> dep'[e].reps[q] = UpReplica
    BY DEF Named
  <2>2. \A q \in Indices, e \in Deps : dep[e].reps[q] = UpReplica => e = d
    <3>1. RowsInv /\ ~RollingOut /\ Running \subseteq {d}
      BY <1>2, <1>5 DEF SoloInv
    <3>2. \A q \in Indices, e \in Deps :
            <<q, e>> \in Named <=> e = d /\ dep[d].reps[q] = UpReplica
      BY <3>1, OnlyOneNames
    <3>3. QED
      BY <3>2, NamedAt
  <2>3. \A q \in Indices : dep'[d].reps[q] = h[i].reps[q]
    BY <1>7
  <2>4. \A e \in Deps : e # d => dep'[e] = dep[e]
    BY <1>6
  <2>5. ASSUME NEW q \in Indices, NEW e \in Deps
        PROVE  <<q, e>> \in Named' <=> e = d /\ h[i].reps[q] = UpReplica
    <3>1. CASE e = d
      BY <2>1, <2>3, <3>1
    <3>2. CASE e # d
      BY <2>1, <2>2, <2>4, <3>2
    <3>3. QED
      BY <3>1, <3>2
  <2>6. QED
    BY <2>5
<1>11. Named' = CopyNames(i)
  <2>1. Named' \subseteq Indices \X Deps
    BY DEF Named
  <2>2. /\ CopyNames(i) \subseteq Indices \X Deps
        /\ \A q \in Indices, e \in Deps :
             <<q, e>> \in CopyNames(i) <=> e = h[i].d /\ h[i].reps[q] = UpReplica
    BY <1>5, CopyNamesAt
  <2>3. \A q \in Indices, e \in Deps :
          <<q, e>> \in Named' <=> <<q, e>> \in CopyNames(i)
    BY <1>10, <2>2
  <2>4. QED
    BY <2>1, <2>2, <2>3
<1>12. RowsInv'
  <2>1. \A e \in Deps : dep'[e].status \in {"none", "starting"} =>
              \A f \in Deps : e < f => dep'[f].status = "none"
    <3>1. dep[d].status # "none"
      BY <1>5 DEF HasServiceImage
    <3>2. QED
      BY <1>6, <1>7, <3>1 DEF SoloInv, RowsInv
  <2>2. \A e \in Running' : HasServiceImage(e)'
    BY <1>1, <1>5, <1>7, <1>8 DEF HasServiceImage
  <2>3. \A c \in Named' : dep'[c[2]].status \in {"running", "starting"}
    <3>1. \A c \in Named' : c[2] = d
      BY <1>11 DEF CopyNames
    <3>2. QED
      BY <1>7, <3>1
  <2>4. QED
    BY <1>8, <2>1, <2>2, <2>3 DEF RowsInv
<1>13. Finish(i, TRUE)
  BY <1>1, <1>2 DEF Finish, Saved
<1>14. /\ \A r \in 0 .. Desired' - 1 :
            /\ <<r, d>> \in Named'
            /\ \/ <<r, d>> \in cont'
               \/ h[i].op # "restart" /\ <<r, d>> \in torn'
       /\ h[i].op = "scale" =>
            \A r \in Indices : r >= Desired' => <<r, d>> \notin Named'
  <2>1. Desired' = Desired
    BY <1>1 DEF Desired
  <2>2. \A r \in 0 .. Desired - 1 : r \in Indices /\ r < Desired
    BY <1>2 DEF Indices
  <2>3. Named' \subseteq cont' \cup torn'
    BY <1>1, <1>3, <1>11 DEF CopyHeld
  <2>4. h[i].op = "restart" => Named' \subseteq cont'
    BY <1>1, <1>2, <1>11 DEF StartingInv
  <2>5. \A r \in 0 .. Desired - 1 : <<r, d>> \in Named'
    BY <1>4, <1>5, <1>10, <2>2
  <2>6. h[i].op = "scale" => \A r \in Indices : r >= Desired => <<r, d>> \notin Named'
    BY <1>4, <1>5, <1>10
  <2>7. QED
    BY <2>1, <2>3, <2>4, <2>5, <2>6
<1>15. /\ Named' \subseteq cont' \cup torn'
       /\ cont' \subseteq Named' \cup orphan' \cup refused'
  BY <1>1, <1>3, <1>11 DEF CopyHeld
<1>16. h[i].op # "stop"
  BY <1>1, <1>2 DEF StartingInv
<1>17. QED
  BY <1>1, <1>2, <1>7, <1>9, <1>12, <1>13, <1>14, <1>15, <1>16, SoloEnds

\* The service or its project is deleted, or the deletion gives up.
LEMMA SoloDelete ==
  ASSUME TypeOK, SoloInv, NEW i \in Busy,
         DeleteRuntime(i) \/ DeleteApp(i) \/ DeleteServiceRow(i), ~overlap'
  PROVE  SoloInv' /\ AnsweredIsDone'
<1>1. /\ h[i].pc \in {"resolving", "deleting", "rows"} => StoppedInv(i)
      /\ app /\ hasRow /\ ~RollingOut
  BY SoloFacts
<1>2. /\ h[i].pc \in {"deleting", "rows"} /\ h[i].op = "delete"
      /\ cont \subseteq orphan \cup refused
      /\ h[i].pc = "rows" => alone /\ cont \subseteq refused
  BY <1>1 DEF DeleteRuntime, DeleteApp, DeleteServiceRow, StoppedInv
<1>3. CASE DeleteRuntime(i)
  <2>1. /\ alone
        /\ UNCHANGED <<app, hasRow, alone, prebuilt, replicas, dep>>
    BY <1>3 DEF DeleteRuntime
  <2>2. CASE Remove(cont) /\ Moves(i, "rows") /\ last' = last
    <3>1. /\ Busy' = Busy /\ h'[i].pc = "rows" /\ h'[i].op = h[i].op
          /\ h'[i].want = h[i].want
      BY <2>2, MovesFacts
    <3>2. cont' \subseteq refused'
      BY <2>2, RemoveFacts
    <3>3. StoppedInv(i)'
      BY <1>2, <2>1, <3>1, <3>2 DEF StoppedInv
    <3>4. QED
      BY <2>1, <2>2, <3>1, <3>3, SoloGoesOn
  <2>3. CASE EndUnsaved(i)
    BY <2>1, <2>3, SoloUnsaved
  <2>4. QED
    BY <1>3, <2>2, <2>3 DEF DeleteRuntime
<1>4. CASE DeleteApp(i)
  <2>1. /\ app' = FALSE /\ hasRow' = FALSE
        /\ dep' = [d \in Deps |-> NoDeployment] /\ Finish(i, TRUE)
        /\ UNCHANGED <<alone, prebuilt, cont, refused>>
        /\ alone /\ cont \subseteq refused
    BY <1>2, <1>4 DEF DeleteApp, ghosts
  <2>2. \A d \in Deps : dep'[d].status = "none" /\ dep'[d].reps = NoReplicas
    BY <2>1 DEF NoDeployment, Deployment
  <2>3. Named' = {} /\ Running' = {} /\ ~RollingOut'
    BY <2>2, ReplicasFacts DEF Named, Running, RollingOut
  <2>4. RowsInv'
    BY <2>2, <2>3 DEF RowsInv
  <2>5. QED
    BY <1>2, <2>1, <2>3, <2>4, SoloEnds
<1>5. CASE DeleteServiceRow(i)
  <2>1. /\ hasRow' = FALSE /\ ~alone
        /\ dep' = [d \in Deps |->
                     Deployment(dep[d].status, dep[d].image, NoReplicas)]
        /\ UNCHANGED <<app, alone, prebuilt, cont, orphan, refused>>
    BY <1>5 DEF DeleteServiceRow, ghosts
  <2>2. \A d \in Deps : /\ dep'[d].status = dep[d].status
                        /\ dep'[d].image = dep[d].image
                        /\ dep'[d].reps = NoReplicas
    BY <2>1 DEF Deployment
  <2>3. /\ Named' = {} /\ Running' = Running /\ RollingOut' = RollingOut
        /\ \A d \in Deps : HasServiceImage(d)' = HasServiceImage(d)
    BY <2>1, <2>2, ReplicasFacts DEF Named, Running, RollingOut, HasServiceImage
  <2>4. RowsInv'
    <3>1. \A d \in Running' : HasServiceImage(d)'
      BY <2>3 DEF SoloInv, RowsInv, Running
    <3>2. QED
      BY <2>2, <2>3, <3>1 DEF RowsInv, SoloInv
  <2>5. PICK ok \in BOOLEAN : Finish(i, ok)
    BY <1>5 DEF DeleteServiceRow
  <2>6. QED
    BY <1>1, <1>2, <2>1, <2>3, <2>4, <2>5, SoloEnds
<1>6. QED
  BY <1>3, <1>4, <1>5

-----------------------------------------------------------------------------
(* A rollout *)

\* A rollout finds no request in flight, and ends with one deployment Running
\* at most and rows that name what runs.
LEMMA SoloRolled ==
  ASSUME TypeOK, SoloInv, Busy' = {}, ~overlap', hasRow' /\ app', last' = Null,
         RowsInv', Named' \subseteq cont' \cup torn',
         cont' \subseteq Named' \cup orphan' \cup refused'
  PROVE  SoloInv' /\ AnsweredIsDone'
<1>1. OneAtATime' /\ HandlersInv' /\ RestInv'
  BY DEF OneAtATime, HandlersInv, RestInv
<1>2. AnsweredIsDone'
  BY DEF AnsweredIsDone, StartedRuns, StoppedIsDown, DeletedLeavesNothing
<1>3. QED
  BY <1>1, <1>2 DEF SoloInv

LEMMA SoloCreate ==
  ASSUME TypeOK, SoloInv, NEW d \in Deps, RolloutCreate(d), ~overlap'
  PROVE  SoloInv' /\ AnsweredIsDone'
<1> DEFINE new == {<<r, d>> : r \in 0 .. Desired - 1}
<1>1. /\ app /\ hasRow /\ dep[d].status = "none"
      /\ \A e \in Deps : e < d => dep[e].status \notin {"none", "starting"}
      /\ cont' = cont \cup new
      /\ Busy = {} /\ last' = Null
      /\ UNCHANGED <<app, hasRow, prebuilt, h, torn, orphan, refused>>
  BY DEF RolloutCreate, ghosts
<1>2. /\ dep'[d].status = "starting"
      /\ \A r \in Indices :
           dep'[d].reps[r] = UpReplica <=> r \in 0 .. Desired - 1
      /\ \A e \in Deps \ {d} : dep'[e] = dep[e]
  BY CreateFacts
<1>3. \A c \in Named : c[2] # d /\ dep[c[2]].status \in {"running", "starting"}
  BY <1>1 DEF SoloInv, RowsInv
<1>4. Named' = Named \cup new
  <2>1. Desired \in 1 .. MaxReplicas
    BY DEF Desired, TypeOK
  <2>2. \A r \in 0 .. Desired - 1 : r \in Indices
    BY <2>1 DEF Indices
  <2>3. \A r \in Indices, e \in Deps :
          <<r, e>> \in Named' <=> dep'[e].reps[r] = UpReplica
    BY DEF Named
  <2>4. \A r \in Indices, e \in Deps :
          <<r, e>> \in Named' <=> <<r, e>> \in Named \/ <<r, e>> \in new
    <3> SUFFICES ASSUME NEW r \in Indices, NEW e \in Deps
                 PROVE  <<r, e>> \in Named' <=>
                          <<r, e>> \in Named \/ <<r, e>> \in new
      OBVIOUS
    <3>1. <<r, e>> \in new <=> r \in 0 .. Desired - 1 /\ e = d
      OBVIOUS
    <3>2. <<r, e>> \in Named => e # d
      BY <1>3
    <3>3. <<r, e>> \in Named <=> dep[e].reps[r] = UpReplica
      BY NamedAt
    <3> HIDE DEF new
    <3>4. CASE e = d
      BY <1>2, <2>3, <3>1, <3>2, <3>4
    <3>5. CASE e # d
      BY <1>2, <2>3, <3>1, <3>3, <3>5
    <3>6. QED
      BY <3>4, <3>5
  <2>5. Named' \subseteq Indices \X Deps /\ Named \cup new \subseteq Indices \X Deps
    BY <2>2 DEF Named
  <2> HIDE DEF new
  <2>6. QED
    BY <2>4, <2>5
<1>5. Running' = Running /\ Busy' = {}
  BY <1>1, <1>2 DEF Running, Busy
<1>6. RowsInv'
  <2>1. \A e \in Running' : HasServiceImage(e)'
    <3>1. \A e \in Running : e \in Deps /\ e # d /\ HasServiceImage(e)
      BY <1>1 DEF Running, SoloInv, RowsInv
    <3>2. QED
      BY <1>1, <1>2, <1>5, <3>1 DEF HasServiceImage
  <2>2. \A c \in Named' : dep'[c[2]].status \in {"running", "starting"}
    <3>1. \A c \in new : c[2] = d
      OBVIOUS
    <3>2. \A c \in Named : c[2] \in Deps \ {d}
      BY <1>3, NamedAt
    <3>3. QED
      BY <1>2, <1>3, <1>4, <3>1, <3>2
  <2>3. ASSUME NEW e \in Deps, dep'[e].status \in {"none", "starting"}
        PROVE  \A f \in Deps : e < f => dep'[f].status = "none"
    <3>1. e >= d /\ dep[e].status \in {"none", "starting"}
      BY <1>1, <1>2, <2>3 DEF Deps
    <3>2. \A f \in Deps : e < f => dep[f].status = "none"
      BY <3>1 DEF SoloInv, RowsInv
    <3>3. \A f \in Deps : e < f => f # d
      BY <3>1 DEF Deps
    <3>4. QED
      BY <1>2, <3>2, <3>3
  <2>4. \A e, f \in Running' : e = f
    BY <1>5 DEF SoloInv, RowsInv
  <2>5. QED
    BY <2>1, <2>2, <2>3, <2>4 DEF RowsInv
<1>7. /\ Named \subseteq cont \cup torn
      /\ cont \subseteq Named \cup orphan \cup refused
  BY <1>1 DEF SoloInv, RestInv
<1> HIDE DEF new
<1>8. /\ Named' \subseteq cont' \cup torn'
      /\ cont' \subseteq Named' \cup orphan' \cup refused'
  BY <1>1, <1>4, <1>7
<1>9. QED
  BY <1>1, <1>5, <1>6, <1>8, SoloRolled

\* The deployment a rollout is about: the others are older, or not there.
LEMMA StartingFacts ==
  ASSUME TypeOK, SoloInv, NEW d \in Deps, dep[d].status = "starting"
  PROVE  /\ Busy = {} /\ app /\ hasRow /\ last = Null
         /\ \A e \in Deps : dep[e].status \in {"none", "starting"} =>
              /\ e >= d
              /\ \A f \in Deps : e < f => dep[f].status = "none"
         /\ \A e \in Deps : dep[e].status = "starting" => e = d
         /\ Named \subseteq cont \cup torn
         /\ cont \subseteq Named \cup orphan \cup refused
         /\ \A c \in Named : c[2] = d \/ c[2] \in Running
<1>1. RollingOut
  BY DEF RollingOut
<1>2. Busy = {} /\ app /\ hasRow /\ last = Null
  BY <1>1 DEF SoloInv, OneAtATime
<1>3. \A e \in Deps : dep[e].status \in {"none", "starting"} =>
        \A f \in Deps : e < f => dep[f].status = "none"
  BY DEF SoloInv, RowsInv
<1>4. \A e \in Deps : dep[e].status \in {"none", "starting"} => ~(e < d)
  BY <1>3
<1>5. \A e \in Deps : d < e => dep[e].status = "none"
  BY <1>3
<1>6. \A e \in Deps : e \in Int
  BY DEF Deps
<1>7. \A e \in Deps : dep[e].status = "starting" => e = d
  BY <1>4, <1>5, <1>6
<1>8. \A c \in Named : c[2] = d \/ c[2] \in Running
  BY <1>7, NamedAt DEF SoloInv, RowsInv, Running
<1>9. /\ Named \subseteq cont \cup torn
      /\ cont \subseteq Named \cup orphan \cup refused
  BY <1>2 DEF SoloInv, RestInv
<1>10. QED
  BY <1>2, <1>3, <1>4, <1>6, <1>7, <1>8, <1>9

LEMMA SoloFail ==
  ASSUME TypeOK, SoloInv, NEW d \in Deps, RolloutFail(d), ~overlap'
  PROVE  SoloInv' /\ AnsweredIsDone'
<1>1. /\ dep[d].status = "starting"
      /\ cont' \subseteq cont
      /\ torn' = (torn \cup {c \in Named : c[2] # d}) \ cont'
      /\ orphan' = orphan \cap cont'
      /\ refused' = {c \in cont' : c \in refused \/ c[2] = d}
      /\ UNCHANGED <<app, hasRow, prebuilt, h, last>>
  BY DEF RolloutFail
<1>2. /\ dep'[d].status = "failed"
      /\ \A r \in Indices : dep'[d].reps[r] # UpReplica
      /\ \A e \in Deps \ {d} : dep'[e] = dep[e]
  BY FailFacts
<1>3. /\ Busy = {} /\ app /\ hasRow /\ last = Null
      /\ \A e \in Deps : dep[e].status \in {"none", "starting"} =>
           /\ e >= d
           /\ \A f \in Deps : e < f => dep[f].status = "none"
      /\ Named \subseteq cont \cup torn
      /\ cont \subseteq Named \cup orphan \cup refused
      /\ \A c \in Named : c[2] = d \/ c[2] \in Running
  BY <1>1, StartingFacts
<1>4. Named' = {c \in Named : c[2] # d}
  <2>1. \A r \in Indices, e \in Deps :
          <<r, e>> \in Named' <=> dep'[e].reps[r] = UpReplica
    BY DEF Named
  <2>2. \A r \in Indices, e \in Deps :
          <<r, e>> \in Named' <=> <<r, e>> \in Named /\ e # d
    <3> SUFFICES ASSUME NEW r \in Indices, NEW e \in Deps
                 PROVE  <<r, e>> \in Named' <=> <<r, e>> \in Named /\ e # d
      OBVIOUS
    <3>1. <<r, e>> \in Named <=> dep[e].reps[r] = UpReplica
      BY NamedAt
    <3>2. CASE e = d
      BY <1>2, <2>1, <3>2
    <3>3. CASE e # d
      BY <1>2, <2>1, <3>1, <3>3
    <3>4. QED
      BY <3>2, <3>3
  <2>3. Named' \subseteq Indices \X Deps /\ Named \subseteq Indices \X Deps
    BY DEF Named
  <2>4. QED
    BY <2>2, <2>3
<1>5. Running' = Running /\ Busy' = {} /\ d \notin Running
  BY <1>1, <1>2, <1>3 DEF Running, Busy
<1>6. RowsInv'
  <2>1. \A e \in Running' : HasServiceImage(e)'
    <3>1. \A e \in Running : e \in Deps /\ e # d /\ HasServiceImage(e)
      BY <1>5 DEF Running, SoloInv, RowsInv
    <3>2. QED
      BY <1>1, <1>2, <1>5, <3>1 DEF HasServiceImage
  <2>2. \A c \in Named' : dep'[c[2]].status \in {"running", "starting"}
    <3>1. \A c \in Named' : c[2] \in Running'
      BY <1>3, <1>4, <1>5
    <3>2. QED
      BY <3>1 DEF Running
  <2>3. ASSUME NEW e \in Deps, dep'[e].status \in {"none", "starting"}
        PROVE  \A f \in Deps : e < f => dep'[f].status = "none"
    <3>1. e # d /\ dep[e].status \in {"none", "starting"}
      BY <1>2, <2>3
    <3>2. e >= d /\ \A f \in Deps : e < f => dep[f].status = "none"
      BY <1>3, <3>1
    <3>3. \A f \in Deps : e < f => f # d
      BY <3>2 DEF Deps
    <3>4. QED
      BY <1>2, <3>2, <3>3
  <2>4. \A e, f \in Running' : e = f
    BY <1>5 DEF SoloInv, RowsInv
  <2>5. QED
    BY <2>1, <2>2, <2>3, <2>4 DEF RowsInv
<1>7. /\ Named' \subseteq cont' \cup torn'
      /\ cont' \subseteq Named' \cup orphan' \cup refused'
  BY <1>1, <1>3, <1>4
<1>8. QED
  BY <1>1, <1>3, <1>5, <1>6, <1>7, SoloRolled

LEMMA SoloCommit ==
  ASSUME TypeOK, SoloInv, NEW d \in Deps, RolloutCommit(d), ~overlap'
  PROVE  SoloInv' /\ AnsweredIsDone'
<1> DEFINE old == {e \in Deps \ {d} : dep[e].status = "running"}
           asked == {c \in Indices \X old : dep[c[2]].reps[c[1]].cid}
<1>1. /\ dep[d].status = "starting" /\ Remove(asked) /\ last' = Null
      /\ UNCHANGED <<app, hasRow, prebuilt, h, torn>>
  BY DEF RolloutCommit
<1>2. /\ dep'[d].status = "running" /\ dep'[d].image = TRUE
      /\ \A r \in Indices :
           dep'[d].reps[r] = IF <<r, d>> \in cont THEN UpReplica ELSE NoReplica
      /\ \A e \in Deps \ {d} :
           \/ /\ dep[e].status = "running"
              /\ dep'[e].status = "stopped"
              /\ \A r \in Indices : dep'[e].reps[r] # UpReplica
           \/ /\ dep[e].status # "running"
              /\ dep'[e] = dep[e]
  BY CommitFacts
<1>3. /\ Busy = {} /\ app /\ hasRow /\ last = Null
      /\ \A e \in Deps : dep[e].status \in {"none", "starting"} =>
           /\ e >= d
           /\ \A f \in Deps : e < f => dep[f].status = "none"
      /\ cont \subseteq Named \cup orphan \cup refused
      /\ \A c \in Named : c[2] = d \/ c[2] \in Running
  BY <1>1, StartingFacts
<1>4. /\ cont' \subseteq cont /\ cont \ asked \subseteq cont'
      /\ cont' \cap asked \subseteq refused'
      /\ orphan \cap cont' \subseteq orphan'
      /\ refused \cap cont' \subseteq refused'
  <2> HIDE DEF asked
  <2>1. QED
    BY <1>1, RemoveFacts
<1>5. \A r \in Indices, e \in Deps :
        <<r, e>> \in Named' <=> e = d /\ <<r, d>> \in cont
  <2>1. \A r \in Indices, e \in Deps :
          <<r, e>> \in Named' <=> dep'[e].reps[r] = UpReplica
    BY DEF Named
  <2>2. \A r \in Indices : <<r, d>> \in Named' <=> <<r, d>> \in cont
    BY <1>2, <2>1, ReplicasFacts
  <2>3. ASSUME NEW r \in Indices, NEW e \in Deps \ {d}
        PROVE  <<r, e>> \notin Named'
    <3>1. <<r, e>> \in Named => dep[e].status = "running"
      BY <1>3 DEF Running
    <3>2. <<r, e>> \in Named <=> dep[e].reps[r] = UpReplica
      BY NamedAt
    <3>3. <<r, e>> \in Named' <=> dep'[e].reps[r] = UpReplica
      BY <2>1
    <3>4. CASE dep[e].status = "running"
      BY <1>2, <3>3, <3>4
    <3>5. CASE dep[e].status # "running"
      BY <1>2, <3>1, <3>2, <3>3, <3>5
    <3>6. QED
      BY <3>4, <3>5
  <2>4. QED
    BY <2>2, <2>3
<1>6. Running' = {d}
  BY <1>2 DEF Running
<1>7. RowsInv'
  <2>1. \A e \in Running' : HasServiceImage(e)'
    BY <1>2, <1>6 DEF HasServiceImage
  <2>2. \A c \in Named' : dep'[c[2]].status \in {"running", "starting"}
    <3>1. Named' \subseteq Indices \X Deps
      BY DEF Named
    <3>2. \A c \in Named' : c[1] \in Indices /\ c[2] \in Deps
                          /\ c = <<c[1], c[2]>>
      BY <3>1
    <3>3. \A c \in Named' : c[2] = d
      BY <1>5, <3>2
    <3>4. QED
      BY <1>2, <3>3
  <2>3. ASSUME NEW e \in Deps, dep'[e].status \in {"none", "starting"}
        PROVE  \A f \in Deps : e < f => dep'[f].status = "none"
    <3>1. e # d /\ dep'[e] = dep[e]
      BY <1>2, <2>3
    <3>2. e >= d /\ \A f \in Deps : e < f => dep[f].status = "none"
      BY <1>3, <2>3, <3>1
    <3>3. \A f \in Deps : e < f => f # d /\ dep'[f] = dep[f]
      BY <1>2, <3>2 DEF Deps
    <3>4. QED
      BY <3>2, <3>3
  <2>4. \A e, f \in Running' : e = f
    BY <1>6
  <2>5. QED
    BY <2>1, <2>2, <2>3, <2>4 DEF RowsInv
<1>8. \A r \in Indices, e \in Deps : <<r, e>> \in asked => e # d
  OBVIOUS
<1>9. \A r \in Indices, e \in Deps :
        <<r, e>> \in Named /\ e # d => <<r, e>> \in asked
  <2> SUFFICES ASSUME NEW r \in Indices, NEW e \in Deps, <<r, e>> \in Named,
                      e # d
               PROVE  <<r, e>> \in asked
    OBVIOUS
  <2>1. dep[e].reps[r] = UpReplica /\ e \in Running
    BY <1>3, NamedAt
  <2>2. UpReplica.cid
    BY ReplicasFacts
  <2>3. QED
    BY <2>1, <2>2 DEF Running
<1>10. Named' \subseteq cont' \cup torn'
  <2>1. Named' \subseteq Indices \X Deps
    BY DEF Named
  <2> HIDE DEF asked
  <2>2. \A r \in Indices, e \in Deps : <<r, e>> \in Named' => <<r, e>> \in cont'
    BY <1>4, <1>5, <1>8
  <2>3. QED
    BY <2>1, <2>2
<1>11. cont' \subseteq Named' \cup orphan' \cup refused'
  <2>1. cont' \subseteq Indices \X Deps
    BY <1>4 DEF TypeOK
  <2> HIDE DEF asked
  <2>2. ASSUME NEW r \in Indices, NEW e \in Deps, <<r, e>> \in cont'
        PROVE  <<r, e>> \in Named' \cup orphan' \cup refused'
    BY <1>3, <1>4, <1>5, <1>9, <2>2
  <2>3. QED
    BY <2>1, <2>2
<1>12. Busy' = {}
  BY <1>1, <1>3 DEF Busy
<1>13. QED
  BY <1>1, <1>3, <1>7, <1>10, <1>11, <1>12, SoloRolled

-----------------------------------------------------------------------------
(* The invariant *)

LEMMA InitIInv == Init => IInv
<1> SUFFICES ASSUME Init PROVE IInv
  OBVIOUS
<1> USE DEF Init
<1>1. /\ NoReplicas \in Replicas /\ \A r \in Indices : NoReplicas[r] # UpReplica
      /\ \A d \in Deps : dep[d].status = "none" /\ dep[d].reps = NoReplicas
  BY ReplicasFacts DEF NoDeployment, Deployment
<1>2. IdleHandler \in Requests /\ IdleHandler.pc = "idle"
  BY <1>1 DEF IdleHandler, Request, Requests, Statuses
<1>3. TypeOK
  <2>1. NoDeployment \in [status : Statuses, image : BOOLEAN, reps : Replicas]
    BY <1>1 DEF NoDeployment, Deployment, Statuses
  <2>2. h \in [Handlers -> Requests] /\ Busy = {}
    BY <1>2 DEF Busy
  <2>3. dep \in [Deps -> [status : Statuses, image : BOOLEAN, reps : Replicas]]
    BY <2>1
  <2>4. app \in BOOLEAN /\ hasRow \in BOOLEAN /\ alone \in BOOLEAN
    OBVIOUS
  <2>5. prebuilt \in BOOLEAN /\ overlap \in BOOLEAN
    OBVIOUS
  <2>6. replicas \in 1 .. MaxReplicas /\ ops \in 0 .. MaxOps
    OBVIOUS
  <2>7. QED
    BY <2>2, <2>3, <2>4, <2>5, <2>6 DEF TypeOK
<1>4. Busy = {} /\ Running = {} /\ ~RollingOut /\ Named = {}
  BY <1>1, <1>2 DEF Busy, Running, RollingOut, Named
<1>5. RowsInv
  BY <1>1, <1>4 DEF RowsInv
<1>6. OneAtATime /\ HandlersInv /\ RestInv
  BY <1>4 DEF OneAtATime, HandlersInv, RestInv
<1>7. AnsweredIsDone
  BY DEF AnsweredIsDone, StartedRuns, StoppedIsDown, DeletedLeavesNothing
<1>8. QED
  BY <1>3, <1>5, <1>6, <1>7 DEF IInv, SoloInv

\* A step of a handler, while nothing has overlapped.
LEMMA SoloHandler ==
  ASSUME TypeOK, SoloInv, NEW i \in Handlers, HandlerStep(i), ~overlap'
  PROVE  SoloInv' /\ AnsweredIsDone'
<1>1. ASSUME NEW op \in {"start", "stop", "restart"}, RunAction(i, op)
      PROVE  SoloInv' /\ AnsweredIsDone'
  <2>1. /\ op \in {"start", "stop", "restart", "scale", "delete"}
        /\ 0 \in 0 .. MaxReplicas /\ op # "scale"
    OBVIOUS
  <2>2. BeginOp(i, op, 0)
    BY <1>1 DEF RunAction
  <2>3. QED
    BY <2>1, <2>2, SoloBegin
<1>2. ASSUME NEW n \in 1 .. MaxReplicas, UpdateReplicas(i, n)
      PROVE  SoloInv' /\ AnsweredIsDone'
  <2>1. n \in 0 .. MaxReplicas /\ n # 0
    OBVIOUS
  <2>2. BeginOp(i, "scale", n)
    BY <1>2 DEF UpdateReplicas
  <2>3. QED
    BY <2>1, <2>2, SoloBegin
<1>3. CASE DeleteService(i)
  <2>1. 0 \in 0 .. MaxReplicas
    OBVIOUS
  <2>2. BeginOp(i, "delete", 0)
    BY <1>3 DEF DeleteService
  <2>3. QED
    BY <2>1, <2>2, SoloBegin
<1>4. CASE h[i].pc # "idle"
  <2>1. i \in Busy
    BY <1>4 DEF Busy
  <2>2. CASE StopReplica(i) \/ StopExtra(i)
    BY <2>1, <2>2, SoloStopOne
  <2>3. CASE StopDone(i) \/ StopPassedOver(i)
    BY <2>1, <2>3, SoloStopDone, SoloPassedOver
  <2>4. CASE RestartStart(i)
    BY <2>1, <2>4, SoloRestart
  <2>5. CASE StartReplica(i)
    BY <2>1, <2>5, SoloStartOne
  <2>6. CASE StartDone(i)
    BY <2>1, <2>6, SoloStartDone
  <2>7. CASE DeleteRuntime(i) \/ DeleteApp(i) \/ DeleteServiceRow(i)
    BY <2>1, <2>7, SoloDelete
  <2>8. CASE CutShort(i)
    <3>1. EndUnsaved(i) /\ UNCHANGED <<app, hasRow, prebuilt, dep>>
      BY <2>8 DEF CutShort
    <3>2. QED
      BY <2>1, <3>1, SoloUnsaved
  <2>9. QED
    BY <1>1, <1>2, <1>3, <2>2, <2>3, <2>4, <2>5, <2>6, <2>7, <2>8 DEF HandlerStep
<1>5. CASE h[i].pc = "idle"
  <2>1. /\ ~StopReplica(i) /\ ~StopExtra(i) /\ ~StopDone(i)
        /\ ~RestartStart(i) /\ ~StartReplica(i) /\ ~StartDone(i)
        /\ ~DeleteRuntime(i) /\ ~DeleteApp(i) /\ ~DeleteServiceRow(i)
        /\ ~CutShort(i) /\ ~StopPassedOver(i)
    BY <1>5 DEF CutShort, StopPassedOver, StopReplica, StopExtra, StopDone, RestartStart, StartReplica,
                StartDone, DeleteRuntime, DeleteApp, DeleteServiceRow
  <2>2. QED
    BY <1>1, <1>2, <1>3, <2>1 DEF HandlerStep
<1>6. QED
  BY <1>4, <1>5

\* An overlap is never forgotten.
LEMMA OverlapStays ==
  ASSUME TypeOK, [Next]_vars, overlap
  PROVE  overlap'
<1>1. overlap \in BOOLEAN
  BY DEF TypeOK
<1>2. ASSUME NEW i \in Handlers, HandlerStep(i) PROVE overlap'
  BY <1>2 DEF HandlerStep, RunAction, UpdateReplicas, DeleteService, BeginOp,
              StopReplica, StopDone, RestartStart, StartReplica, StopExtra,
              StartDone, DeleteRuntime, DeleteApp, DeleteServiceRow, CutShort,
              StopPassedOver
<1>3. ASSUME NEW d \in Deps,
             RolloutCreate(d) \/ RolloutCommit(d) \/ RolloutFail(d)
      PROVE  overlap'
  BY <1>3 DEF RolloutCreate, RolloutCommit, RolloutFail
<1>4. CASE UNCHANGED vars
  BY <1>4 DEF vars
<1>5. QED
  BY <1>2, <1>3, <1>4 DEF Next

LEMMA NextIInv == IInv /\ [Next]_vars => IInv'
<1> SUFFICES ASSUME IInv, [Next]_vars PROVE IInv'
  OBVIOUS
<1>1. CASE UNCHANGED vars
  BY <1>1
  DEF vars, IInv, TypeOK, SoloInv, AnsweredIsDone, OneAtATime, RowsInv,
      HandlersInv, RestInv, StartedRuns, StoppedIsDown, DeletedLeavesNothing,
      Quiet, Busy, RollingOut, Running, Named, HasServiceImage, Desired,
      StoppingInv, StartingInv, StoppedInv, CopyHeld, CopyNames
<1>2. CASE Next
  <2>1. TypeOK /\ (~overlap => SoloInv)
    BY DEF IInv
  <2>2. TypeOK'
    BY <1>2, <2>1, HandlerType, RolloutType DEF Next
  <2>3. CASE overlap'
    <3>1. AnsweredIsDone'
      BY <2>3 DEF AnsweredIsDone, StartedRuns, StoppedIsDown,
                  DeletedLeavesNothing, Quiet
    <3>2. QED
      BY <2>2, <2>3, <3>1 DEF IInv
  <2>4. CASE ~overlap'
    <3>1. SoloInv
      BY <2>1, <2>4, OverlapStays
    <3>2. ASSUME NEW i \in Handlers, HandlerStep(i)
          PROVE  SoloInv' /\ AnsweredIsDone'
      BY <2>1, <2>4, <3>1, <3>2, SoloHandler
    <3>3. ASSUME NEW d \in Deps,
                 RolloutCreate(d) \/ RolloutCommit(d) \/ RolloutFail(d)
          PROVE  SoloInv' /\ AnsweredIsDone'
      BY <2>1, <2>4, <3>1, <3>3, SoloCreate, SoloCommit, SoloFail
    <3>4. SoloInv' /\ AnsweredIsDone'
      BY <1>2, <3>2, <3>3 DEF Next
    <3>5. QED
      BY <2>2, <2>4, <3>4 DEF IInv
  <2>5. QED
    BY <2>3, <2>4
<1>3. QED
  BY <1>1, <1>2

\* The rows, the containers and the copies of the requests fit together in
\* every reachable state.
THEOREM Invariance == Spec => []IInv
<1>1. Init => IInv
  BY InitIInv
<1>2. IInv /\ [Next]_vars => IInv'
  BY NextIInv
<1>3. QED
  BY <1>1, <1>2, PTL DEF Spec

\* run_action, delete_service: a request that was answered with success has
\* done what it was asked for.
THEOREM AnswersAreDone == Spec => []AnsweredIsDone
<1>1. IInv => AnsweredIsDone
  BY DEF IInv
<1>2. QED
  BY <1>1, Invariance, PTL

\* start_app_service, rollout_services: without overlapping requests at most one
\* deployment of a service is Running.
THEOREM OneDeploymentRuns == Spec => []OneRunningDeployment
<1>1. IInv => OneRunningDeployment
  BY DEF IInv, SoloInv, RowsInv, Running, OneRunningDeployment
<1>2. QED
  BY <1>1, Invariance, PTL

-----------------------------------------------------------------------------
(* What the list of services shows *)

\* The deployment the list is about is the Running one, if there is one.
LEMMA ShownFacts ==
  ASSUME RowsInv
  PROVE  /\ ShownDeployment # Null =>
              /\ ShownDeployment \in Deps
              /\ Running \subseteq {ShownDeployment}
         /\ ShownDeployment = Null => Running = {}
<1> DEFINE all == {d \in Deps : dep[d].status # "none"}
           running == {d \in all : dep[d].status = "running"}
<1>1. running = Running /\ \A d, e \in Running : d = e
  BY DEF RowsInv, Running
<1>2. CASE running # {}
  <2>1. Newest(running) \in running
    BY <1>2, NewestFacts
  <2>2. ShownDeployment = Newest(running)
    BY <1>2 DEF ShownDeployment
  <2>3. QED
    BY <1>1, <2>1, <2>2
<1>3. CASE running = {} /\ all # {}
  <2>1. Newest(all) \in all
    BY <1>3, NewestFacts
  <2>2. ShownDeployment = Newest(all)
    BY <1>3 DEF ShownDeployment
  <2>3. QED
    BY <1>1, <1>3, <2>1, <2>2
<1>4. CASE running = {} /\ all = {}
  BY <1>1, <1>4 DEF ShownDeployment
<1>5. QED
  BY <1>2, <1>3, <1>4

\* As many containers of a deployment as replicas.
LEMMA AsManyContainers ==
  ASSUME NEW U \in SUBSET Indices, NEW d
  PROVE  /\ IsFiniteSet(U)
         /\ IsFiniteSet({<<r, d>> : r \in U})
         /\ Cardinality({<<r, d>> : r \in U}) = Cardinality(U)
<1> DEFINE T == {<<r, d>> : r \in U}
           f == [r \in U |-> <<r, d>>]
<1>1. IsFiniteSet(Indices)
  <2>1. 0 \in Int /\ MaxReplicas - 1 \in Int
    OBVIOUS
  <2>2. QED
    BY <2>1, FS_Interval DEF Indices
<1>2. IsFiniteSet(U)
  BY <1>1, FS_Subset
<1>3. f \in Bijection(U, T)
  <2>1. f \in [U -> T]
    OBVIOUS
  <2>2. \A a, b \in U : f[a] = f[b] => a = b
    OBVIOUS
  <2>3. \A t \in T : \E s \in U : f[s] = t
    OBVIOUS
  <2> HIDE DEF f, T
  <2>4. QED
    BY <2>1, <2>2, <2>3, Fun_IsBij
<1>4. ExistsBijection(U, T)
  BY <1>3 DEF ExistsBijection
<1> HIDE DEF T
<1>5. IsFiniteSet(T) /\ Cardinality(T) = Cardinality(U)
  BY <1>2, <1>4, FS_Bijection
<1>6. QED
  BY <1>2, <1>5 DEF T

\* summarize_app_service_runtime: the rows that say Running are the rows that
\* name a container, and the status follows their number.
LEMMA SummaryFacts ==
  ASSUME TypeOK, RowsInv, ~RollingOut
  PROVE  \E U \in SUBSET Indices :
           /\ {<<r, ShownDeployment>> : r \in U} \subseteq Summary.containers
           /\ Summary.running = Cardinality(U)
           /\ Summary.status = "running" => Cardinality(U) = Desired
           /\ Summary.status \in {"pending", "stopped", "failed"} => U = {}
           /\ Named = {<<r, ShownDeployment>> : r \in U}
<1> DEFINE d == ShownDeployment
           rows == IF d = Null THEN {}
                   ELSE {r \in Indices : dep[d].reps[r].status # "none"}
           up == {r \in rows : dep[d].reps[r].status = "running"}
           names == {q \in rows : dep[d].reps[q].cid}
           failed == \E r \in rows : dep[d].reps[r].status = "failed"
           shown == CASE d = Null -> "pending"
                      [] rows = {} -> IF dep[d].status = "running"
                                      THEN "stopped" ELSE dep[d].status
                      [] Cardinality(up) = Desired -> "running"
                      [] up # {} /\ Cardinality(up) # Desired -> "partial"
                      [] up = {} /\ failed -> "failed"
                      [] OTHER -> "stopped"
<1>1. Summary = [status |-> shown, running |-> Cardinality(up),
                 containers |-> {<<r, d>> : r \in names}]
  BY DEF Summary
<1>2. /\ d # Null => d \in Deps /\ Running \subseteq {d}
      /\ d = Null => Running = {}
  BY ShownFacts
<1>3. \A e \in Deps : \A r \in Indices : dep[e].reps[r] \in ReplicaRows
  BY DEF TypeOK, Replicas
<1>4. \A e \in Deps : \A r \in Indices :
        /\ dep[e].reps[r] = UpReplica <=> dep[e].reps[r].status = "running"
        /\ dep[e].reps[r] = UpReplica => dep[e].reps[r].cid
        /\ dep[e].reps[r] = UpReplica => dep[e].reps[r].status # "none"
  BY <1>3, ReplicasFacts
<1> HIDE DEF d
<1>5. up \in SUBSET Indices /\ up \subseteq names
  BY <1>2, <1>4
<1>6. \A r \in Indices, e \in Deps : <<r, e>> \in Named <=> e = d /\ r \in up
  <2>1. Running \subseteq {d}
    BY <1>2
  <2>2. \A r \in Indices, e \in Deps :
          <<r, e>> \in Named <=> e = d /\ dep[d].reps[r] = UpReplica
    BY <2>1, OnlyOneNames
  <2>3. \A e \in Deps : e # Null
    BY ServiceActionsAssumption
  <2>4. \A r \in Indices, e \in Deps :
          e = d => (dep[d].reps[r] = UpReplica <=> r \in up)
    BY <1>4, <2>3
  <2>5. QED
    BY <2>2, <2>4
<1>7. up = {} => Cardinality(up) = 0
  BY FS_EmptySet
<1>8. Desired \in 1 .. MaxReplicas
  BY DEF Desired, TypeOK
<1>9. rows = {} => up = {}
  OBVIOUS
<1>10. d = Null => rows = {}
  OBVIOUS
<1>11. up # {} => d \in Deps
  BY <1>2
<1> HIDE DEF rows, up, failed
<1>12. shown = "running" => Cardinality(up) = Desired
  BY <1>7, <1>8, <1>9, <1>10
<1>13. shown \in {"pending", "stopped", "failed"} => up = {}
  BY <1>7, <1>8, <1>9, <1>10
<1> HIDE DEF shown
<1>14. /\ {<<r, d>> : r \in up} \subseteq Summary.containers
       /\ Summary.running = Cardinality(up)
       /\ Summary.status = shown
  BY <1>1, <1>5
<1>15. Named = {<<r, d>> : r \in up}
  <2>1. Named \subseteq Indices \X Deps
    BY NamedAt
  <2>2. {<<r, d>> : r \in up} \subseteq Indices \X Deps
    BY <1>5, <1>11
  <2>3. \A r \in Indices, e \in Deps :
          <<r, e>> \in Named <=> <<r, e>> \in {<<q, d>> : q \in up}
    BY <1>6
  <2>4. QED
    BY <2>1, <2>2, <2>3
<1>16. QED
  BY <1>5, <1>12, <1>13, <1>14, <1>15 DEF d

\* summarize_app_service_runtime, persist_deployment: what the list of services
\* shows is what runs, after any sequence of requests that do not overlap.
THEOREM ReportsAreTrue == Spec => []ReportIsTrue
<1>1. IInv => ReportIsTrue
  <2> SUFFICES ASSUME IInv PROVE ReportIsTrue
    OBVIOUS
  <2>1. TypeOK
    BY DEF IInv
  <2>2. ASSUME Quiet
        PROVE  /\ Named \subseteq cont \cup torn
               /\ cont \subseteq Named \cup orphan \cup refused
    BY <2>2 DEF Quiet, IInv, SoloInv, RestInv
  <2>3. ASSUME Quiet
        PROVE  /\ Cardinality(Summary.containers \cap Named) = Summary.running
               /\ Summary.status = "running" =>
                    Cardinality(Summary.containers \cap (cont \cup torn)) >= Desired
               /\ cont \subseteq Summary.containers \cup orphan \cup refused
               /\ Summary.status \in {"pending", "stopped", "failed"} =>
                    cont \subseteq orphan \cup refused
    <3>1. RowsInv /\ ~RollingOut
      BY <2>3 DEF Quiet, IInv, SoloInv
    <3>2. PICK U \in SUBSET Indices :
            /\ {<<r, ShownDeployment>> : r \in U} \subseteq Summary.containers
            /\ Summary.running = Cardinality(U)
            /\ Summary.status = "running" => Cardinality(U) = Desired
            /\ Summary.status \in {"pending", "stopped", "failed"} => U = {}
            /\ Named = {<<r, ShownDeployment>> : r \in U}
      BY <2>1, <3>1, SummaryFacts
    <3>3. Summary.containers \cap Named = Named
      BY <3>2
    <3>4. IsFiniteSet(Named) /\ Cardinality(Named) = Cardinality(U)
      BY <3>2, AsManyContainers
    <3> DEFINE live == Summary.containers \cap (cont \cup torn)
    <3>5. Named \subseteq live
      BY <2>2, <2>3, <3>3
    <3>6. IsFiniteSet(Summary.containers)
      <4> DEFINE shown == ShownDeployment
                 rows == IF shown = Null THEN {}
                         ELSE {r \in Indices : dep[shown].reps[r].status # "none"}
                 V == {q \in rows : dep[shown].reps[q].cid}
      <4>1. Summary.containers = {<<r, shown>> : r \in V}
        BY DEF Summary
      <4>2. V \in SUBSET Indices
        OBVIOUS
      <4> HIDE DEF V, shown
      <4>3. IsFiniteSet({<<r, shown>> : r \in V})
        BY <4>2, AsManyContainers
      <4>4. QED
        BY <4>1, <4>3
    <3>7. IsFiniteSet(live)
      BY <3>6, FS_Subset
    <3>8. Cardinality(Named) <= Cardinality(live)
      BY <3>5, <3>7, FS_Subset
    <3>9. Cardinality(live) \in Nat /\ Desired \in 1 .. MaxReplicas
      BY <2>1, <3>7, FS_CardinalityType DEF Desired, TypeOK
    <3>10. Summary.status = "running" => Cardinality(live) >= Desired
      BY <3>2, <3>4, <3>8, <3>9
    <3>11. U = {} => Named = {}
      BY <3>2
    <3>12. QED
      BY <2>2, <2>3, <3>2, <3>3, <3>4, <3>10, <3>11
  <2>4. QED
    BY <2>1, <2>2, <2>3 DEF ReportIsTrue, InventoryItems
<1>2. QED
  BY <1>1, Invariance, PTL

=============================================================================
