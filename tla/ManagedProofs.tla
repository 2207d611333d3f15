---------------------------- MODULE ManagedProofs ----------------------------
(***************************************************************************)
(* Managed databases and queues, for any number of requests, writes and    *)
(* crashes.  What a request promises is proved from an account of every    *)
(* step it may be at.  Most steps are one of three: a handler goes on past *)
(* the point where its copy is the row, it ends on an error with row and   *)
(* container wherever they are, or it ends before it touched anything.     *)
(***************************************************************************)
EXTENDS ManagedServices, TLAPS

USE ManagedAssumption

\* A row that is stopped, moved or marked as starting is a row.
LEMMA RowSteps ==
  ASSUME NEW r \in Rows, SoundRow(r)
  PROVE  /\ Stopped(r) \in Rows /\ SoundRow(Stopped(r)) /\ Stopped(r).cid = Null
         /\ MarkStarting(r) \in Rows /\ SoundRow(MarkStarting(r))
         /\ MarkStarting(r).cid = Null
         /\ Moved(r) \in Rows /\ SoundRow(Moved(r)) /\ Moved(r).cid = r.cid
<1>1. (~r.group) \in BOOLEAN
  BY DEF Rows
<1>2. /\ Stopped(r) \in Rows /\ SoundRow(Stopped(r)) /\ Stopped(r).cid = Null
      /\ MarkStarting(r) \in Rows /\ SoundRow(MarkStarting(r))
      /\ MarkStarting(r).cid = Null
  BY DEF Rows, SoundRow, Stopped, MarkStarting, Statuses
<1>3. Moved(r) \in Rows /\ SoundRow(Moved(r)) /\ Moved(r).cid = r.cid
  BY <1>1 DEF Rows, SoundRow, Moved
<1>4. QED
  BY <1>2, <1>3

\* Rows and requests stay what they are when more containers are created.
LEMMA Grows ==
  ASSUME ids \in Nat, ids' \in Nat, ids <= ids'
  PROVE  /\ Rows \subseteq Rows'
         /\ Requests \subseteq Requests'
<1>1. 1 .. ids \subseteq 1 .. ids'
  OBVIOUS
<1>2. Rows \subseteq Rows'
  BY <1>1 DEF Rows
<1>3. QED
  BY <1>1, <1>2 DEF Requests

\* A row is not Null.
LEMMA RowsNotNull ==
  ASSUME ids \in Nat, NEW r \in Rows
  PROVE  r # Null
<1>1. r \in [status : Statuses, cid : Nat \cup {Null}, group : BOOLEAN]
  BY DEF Rows
<1>2. QED
  BY <1>1

\* What a step owes the files: their types, and the latest write.
FilesOK ==
  /\ {data, backup} \subseteq 0 .. MaxWrites \cup {Null}
  /\ archived \subseteq 0 .. MaxWrites /\ points \subseteq 0 .. MaxWrites
  /\ written \in 0 .. MaxWrites
  /\ ~raced => /\ points \subseteq 0 .. written
               /\ {data, backup} \subseteq 0 .. written \cup {Null}
  /\ WritesKept

\* The invariant says as much.
LEMMA FilesAreOK == IInv => FilesOK
  BY DEF IInv, FilesOK, AnswersAreTrue, TypeOK, WritesInv, RecoveryIsSafe

\* What a step that leaves the files alone owes them.
LEMMA FilesStay ==
  ASSUME IInv, UNCHANGED <<files, raced>>
  PROVE  FilesOK'
<1>1. FilesOK
  BY FilesAreOK
<1>2. QED
  BY <1>1 DEF FilesOK, files, WritesKept

\* What every step owes row and container.
PlacesOK ==
  /\ row \in Rows \cup {Null}
  /\ row # Null => SoundRow(row)
  /\ cont \in 1 .. ids \cup {Null}
  /\ ids \in Nat

\* A handler that is busy ends with an error, and whatever row and container
\* are is settled.
EndEffect(i) ==
  /\ h[i].pc # "idle"
  /\ Finish(i, FALSE)
  /\ Settle(row', cont')
  /\ UNCHANGED <<kind, ops, crashes, pass, overlap, raced>>

\* Any error or dropped handler: what is left behind is known as such.
LEMMA EndStep ==
  ASSUME IInv, NEW i \in Handlers, EndEffect(i), PlacesOK', ids <= ids', FilesOK'
  PROVE  IInv'
<1> USE DEF IInv
<1>0. TypeOK /\ h[i] \in Requests /\ ids \in Nat
  BY DEF AnswersAreTrue, TypeOK
<1>a. Rows \subseteq Rows' /\ Requests \subseteq Requests'
  BY <1>0, Grows DEF PlacesOK
<1>b. h' = [h EXCEPT ![i] = Idle] /\ h'[i] = Idle
  BY <1>0 DEF EndEffect, Finish, TypeOK
<1>c. \A j \in Handlers \ {i} : h'[j] = h[j]
  BY <1>0, <1>b DEF TypeOK
<1>d. i \in Busy /\ Busy' = Busy \ {i}
  BY <1>b, <1>c DEF Busy, EndEffect, Idle, Request
<1>e. ~overlap' => Busy' = {}
  BY <1>d DEF GhostsInv, EndEffect
<1>f. last' # Null => ~last'.ok
  BY DEF EndEffect, Finish
<1>1. TypeOK'
  <2>1. Idle \in Requests'
    BY <1>0 DEF Idle, Request, Requests, Pcs
  <2>2. h' \in [Handlers -> Requests']
    BY <1>0, <1>a, <1>b, <2>1 DEF TypeOK
  <2>3. {cont', stray', torn'} \subseteq 1 .. ids' \cup {Null}
    <3>1. stray \in 1 .. ids' \cup {Null} /\ torn \in 1 .. ids' \cup {Null}
      BY <1>0 DEF TypeOK, PlacesOK
    <3>2. stray' \in 1 .. ids' \cup {Null}
      BY <3>1 DEF EndEffect, Settle, StrayOf, PlacesOK
    <3>3. torn' \in 1 .. ids' \cup {Null}
      BY <3>1 DEF EndEffect, Settle, TornOf, PlacesOK, Rows
    <3>4. QED
      BY <3>2, <3>3 DEF PlacesOK
  <2>4. QED
    BY <1>0, <2>2, <2>3 DEF TypeOK, PlacesOK, FilesOK, EndEffect
<1>2. HandlersInv'
  BY <1>b, <1>c DEF HandlersInv, EndEffect, Idle, Request
<1>3. GhostsInv'
  BY <1>d, <1>e DEF GhostsInv, EndEffect
<1>4. Tracked'
  BY <1>e DEF Tracked, EndEffect, Settle, StrayOf
<1>5. Healed'
  BY <1>e DEF Healed, EndEffect, Settle, StrayOf, TornOf, RowIsTrue
<1>6. TargetsKept'
  BY <1>e DEF TargetsKept
<1>7. WritesInv'
  BY <1>e DEF WritesInv, FilesOK, GhostsInv, EndEffect
<1>8. AnswersAreTrue'
  BY <1>1, <1>f DEF AnswersAreTrue
<1>9. RecoveryIsSafe'
  BY <1>f DEF RecoveryIsSafe, RecoveredToTarget, FilesOK
<1>10. QED
  BY <1>1, <1>2, <1>3, <1>4, <1>5, <1>6, <1>7, <1>8, <1>9

\* A handler goes on to a step at which its copy is no longer the row.
GoEffect(i, pc, r) ==
  /\ h[i].pc # "idle"
  /\ pc \in {"create", "wait", "fail", "archive", "copy", "drop"}
  /\ h'[i].pc = pc /\ h'[i].op = h[i].op /\ h'[i].copy = r
  /\ h'[i].target = h[i].target
  /\ h' = [h EXCEPT ![i] = h'[i]]
  /\ r \in Rows /\ SoundRow(r)
  /\ pc \in {"create", "wait", "fail"} =>
        h[i].op \in {"create", "start", "restart", "move", "restore", "recover"}
  /\ pc \in {"archive", "copy"} => h[i].op = "recover"
  /\ pc = "drop" =>
        h[i].op = "delete" /\ (~overlap => cont' \in {Null, stray'})
  /\ pc = "wait" => h'[i].id # Null
  /\ UNCHANGED <<kind, ops, crashes, pass, overlap, raced, last>>

\* What the files of a recovery that goes on look like.
RecoveryGoesOn(i) ==
  ~raced' =>
    /\ h'[i].pc = "copy" => data' = Null
    /\ h'[i].pc \in {"create", "wait"} /\ h'[i].op = "recover" =>
          \/ written' = 0
          \/ written' \in archived'
          \/ data' = written' /\ h'[i].target < written'

\* A handler on its way owes nothing but its own account.
LEMMA GoStep ==
  ASSUME IInv, NEW i \in Handlers, NEW pc, NEW r, GoEffect(i, pc, r), PlacesOK',
         ids <= ids', FilesOK', RecoveryGoesOn(i), points' = points,
         h'[i] \in Requests', {stray', torn'} \subseteq 1 .. ids' \cup {Null}
  PROVE  IInv'
<1> USE DEF IInv
<1>0. TypeOK /\ h[i] \in Requests /\ ids \in Nat
  BY DEF AnswersAreTrue, TypeOK
<1>a. Rows \subseteq Rows' /\ Requests \subseteq Requests'
  BY <1>0, Grows DEF PlacesOK
<1>c. \A j \in Handlers \ {i} : h'[j] = h[j]
  BY <1>0 DEF TypeOK, GoEffect
<1>d. i \in Busy /\ Busy' = Busy
  BY <1>c DEF Busy, GoEffect
<1>e. ~overlap' => Busy' = {i}
  BY <1>d DEF GhostsInv, GoEffect
<1>f. /\ h'[i].pc \notin Untouched
      /\ h'[i].pc = "drop" /\ ~overlap' => cont' \in {Null, stray'}
  BY DEF GoEffect, Untouched
<1>1. TypeOK'
  <2>1. h' \in [Handlers -> Requests']
    BY <1>0, <1>a DEF TypeOK, GoEffect
  <2>2. QED
    BY <1>0, <2>1 DEF TypeOK, PlacesOK, FilesOK, GoEffect
<1>2. HandlersInv'
  <2>1. r # Null
    BY <1>0, RowsNotNull DEF GoEffect
  <2>2. QED
    BY <1>c, <2>1 DEF HandlersInv, GoEffect
<1>3. GhostsInv'
  BY <1>d DEF GhostsInv, GoEffect
<1>4. Tracked'
  BY <1>e, <1>f DEF Tracked
<1>5. Healed'
  BY <1>e, <1>f DEF Healed
<1>6. TargetsKept'
  BY <1>d, <1>e DEF TargetsKept, GoEffect
<1>7. WritesInv'
  BY <1>e DEF WritesInv, FilesOK, RecoveryGoesOn, GhostsInv, GoEffect
<1>8. AnswersAreTrue'
  BY <1>1, <1>d DEF AnswersAreTrue, Quiet
<1>9. RecoveryIsSafe'
  BY <1>d DEF RecoveryIsSafe, RecoveredToTarget, FilesOK, GhostsInv, GoEffect
<1>10. QED
  BY <1>1, <1>2, <1>3, <1>4, <1>5, <1>6, <1>7, <1>8, <1>9

\* A handler ends before it changed row or container.
QuietEffect(i, ok) ==
  /\ h[i].pc \in Untouched
  /\ Finish(i, ok)
  /\ ok => h[i].op \in {"backup", "point"}
  /\ h[i].op = "restore" => IsRunning(h[i].copy)
  /\ UNCHANGED <<kind, row, cont, ids, ops, crashes, pass, ghosts>>

\* What it leaves is what it found.
LEMMA QuietStep ==
  ASSUME IInv, NEW i \in Handlers, NEW ok \in BOOLEAN, QuietEffect(i, ok), FilesOK'
  PROVE  IInv'
<1> USE DEF IInv
<1>0. TypeOK /\ h[i] \in Requests /\ ids \in Nat
  BY DEF AnswersAreTrue, TypeOK
<1>b. h' = [h EXCEPT ![i] = Idle] /\ h'[i] = Idle
  BY <1>0 DEF QuietEffect, Finish, TypeOK
<1>c. \A j \in Handlers \ {i} : h'[j] = h[j]
  BY <1>0, <1>b DEF TypeOK
<1>d. i \in Busy /\ Busy' = Busy \ {i}
  BY <1>b, <1>c DEF Busy, QuietEffect, Untouched, Idle, Request
<1>e. ~overlap' => Busy' = {} /\ Busy = {i}
  BY <1>d DEF GhostsInv, QuietEffect, ghosts
<1>f. last'.ok = ok /\ last'.op = h[i].op
  BY DEF QuietEffect, Finish
<1>g. Rows' = Rows /\ Requests' = Requests
  BY DEF QuietEffect, Rows, Requests
<1>h. ~overlap => /\ row # Null /\ h[i].copy = row
                  /\ cont \in {Null, stray, row.cid}
  BY <1>d DEF Tracked, QuietEffect
<1>1. TypeOK'
  <2>1. Idle \in Requests'
    BY <1>0, <1>g DEF Idle, Request, Requests, Pcs
  <2>2. h' \in [Handlers -> Requests']
    BY <1>0, <1>b, <1>g, <2>1 DEF TypeOK
  <2>3. QED
    BY <1>0, <1>g, <2>2 DEF TypeOK, FilesOK, QuietEffect, ghosts, left
<1>2. HandlersInv'
  BY <1>b, <1>c DEF HandlersInv, QuietEffect, Idle, Request
<1>3. GhostsInv'
  BY <1>d, <1>e DEF GhostsInv, QuietEffect, ghosts
<1>4. Tracked'
  BY <1>e, <1>h DEF Tracked, QuietEffect, ghosts, left
<1>5. Healed'
  <2>1. SUFFICES ASSUME kind = "db", pass \in {"seen", "done"}, ~overlap
                 PROVE  Healed'
    BY DEF Healed, QuietEffect, ghosts
  <2>2. RowIsTrue
    BY <1>d, <1>h, <2>1 DEF Healed, QuietEffect, IsRunning, RowIsTrue
  <2>3. RowIsTrue'
    BY <2>2 DEF RowIsTrue, QuietEffect, ghosts, left
  <2>4. QED
    BY <1>e, <2>1, <2>3 DEF Healed, QuietEffect, ghosts
<1>6. TargetsKept'
  BY <1>e DEF TargetsKept
<1>7. WritesInv'
  BY <1>e DEF WritesInv, FilesOK, GhostsInv, QuietEffect, ghosts
<1>8. AnswersAreTrue'
  BY <1>1, <1>f DEF AnswersAreTrue, QuietEffect
<1>9. RecoveryIsSafe'
  BY <1>f DEF RecoveryIsSafe, RecoveredToTarget, FilesOK, QuietEffect
<1>10. QED
  BY <1>1, <1>2, <1>3, <1>4, <1>5, <1>6, <1>7, <1>8, <1>9

\* Row and container that a step leaves alone are in order.
LEMMA PlacesStay ==
  ASSUME IInv
  PROVE  PlacesOK
  BY DEF IInv, AnswersAreTrue, TypeOK, PlacesOK

\* A busy handler works on a sound row.
LEMMA CopySound ==
  ASSUME IInv, NEW i \in Handlers, h[i].pc # "idle"
  PROVE  /\ h[i] \in Requests /\ h[i].copy \in Rows /\ SoundRow(h[i].copy)
         /\ ids \in Nat /\ h \in [Handlers -> Requests]
<1>1. h[i] \in Requests /\ ids \in Nat /\ h \in [Handlers -> Requests]
  BY DEF IInv, AnswersAreTrue, TypeOK
<1>2. h[i].copy # Null /\ SoundRow(h[i].copy)
  BY DEF IInv, HandlersInv
<1>3. QED
  BY <1>1, <1>2 DEF Requests

\* Goto is a step past the copy, or to the next one before it.
LEMMA GotoEffect ==
  ASSUME IInv, NEW i \in Handlers, h[i].pc # "idle", NEW pc \in Pcs, NEW r \in Rows,
         Goto(i, pc, r), ids' \in Nat, ids <= ids'
  PROVE  /\ h'[i].pc = pc /\ h'[i].op = h[i].op /\ h'[i].copy = r
         /\ h'[i].target = h[i].target /\ h'[i].id = h[i].id
         /\ h' = [h EXCEPT ![i] = h'[i]]
         /\ h'[i] \in Requests'
         /\ UNCHANGED last
<1>1. h[i] \in Requests /\ ids \in Nat /\ h \in [Handlers -> Requests]
  BY CopySound
<1>2. h'[i] = Request(pc, h[i].op, r, h[i].id, h[i].target)
  BY <1>1 DEF Goto
<1>3. h'[i] \in Requests
  BY <1>1, <1>2 DEF Request, Requests
<1>4. h'[i] \in Requests'
  BY <1>1, <1>3, Grows
<1>5. QED
  BY <1>1, <1>2, <1>4 DEF Goto, Request

\* run_database_action(Start): a database that runs is refused, any other is
\* saved as starting and its container goes by name.
LEMMA StartCheckStep ==
  ASSUME IInv, NEW i \in Handlers, StartCheck(i), UNCHANGED kind
  PROVE  IInv'
<1>0. /\ h[i] \in Requests /\ h[i].copy \in Rows /\ SoundRow(h[i].copy)
      /\ ids \in Nat /\ h[i].pc = "check" /\ h[i].op \in {"start", "restore"}
  BY CopySound DEF StartCheck
<1>1. PlacesOK /\ FilesOK'
  BY PlacesStay, FilesStay DEF StartCheck, ghosts
<1>2. CASE IsRunning(h[i].copy) /\ Finish(i, FALSE) /\ UNCHANGED row
  <2>1. QuietEffect(i, FALSE)
    BY <1>0, <1>2 DEF QuietEffect, StartCheck, Untouched
  <2>2. QED
    BY <1>1, <2>1, QuietStep
<1>3. CASE /\ row' = MarkStarting(h[i].copy)
           /\ Goto(i, "create", MarkStarting(h[i].copy))
  <2> DEFINE r == MarkStarting(h[i].copy)
  <2>1. r \in Rows /\ SoundRow(r)
    BY <1>0, RowSteps
  <2>2. ids' = ids /\ {stray', torn'} \subseteq 1 .. ids' \cup {Null}
        /\ cont' = cont /\ points' = points
    BY DEF StartCheck, ghosts, left, IInv, AnswersAreTrue, TypeOK, files
  <2>3. PlacesOK'
    BY <1>1, <1>3, <2>1, <2>2 DEF PlacesOK, Rows
  <2> HIDE DEF r
  <2>4. /\ h'[i].pc = "create" /\ h'[i].op = h[i].op /\ h'[i].copy = r
        /\ h'[i].target = h[i].target
        /\ h' = [h EXCEPT ![i] = h'[i]]
        /\ h'[i] \in Requests'
        /\ UNCHANGED last
    <3>1. Goto(i, "create", r) /\ "create" \in Pcs /\ ids' \in Nat /\ ids <= ids'
      BY <1>0, <1>3, <2>2 DEF r, Pcs
    <3>2. QED
      BY <1>0, <2>1, <3>1, GotoEffect
  <2>5. GoEffect(i, "create", r)
    BY <1>0, <2>1, <2>4 DEF GoEffect, StartCheck, ghosts
  <2>6. RecoveryGoesOn(i)
    BY <1>0, <2>4 DEF RecoveryGoesOn
  <2>7. ids <= ids'
    BY <1>0, <2>2
  <2>8. QED
    BY <1>1, <2>2, <2>3, <2>4, <2>5, <2>6, <2>7, GoStep
<1>4. QED
  BY <1>2, <1>3 DEF StartCheck, Save

\* run_queue_action(Start) goes on with the row it read.
LEMMA StartQueueCheckStep ==
  ASSUME IInv, NEW i \in Handlers, StartQueueCheck(i), UNCHANGED kind
  PROVE  IInv'
<1>0. /\ h[i] \in Requests /\ h[i].copy \in Rows /\ SoundRow(h[i].copy)
      /\ ids \in Nat /\ h[i].pc = "check" /\ h[i].op = "start"
  BY CopySound DEF StartQueueCheck
<1>1. PlacesOK /\ FilesOK'
  BY PlacesStay, FilesStay DEF StartQueueCheck, ghosts
<1>2. ids' = ids /\ {stray', torn'} \subseteq 1 .. ids' \cup {Null}
      /\ cont' = cont /\ points' = points
  BY DEF StartQueueCheck, ghosts, left, IInv, AnswersAreTrue, TypeOK, files
<1>3. PlacesOK' /\ ids <= ids' /\ ids' \in Nat
  BY <1>0, <1>1, <1>2 DEF PlacesOK, Rows, StartQueueCheck
<1>4. Goto(i, "create", h[i].copy) /\ "create" \in Pcs
  BY DEF StartQueueCheck, Pcs
<1>5. /\ h'[i].pc = "create" /\ h'[i].op = h[i].op /\ h'[i].copy = h[i].copy
      /\ h'[i].target = h[i].target
      /\ h' = [h EXCEPT ![i] = h'[i]]
      /\ h'[i] \in Requests'
      /\ UNCHANGED last
  BY <1>0, <1>3, <1>4, GotoEffect
<1>6. GoEffect(i, "create", h[i].copy)
  BY <1>0, <1>5 DEF GoEffect, StartQueueCheck, ghosts
<1>7. RecoveryGoesOn(i)
  BY <1>0, <1>5 DEF RecoveryGoesOn
<1>8. QED
  BY <1>1, <1>2, <1>3, <1>5, <1>6, <1>7, GoStep

\* An error or a dropped handler after a check or a wait.
LEMMA CutShortStep ==
  ASSUME IInv, NEW i \in Handlers, CutShort(i), UNCHANGED kind
  PROVE  IInv'
<1>1. PlacesOK /\ FilesOK'
  BY PlacesStay, FilesStay DEF CutShort
<1>2. PlacesOK' /\ ids <= ids'
  BY <1>1 DEF PlacesOK, Rows, CutShort
<1>3. EndEffect(i)
  BY DEF EndEffect, CutShort, EndUnsaved
<1>4. QED
  BY <1>1, <1>2, <1>3, EndStep

\* A failed start ends, with the failure saved or not.
LEMMA SaveFailedStep ==
  ASSUME IInv, NEW i \in Handlers, SaveFailed(i), UNCHANGED kind
  PROVE  IInv'
<1>0. /\ h[i] \in Requests /\ h[i].copy \in Rows /\ ids \in Nat
      /\ h[i].pc = "fail"
  BY CopySound DEF SaveFailed
<1>1. PlacesOK /\ FilesOK'
  BY PlacesStay, FilesStay DEF SaveFailed
<1>2. ids' = ids /\ cont' = cont /\ Rows' = Rows
  BY DEF SaveFailed, Rows
<1>3. row' = row \/ (row' \in Rows /\ SoundRow(row'))
  BY <1>0 DEF SaveFailed, Save, Rows, SoundRow, Statuses
<1>4. PlacesOK' /\ ids <= ids'
  BY <1>0, <1>1, <1>2, <1>3 DEF PlacesOK
<1>5. EndEffect(i)
  BY <1>0 DEF EndEffect, SaveFailed, EndUnsaved
<1>6. QED
  BY <1>1, <1>4, <1>5, EndStep

\* The service is not ready in time.
LEMMA NotReadyStep ==
  ASSUME IInv, NEW i \in Handlers, NotReady(i), UNCHANGED kind
  PROVE  IInv'
<1>0. /\ h[i] \in Requests /\ h[i].copy \in Rows /\ SoundRow(h[i].copy)
      /\ ids \in Nat /\ h[i].pc = "wait"
  BY CopySound DEF NotReady
<1>1. PlacesOK /\ FilesOK'
  BY PlacesStay, FilesStay DEF NotReady, ghosts
<1>2. ids' = ids /\ {stray', torn'} \subseteq 1 .. ids' \cup {Null}
      /\ cont' \in {cont, Null} /\ points' = points
  BY DEF NotReady, ghosts, left, IInv, AnswersAreTrue, TypeOK, files
<1>3. PlacesOK' /\ ids <= ids' /\ ids' \in Nat
  BY <1>0, <1>1, <1>2 DEF PlacesOK, Rows, NotReady
<1>4. Goto(i, "fail", h[i].copy) /\ "fail" \in Pcs
  BY DEF NotReady, Pcs
<1>5. /\ h'[i].pc = "fail" /\ h'[i].op = h[i].op /\ h'[i].copy = h[i].copy
      /\ h'[i].target = h[i].target
      /\ h' = [h EXCEPT ![i] = h'[i]]
      /\ h'[i] \in Requests'
      /\ UNCHANGED last
  BY <1>0, <1>3, <1>4, GotoEffect
<1>6. GoEffect(i, "fail", h[i].copy)
  BY <1>0, <1>5 DEF GoEffect, NotReady, ghosts, IInv, HandlersInv
<1>7. RecoveryGoesOn(i)
  BY <1>5 DEF RecoveryGoesOn
<1>8. QED
  BY <1>1, <1>2, <1>3, <1>5, <1>6, <1>7, GoStep

\* start_proxy_frontend fails: the copy names the container that is left, or
\* none.
LEMMA ProxyFailsStep ==
  ASSUME IInv, NEW i \in Handlers, ProxyFails(i), UNCHANGED kind
  PROVE  IInv'
<1>0. /\ h[i] \in Requests /\ h[i].copy \in Rows /\ SoundRow(h[i].copy)
      /\ ids \in Nat /\ h[i].pc = "wait" /\ h[i].id # Null
  BY CopySound DEF ProxyFails, IInv, HandlersInv
<1>1. PlacesOK /\ FilesOK'
  BY PlacesStay, FilesStay DEF ProxyFails, ghosts
<1>2. ids' = ids /\ {stray', torn'} \subseteq 1 .. ids' \cup {Null}
      /\ cont' \in {cont, Null} /\ points' = points
  BY DEF ProxyFails, ghosts, left, IInv, AnswersAreTrue, TypeOK, files
<1>3. PlacesOK' /\ ids <= ids' /\ ids' \in Nat
  BY <1>0, <1>1, <1>2 DEF PlacesOK, Rows, ProxyFails
<1>4. PICK r \in Rows : SoundRow(r) /\ Goto(i, "fail", r)
  <2> DEFINE q == [status |-> "running", cid |-> h[i].id,
                   group |-> h[i].copy.group]
  <2>1. q \in Rows /\ SoundRow(q)
    BY <1>0 DEF Requests, Rows, SoundRow, Statuses
  <2>2. Stopped(q) \in Rows /\ SoundRow(Stopped(q))
    BY <2>1, RowSteps
  <2>3. Goto(i, "fail", q) \/ Goto(i, "fail", Stopped(q))
    BY DEF ProxyFails
  <2> HIDE DEF q
  <2>4. QED
    BY <2>1, <2>2, <2>3
<1>5. /\ h'[i].pc = "fail" /\ h'[i].op = h[i].op /\ h'[i].copy = r
      /\ h'[i].target = h[i].target
      /\ h' = [h EXCEPT ![i] = h'[i]]
      /\ h'[i] \in Requests'
      /\ UNCHANGED last
  <2>1. "fail" \in Pcs /\ h[i].pc # "idle"
    BY <1>0 DEF Pcs
  <2>2. QED
    BY <1>3, <1>4, <2>1, GotoEffect
<1>6. GoEffect(i, "fail", r)
  BY <1>0, <1>4, <1>5 DEF GoEffect, ProxyFails, ghosts, IInv, HandlersInv
<1>7. RecoveryGoesOn(i)
  BY <1>5 DEF RecoveryGoesOn
<1>8. QED
  BY <1>1, <1>2, <1>3, <1>5, <1>6, <1>7, GoStep

\* start_database, start_queue: a new container, or an end before the wait.
LEMMA StartContainerStep ==
  ASSUME IInv, NEW i \in Handlers, StartContainer(i), UNCHANGED kind
  PROVE  IInv'
<1>0. /\ h[i] \in Requests /\ h[i].copy \in Rows /\ SoundRow(h[i].copy)
      /\ ids \in Nat /\ h[i].pc = "create" /\ h \in [Handlers -> Requests]
  BY CopySound DEF StartContainer
<1>1. PlacesOK /\ FilesOK
  BY PlacesStay, FilesAreOK
<1>2. /\ cont' \in {cont, Null, ids + 1} /\ ids' \in {ids, ids + 1}
      /\ cont' = ids + 1 => ids' = ids + 1
      /\ data' \in {data, MakeDir}
      /\ row' = row
  <2>1. CASE NewContainer(i)
    BY <2>1 DEF NewContainer
  <2>2. CASE StartFails(i)
    BY <1>1, <2>2 DEF StartFails, PartlyStarted, PlacesOK
  <2>3. QED
    BY <2>1, <2>2 DEF StartContainer
<1>3. ids' \in Nat /\ ids <= ids'
  BY <1>0, <1>2
<1>4. Rows \subseteq Rows' /\ Requests \subseteq Requests'
  BY <1>0, <1>3, Grows
<1>5. PlacesOK'
  BY <1>1, <1>2, <1>3, <1>4 DEF PlacesOK
<1>6. FilesOK'
  <2>1. UNCHANGED <<archived, backup, points, written, raced>>
    BY DEF StartContainer
  <2>2. data' = data \/ (data = Null /\ data' = 0)
    BY <1>2 DEF MakeDir
  <2>3. QED
    BY <1>1, <2>1, <2>2 DEF FilesOK, WritesKept
<1>8. CASE EndUnsaved(i)
  <2>1. EndEffect(i)
    BY <1>0, <1>8 DEF EndEffect, EndUnsaved, StartContainer
  <2>2. QED
    BY <1>3, <1>5, <1>6, <2>1, EndStep
<1>9. CASE Goto(i, "fail", h[i].copy) /\ UNCHANGED left
  <2>1. "fail" \in Pcs /\ h[i].pc # "idle"
    BY <1>0 DEF Pcs
  <2>2. /\ h'[i].pc = "fail" /\ h'[i].op = h[i].op /\ h'[i].copy = h[i].copy
        /\ h'[i].target = h[i].target
        /\ h' = [h EXCEPT ![i] = h'[i]]
        /\ h'[i] \in Requests'
        /\ UNCHANGED last
    BY <1>0, <1>3, <1>9, <2>1, GotoEffect
  <2>3. GoEffect(i, "fail", h[i].copy)
    BY <1>0, <2>2 DEF GoEffect, StartContainer, IInv, HandlersInv
  <2>4. RecoveryGoesOn(i)
    BY <2>2 DEF RecoveryGoesOn
  <2>5. {stray', torn'} \subseteq 1 .. ids' \cup {Null} /\ points' = points
    BY <1>0, <1>3, <1>9 DEF left, IInv, AnswersAreTrue, TypeOK, StartContainer
  <2>6. QED
    BY <1>3, <1>5, <1>6, <2>2, <2>3, <2>4, <2>5, GoStep
<1>10. CASE NewContainer(i)
  <2>1. h'[i] = Request("wait", h[i].op, h[i].copy, ids + 1, h[i].target)
    BY <1>0, <1>10 DEF NewContainer
  <2>2. ids' = ids + 1 /\ h[i].copy \in Rows' /\ h[i] \in Requests'
    BY <1>0, <1>4, <1>10 DEF NewContainer
  <2>3. h'[i] \in Requests'
    BY <1>0, <2>1, <2>2 DEF Request, Requests, Pcs
  <2>4. GoEffect(i, "wait", h[i].copy)
    <3>1. /\ h' = [h EXCEPT ![i] = h'[i]] /\ UNCHANGED last
          /\ h'[i].pc = "wait" /\ h'[i].op = h[i].op /\ h'[i].copy = h[i].copy
          /\ h'[i].target = h[i].target /\ h'[i].id = ids + 1 /\ ids + 1 # Null
      BY <1>0, <1>10, <2>1 DEF NewContainer, Request
    <3>2. QED
      BY <1>0, <3>1 DEF GoEffect, StartContainer, IInv, HandlersInv
  <2>5. RecoveryGoesOn(i)
    <3>1. SUFFICES ASSUME ~raced', h'[i].op = "recover"
                   PROVE  \/ written' = 0
                          \/ written' \in archived'
                          \/ data' = written' /\ h'[i].target < written'
      BY <2>1 DEF RecoveryGoesOn, Request
    <3>2. i \in Busy /\ ~raced /\ h[i].op = "recover" /\ h'[i].target = h[i].target
      BY <1>0, <2>1, <3>1 DEF Busy, Request, StartContainer
    <3>3. \/ written = 0
          \/ written \in archived
          \/ data = written /\ h[i].target < written
      BY <1>0, <3>2 DEF IInv, WritesInv
    <3>4. UNCHANGED <<archived, written>> /\ (data = written => data' = data)
      BY <1>1, <1>2 DEF StartContainer, MakeDir, FilesOK
    <3>5. QED
      BY <3>2, <3>3, <3>4
  <2>6. {stray', torn'} \subseteq 1 .. ids' \cup {Null} /\ points' = points
    BY <1>0, <1>3, <1>10 DEF NewContainer, left, IInv, AnswersAreTrue, TypeOK, StartContainer
  <2>7. QED
    BY <1>3, <1>5, <1>6, <2>3, <2>4, <2>5, <2>6, GoStep
<1>11. QED
  BY <1>8, <1>9, <1>10 DEF StartContainer, StartFails

\* create_postgres_base_backup copies the data and changes nothing else.
LEMMA BaseBackupStep ==
  ASSUME IInv, NEW i \in Handlers, BaseBackup(i), UNCHANGED kind
  PROVE  IInv'
<1>1. FilesOK
  BY FilesAreOK
<1>2. FilesOK'
  BY <1>1 DEF FilesOK, WritesKept, BaseBackup, ghosts
<1>3. h[i].pc \in Untouched /\ h[i].op = "backup"
  BY DEF BaseBackup, Untouched, IInv, HandlersInv
<1>4. PICK ok \in BOOLEAN : Finish(i, ok)
  BY DEF BaseBackup
<1>5. QuietEffect(i, ok)
  BY <1>3, <1>4 DEF QuietEffect, BaseBackup
<1>6. QED
  BY <1>2, <1>5, QuietStep

\* create_postgres_restore_point records the data as it is.
LEMMA RestorePointStep ==
  ASSUME IInv, NEW i \in Handlers, RestorePoint(i), UNCHANGED kind
  PROVE  IInv'
<1>1. FilesOK
  BY FilesAreOK
<1>2. FilesOK'
  BY <1>1 DEF FilesOK, WritesKept, RestorePoint, ghosts
<1>3. h[i].pc \in Untouched /\ h[i].op = "point"
  BY DEF RestorePoint, Untouched, IInv, HandlersInv
<1>4. PICK ok \in BOOLEAN : Finish(i, ok)
  BY DEF RestorePoint
<1>5. QuietEffect(i, ok)
  BY <1>3, <1>4 DEF QuietEffect, RestorePoint
<1>6. QED
  BY <1>2, <1>5, QuietStep

\* A handler goes on to stop the container, its copy still the row.
LEMMA ToStopStep ==
  ASSUME IInv, NEW i \in Handlers, h[i].pc \in Untouched,
         h[i].op \in {"move", "recover"}, Goto(i, "stop", h[i].copy),
         UNCHANGED <<kind, row, cont, files, ids, ops, crashes, pass, ghosts>>
  PROVE  IInv'
<1> USE DEF IInv
<1>0. /\ h[i] \in Requests /\ h[i].copy \in Rows /\ SoundRow(h[i].copy)
      /\ ids \in Nat /\ h \in [Handlers -> Requests] /\ h[i].pc # "idle"
  BY CopySound DEF Untouched
<1>a. /\ h'[i].pc = "stop" /\ h'[i].op = h[i].op /\ h'[i].copy = h[i].copy
      /\ h'[i].target = h[i].target
      /\ h' = [h EXCEPT ![i] = h'[i]]
      /\ h'[i] \in Requests'
      /\ UNCHANGED last
  <2>1. "stop" \in Pcs /\ ids' \in Nat /\ ids <= ids'
    BY <1>0 DEF Pcs
  <2>2. QED
    BY <1>0, <2>1, GotoEffect
<1>b. \A j \in Handlers \ {i} : h'[j] = h[j]
  BY <1>0, <1>a
<1>c. i \in Busy /\ Busy' = Busy
  BY <1>0, <1>a, <1>b DEF Busy
<1>d. FilesOK'
  BY FilesStay DEF ghosts
<1>e. Rows' = Rows /\ Requests' = Requests
  BY DEF Rows, Requests
<1>f. /\ overlap' = overlap /\ raced' = raced /\ stray' = stray
      /\ ~overlap => Busy = {i}
      /\ ~raced => Busy = {i}
  BY <1>c DEF GhostsInv, ghosts, left
<1>g. h'[i].pc \notin {"drop", "copy", "create", "wait"} /\ UNCHANGED points
  BY <1>a DEF files
<1>1. TypeOK'
  <2>1. h' \in [Handlers -> Requests']
    BY <1>0, <1>a, <1>e
  <2>2. QED
    BY <2>1, <1>d, <1>e DEF AnswersAreTrue, TypeOK, FilesOK, ghosts, left
<1>2. HandlersInv'
  BY <1>0, <1>a, <1>b, <1>c DEF HandlersInv, Busy
<1>3. GhostsInv'
  BY <1>a, <1>c DEF GhostsInv, ghosts
<1>4. Tracked'
  <2>1. ~overlap => row # Null /\ h[i].copy = row /\ cont \in {Null, stray, row.cid}
    BY <1>c DEF Tracked
  <2>2. QED
    BY <1>a, <1>c, <1>f, <1>g, <2>1 DEF Tracked
<1>5. Healed'
  <2>1. RowIsTrue' = RowIsTrue
    BY DEF RowIsTrue, ghosts, left
  <2>2. QED
    BY <1>a, <1>b, <1>c, <2>1 DEF Healed, Untouched, ghosts
<1>6. TargetsKept'
  BY <1>a, <1>c, <1>f, <1>g DEF TargetsKept
<1>7. WritesInv'
  BY <1>c, <1>d, <1>f, <1>g DEF WritesInv, FilesOK
<1>8. AnswersAreTrue'
  BY <1>1, <1>c DEF AnswersAreTrue, Quiet
<1>9. RecoveryIsSafe'
  BY <1>a, <1>c, <1>d DEF RecoveryIsSafe, RecoveredToTarget, FilesOK, GhostsInv, ghosts
<1>10. QED
  BY <1>1, <1>2, <1>3, <1>4, <1>5, <1>6, <1>7, <1>8, <1>9

\* recover_postgres_to_target ends without a backup, or goes on to the stop.
LEMMA RecoverBeginStep ==
  ASSUME IInv, NEW i \in Handlers, RecoverBegin(i), UNCHANGED kind
  PROVE  IInv'
<1>1. h[i].pc \in Untouched /\ h[i].op = "recover"
  BY DEF RecoverBegin, Untouched, IInv, HandlersInv
<1>2. FilesOK'
  BY FilesStay DEF RecoverBegin, ghosts
<1>3. CASE Finish(i, FALSE)
  <2>1. QuietEffect(i, FALSE)
    BY <1>1, <1>3 DEF QuietEffect, RecoverBegin
  <2>2. QED
    BY <1>2, <2>1, QuietStep
<1>4. CASE Goto(i, "stop", h[i].copy)
  BY <1>1, <1>4, ToStopStep DEF RecoverBegin
<1>5. QED
  BY <1>3, <1>4 DEF RecoverBegin

\* archive_existing_data_dir sets the latest write aside.
LEMMA ArchiveDataStep ==
  ASSUME IInv, NEW i \in Handlers, ArchiveData(i), UNCHANGED kind
  PROVE  IInv'
<1>0. /\ h[i] \in Requests /\ h[i].copy \in Rows /\ SoundRow(h[i].copy)
      /\ ids \in Nat /\ h[i].pc = "archive" /\ h[i].op = "recover"
  BY CopySound DEF ArchiveData, IInv, HandlersInv
<1>1. PlacesOK /\ FilesOK
  BY PlacesStay, FilesAreOK
<1>2. ids' = ids /\ cont' = cont /\ row' = row /\ points' = points
  BY DEF ArchiveData
<1>3. PlacesOK' /\ ids <= ids' /\ ids' \in Nat
  BY <1>0, <1>1, <1>2 DEF PlacesOK, Rows
<1>4. FilesOK'
  BY <1>1 DEF FilesOK, WritesKept, ArchiveData
<1>5. CASE EndUnsaved(i)
  <2>1. EndEffect(i)
    BY <1>0, <1>5 DEF EndEffect, EndUnsaved, ArchiveData
  <2>2. QED
    BY <1>3, <1>4, <2>1, EndStep
<1>6. CASE Goto(i, "copy", h[i].copy) /\ data' = Null /\ UNCHANGED left
  <2>1. "copy" \in Pcs /\ h[i].pc # "idle"
    BY <1>0 DEF Pcs
  <2>2. /\ h'[i].pc = "copy" /\ h'[i].op = h[i].op /\ h'[i].copy = h[i].copy
        /\ h'[i].target = h[i].target
        /\ h' = [h EXCEPT ![i] = h'[i]]
        /\ h'[i] \in Requests'
        /\ UNCHANGED last
    BY <1>0, <1>3, <1>6, <2>1, GotoEffect
  <2>3. GoEffect(i, "copy", h[i].copy)
    BY <1>0, <2>2 DEF GoEffect, ArchiveData
  <2>4. RecoveryGoesOn(i)
    BY <1>6, <2>2 DEF RecoveryGoesOn
  <2>5. {stray', torn'} \subseteq 1 .. ids' \cup {Null}
    BY <1>2, <1>6 DEF left, IInv, AnswersAreTrue, TypeOK
  <2>6. QED
    BY <1>2, <1>3, <1>4, <2>2, <2>3, <2>4, <2>5, GoStep
<1>7. QED
  BY <1>5, <1>6 DEF ArchiveData

\* copy_dir_recursive writes into an empty directory.
LEMMA CopyBackupStep ==
  ASSUME IInv, NEW i \in Handlers, CopyBackup(i), UNCHANGED kind
  PROVE  IInv'
<1>0. /\ h[i] \in Requests /\ h[i].copy \in Rows /\ SoundRow(h[i].copy)
      /\ ids \in Nat /\ h[i].pc = "copy" /\ h[i].op = "recover"
  BY CopySound DEF CopyBackup, IInv, HandlersInv
<1>1. PlacesOK /\ FilesOK
  BY PlacesStay, FilesAreOK
<1>2. ids' = ids /\ cont' = cont /\ row' = row /\ points' = points
  BY DEF CopyBackup
<1>3. PlacesOK' /\ ids <= ids' /\ ids' \in Nat
  BY <1>0, <1>1, <1>2 DEF PlacesOK, Rows
<1>4. ~raced => written = 0 \/ written \in archived
  <2>1. i \in Busy
    BY <1>0 DEF Busy
  <2>2. ~raced => data = Null
    BY <1>0, <2>1 DEF IInv, WritesInv
  <2>3. written \in Nat
    BY <1>1 DEF FilesOK
  <2>4. QED
    BY <1>1, <2>2, <2>3 DEF FilesOK, WritesKept
<1>5. FilesOK' /\ UNCHANGED <<written, archived, raced>>
  BY <1>1, <1>4 DEF FilesOK, WritesKept, CopyBackup
<1>6. CASE EndUnsaved(i)
  <2>1. EndEffect(i)
    BY <1>0, <1>6 DEF EndEffect, EndUnsaved, CopyBackup
  <2>2. QED
    BY <1>3, <1>5, <2>1, EndStep
<1>7. CASE Goto(i, "create", h[i].copy) /\ UNCHANGED left
  <2>1. "create" \in Pcs /\ h[i].pc # "idle"
    BY <1>0 DEF Pcs
  <2>2. /\ h'[i].pc = "create" /\ h'[i].op = h[i].op /\ h'[i].copy = h[i].copy
        /\ h'[i].target = h[i].target
        /\ h' = [h EXCEPT ![i] = h'[i]]
        /\ h'[i] \in Requests'
        /\ UNCHANGED last
    BY <1>0, <1>3, <1>7, <2>1, GotoEffect
  <2>3. GoEffect(i, "create", h[i].copy)
    BY <1>0, <2>2 DEF GoEffect, CopyBackup
  <2>4. RecoveryGoesOn(i)
    BY <1>4, <1>5, <2>2 DEF RecoveryGoesOn
  <2>5. {stray', torn'} \subseteq 1 .. ids' \cup {Null}
    BY <1>2, <1>7 DEF left, IInv, AnswersAreTrue, TypeOK
  <2>6. QED
    BY <1>2, <1>3, <1>5, <2>2, <2>3, <2>4, <2>5, GoStep
<1>8. QED
  BY <1>6, <1>7 DEF CopyBackup

\* A handler ends, alone or not, and row and container fit.
DoneEffect(i, ok) ==
  /\ h[i].pc # "idle"
  /\ Finish(i, ok)
  /\ UNCHANGED <<kind, ops, crashes, pass, overlap, raced>>
  /\ ~overlap =>
        /\ cont' \in {Null, stray'} \/ (row' # Null /\ cont' = row'.cid)
        /\ kind = "db" /\ pass \in {"seen", "done"} => RowIsTrue'

\* What the answer of a handler that ends promises.
AnswerEffect(i, ok) ==
  ok /\ ~overlap =>
    /\ h[i].op \in {"create", "start", "restart", "restore", "recover"} =>
            row' # Null /\ row'.status = "running" /\ cont' = row'.cid
    /\ h[i].op = "stop" =>
            row' # Null /\ row'.status # "running" /\ cont' \in {Null, stray'}
    /\ h[i].op = "delete" => row' = Null /\ cont' \in {Null, stray'}
    /\ h[i].op = "recover" =>
            data' \in {h[i].target, written'} /\ h[i].target \in points'

\* An end whose row and container fit keeps the invariant.
LEMMA DoneStep ==
  ASSUME IInv, NEW i \in Handlers, NEW ok \in BOOLEAN, DoneEffect(i, ok),
         AnswerEffect(i, ok), PlacesOK', ids' = ids, FilesOK',
         {stray', torn'} \subseteq 1 .. ids \cup {Null}
  PROVE  IInv'
<1> USE DEF IInv
<1>0. TypeOK /\ h[i] \in Requests /\ ids \in Nat
  BY DEF AnswersAreTrue, TypeOK
<1>a. Rows' = Rows /\ Requests' = Requests
  BY DEF Rows, Requests
<1>b. h' = [h EXCEPT ![i] = Idle] /\ h'[i] = Idle
  BY <1>0 DEF DoneEffect, Finish, TypeOK
<1>c. \A j \in Handlers \ {i} : h'[j] = h[j]
  BY <1>0, <1>b DEF TypeOK
<1>d. i \in Busy /\ Busy' = Busy \ {i}
  BY <1>b, <1>c DEF Busy, DoneEffect, Idle, Request
<1>e. ~overlap' => Busy' = {}
  BY <1>d DEF GhostsInv, DoneEffect
<1>f. last'.ok = ok /\ last'.op = h[i].op /\ last'.target = h[i].target
  BY DEF DoneEffect, Finish
<1>1. TypeOK'
  <2>1. Idle \in Requests'
    BY <1>0, <1>a DEF Idle, Request, Requests, Pcs
  <2>2. h' \in [Handlers -> Requests']
    BY <1>0, <1>a, <1>b, <2>1 DEF TypeOK
  <2>3. QED
    BY <1>0, <2>2 DEF TypeOK, PlacesOK, FilesOK, DoneEffect
<1>2. HandlersInv'
  BY <1>b, <1>c DEF HandlersInv, DoneEffect, Idle, Request
<1>3. GhostsInv'
  BY <1>d, <1>e DEF GhostsInv, DoneEffect
<1>4. Tracked'
  BY <1>e DEF Tracked, DoneEffect
<1>5. Healed'
  BY <1>e DEF Healed, DoneEffect
<1>6. TargetsKept'
  BY <1>e DEF TargetsKept
<1>7. WritesInv'
  BY <1>e DEF WritesInv, FilesOK, GhostsInv, DoneEffect
<1>8. AnswersAreTrue'
  BY <1>1, <1>f DEF AnswersAreTrue, AnswerEffect, DoneEffect, Quiet
<1>9. RecoveryIsSafe'
  BY <1>f DEF RecoveryIsSafe, RecoveredToTarget, FilesOK, AnswerEffect, DoneEffect
<1>10. QED
  BY <1>1, <1>2, <1>3, <1>4, <1>5, <1>6, <1>7, <1>8, <1>9

\* What stop_database and stop_queue have in common: the container the copy
\* names is gone or a stray one, and q is the copy that says so.
StopEffect(i, q) ==
  /\ h[i].pc = "stop"
  /\ q \in Rows /\ SoundRow(q) /\ q.cid = Null
  /\ \/ /\ RemoveContainer(i)
        /\ \/ h[i].op = "stop" /\ row' = q /\ Finish(i, TRUE)
           \/ h[i].op = "move" /\ row' = q /\ Finish(i, FALSE)
           \/ /\ h[i].op \in {"restart", "move"} /\ Goto(i, "create", q)
              /\ row' \in {row, q}
           \/ h[i].op = "recover" /\ Goto(i, "archive", q) /\ UNCHANGED row
           \/ h[i].op = "delete" /\ Goto(i, "drop", q) /\ UNCHANGED row
        /\ UNCHANGED torn
     \/ StopFails(i)
  /\ UNCHANGED <<kind, files, ids, ops, crashes, pass, overlap, raced>>

\* stop_database: of the copy's row, status and id are reset, and a restart or
\* a move saves Starting.
LEMMA StopDatabaseEffect ==
  ASSUME IInv, NEW i \in Handlers, StopDatabase(i), UNCHANGED kind
  PROVE  \E q \in Rows : StopEffect(i, q)
<1> DEFINE c == h[i].copy
           r == Stopped(c)
           s == MarkStarting(r)
           m == Moved(s)
           n == Moved(r)
<1>1. c \in Rows /\ SoundRow(c) /\ h[i].pc = "stop"
  BY CopySound DEF StopDatabase
<1>2. r \in Rows /\ SoundRow(r) /\ r.cid = Null
  BY <1>1, RowSteps
<1>3. s \in Rows /\ SoundRow(s) /\ s.cid = Null
  BY <1>2, RowSteps
<1>4. m \in Rows /\ SoundRow(m) /\ m.cid = Null
  BY <1>3, RowSteps
<1>5. n \in Rows /\ SoundRow(n) /\ n.cid = Null
  BY <1>2, RowSteps
<1>6. CASE h[i].op = "restart"
  <2>1. StopEffect(i, s)
    BY <1>1, <1>3, <1>6 DEF StopEffect, StopDatabase, Save
  <2>2. QED
    BY <1>3, <2>1
<1>7. CASE h[i].op = "move" /\ ~(Save(n) /\ Finish(i, FALSE))
  <2>1. StopEffect(i, m)
    BY <1>1, <1>4, <1>7 DEF StopEffect, StopDatabase, Save
  <2>2. QED
    BY <1>4, <2>1
<1>8. CASE h[i].op = "move" /\ Save(n) /\ Finish(i, FALSE)
  <2>1. CASE StopFails(i)
    <3>1. StopEffect(i, m)
      BY <1>1, <1>4, <2>1 DEF StopEffect, StopDatabase
    <3>2. QED
      BY <1>4, <3>1
  <2>2. CASE RemoveContainer(i) /\ UNCHANGED torn
    <3>1. StopEffect(i, n)
      BY <1>1, <1>5, <1>8, <2>2 DEF StopEffect, StopDatabase, Save
    <3>2. QED
      BY <1>5, <3>1
  <2>3. QED
    BY <2>1, <2>2 DEF StopDatabase
<1>9. CASE h[i].op \notin {"restart", "move"}
  <2>1. StopEffect(i, r)
    BY <1>1, <1>2, <1>9 DEF StopEffect, StopDatabase, Save
  <2>2. QED
    BY <1>2, <2>1
<1>10. QED
  BY <1>6, <1>7, <1>8, <1>9

\* stop_queue: a row that names no container stays as it is.
LEMMA StopQueueEffect ==
  ASSUME IInv, NEW i \in Handlers, StopQueue(i), UNCHANGED kind
  PROVE  \E q \in Rows : StopEffect(i, q)
<1> DEFINE c == h[i].copy
           r == IF c.cid # Null THEN Stopped(c) ELSE c
           m == Moved(r)
<1>1. c \in Rows /\ SoundRow(c) /\ h[i].pc = "stop"
  BY CopySound DEF StopQueue
<1>2. r \in Rows /\ SoundRow(r) /\ r.cid = Null
  BY <1>1, RowSteps
<1>3. m \in Rows /\ SoundRow(m) /\ m.cid = Null
  BY <1>2, RowSteps
<1>4. CASE h[i].op = "move"
  <2>1. StopEffect(i, m)
    BY <1>1, <1>3, <1>4 DEF StopEffect, StopQueue, Save
  <2>2. QED
    BY <1>3, <2>1
<1>5. CASE h[i].op # "move"
  <2>1. StopEffect(i, r)
    BY <1>1, <1>2, <1>5 DEF StopEffect, StopQueue, Save
  <2>2. QED
    BY <1>2, <2>1
<1>6. QED
  BY <1>4, <1>5

\* A stopped container is gone when the handler goes on, or docker refused to
\* remove it, and the rows saved name none.
LEMMA StopStep ==
  ASSUME IInv, NEW i \in Handlers, NEW q \in Rows, StopEffect(i, q)
  PROVE  IInv'
<1>0. /\ h[i] \in Requests /\ h[i].copy \in Rows /\ SoundRow(h[i].copy)
      /\ ids \in Nat /\ h[i].pc = "stop" /\ i \in Busy
  BY CopySound DEF StopEffect, Busy
<1>1. PlacesOK /\ FilesOK' /\ ids' = ids /\ points' = points /\ Rows' = Rows
  BY PlacesStay, FilesStay DEF StopEffect, files, Rows
<1>2. {cont, stray, torn} \subseteq 1 .. ids \cup {Null} /\ q # Null
  BY <1>0, RowsNotNull DEF IInv, AnswersAreTrue, TypeOK
<1>3. ids <= ids' /\ ids' \in Nat
  BY <1>0, <1>1
<1>4. CASE StopFails(i)
  <2>1. cont' \in {cont, Null} /\ row' = row
    BY <1>4 DEF StopFails, Removed
  <2>2. PlacesOK'
    BY <1>1, <2>1 DEF PlacesOK
  <2>3. EndEffect(i)
    BY <1>0, <1>4 DEF EndEffect, StopFails, EndUnsaved, StopEffect
  <2>4. QED
    BY <1>1, <1>3, <2>2, <2>3, EndStep
<1>5. ASSUME RemoveContainer(i), UNCHANGED torn
      PROVE  /\ cont' \in {cont, Null}
             /\ {stray', torn'} \subseteq 1 .. ids \cup {Null}
             /\ ~overlap => cont' \in {Null, stray'}
  <2>1. cont' \in {cont, Null} /\ {stray', torn'} \subseteq 1 .. ids \cup {Null}
    BY <1>2, <1>5 DEF RemoveContainer, Removed
  <2>2. ASSUME ~overlap PROVE cont' \in {Null, stray'}
    <3>1. h[i].copy = row /\ cont \in {Null, stray, row.cid}
      BY <1>0, <2>2 DEF IInv, Tracked, Untouched
    <3>2. QED
      BY <1>5, <3>1 DEF RemoveContainer, Removed
  <2>3. QED
    BY <2>1, <2>2
<1>6. ASSUME RemoveContainer(i), UNCHANGED torn, row' = q, NEW ok \in BOOLEAN,
             Finish(i, ok), ok => h[i].op = "stop"
      PROVE  IInv'
  <2>1. /\ cont' \in {cont, Null}
        /\ {stray', torn'} \subseteq 1 .. ids \cup {Null}
        /\ ~overlap => cont' \in {Null, stray'}
    BY <1>5, <1>6
  <2>2. PlacesOK'
    BY <1>1, <1>6, <2>1 DEF PlacesOK, StopEffect
  <2>3. q.status # "running" /\ row' # Null
    BY <1>2, <1>6 DEF StopEffect, SoundRow
  <2>4. RowIsTrue'
    BY <1>6, <2>3 DEF RowIsTrue
  <2>5. DoneEffect(i, ok)
    BY <1>0, <1>6, <2>1, <2>4 DEF DoneEffect, StopEffect
  <2>6. AnswerEffect(i, ok)
    BY <1>6, <2>1, <2>3 DEF AnswerEffect
  <2>7. QED
    BY <1>1, <1>6, <2>1, <2>2, <2>5, <2>6, DoneStep
<1>7. ASSUME RemoveContainer(i), UNCHANGED torn, NEW pc \in {"create", "archive", "drop"},
             Goto(i, pc, q), row' \in {row, q},
             pc = "create" => h[i].op \in {"restart", "move"},
             pc = "archive" => h[i].op = "recover",
             pc = "drop" => h[i].op = "delete"
      PROVE  IInv'
  <2>1. /\ cont' \in {cont, Null}
        /\ {stray', torn'} \subseteq 1 .. ids \cup {Null}
        /\ ~overlap => cont' \in {Null, stray'}
    BY <1>5, <1>7
  <2>2. PlacesOK'
    BY <1>1, <1>7, <2>1 DEF PlacesOK, StopEffect
  <2>3. pc \in Pcs /\ h[i].pc # "idle"
    BY <1>0, <1>7 DEF Pcs
  <2>4. /\ h'[i].pc = pc /\ h'[i].op = h[i].op /\ h'[i].copy = q
        /\ h'[i].target = h[i].target
        /\ h' = [h EXCEPT ![i] = h'[i]]
        /\ h'[i] \in Requests'
        /\ UNCHANGED last
    BY <1>3, <1>7, <2>3, GotoEffect
  <2>5. GoEffect(i, pc, q)
    BY <1>0, <1>7, <2>1, <2>4 DEF GoEffect, StopEffect
  <2>6. RecoveryGoesOn(i)
    BY <1>7, <2>4 DEF RecoveryGoesOn
  <2>7. {stray', torn'} \subseteq 1 .. ids' \cup {Null}
    BY <1>1, <2>1
  <2>8. QED
    BY <1>1, <1>3, <2>2, <2>4, <2>5, <2>6, <2>7, GoStep
<1>8. QED
  BY <1>4, <1>6, <1>7 DEF StopEffect

\* delete_service: data, restore points and row go together, or the handler is
\* cut short before the row.
LEMMA DropDataStep ==
  ASSUME IInv, NEW i \in Handlers, DropData(i), UNCHANGED kind
  PROVE  IInv'
<1>0. /\ h[i].pc = "drop" /\ i \in Busy /\ h[i].op = "delete"
  BY DEF DropData, Busy, IInv, HandlersInv
<1>1. PlacesOK /\ FilesOK
  BY PlacesStay, FilesAreOK
<1>2. FilesOK'
  <2>1. UNCHANGED raced
    BY DEF DropData
  <2>2. CASE UNCHANGED files
    BY <2>1, <2>2, FilesStay
  <2>3. CASE /\ data' = Null /\ archived' = {} /\ backup' = Null /\ points' = {}
             /\ written' = 0
    BY <2>3 DEF FilesOK, WritesKept
  <2>4. QED
    BY <2>2, <2>3 DEF DropData
<1>3. CASE UNCHANGED row /\ EndUnsaved(i)
  <2>1. PlacesOK' /\ ids <= ids'
    BY <1>1, <1>3 DEF PlacesOK, DropData, Rows
  <2>2. EndEffect(i)
    BY <1>0, <1>3 DEF EndEffect, EndUnsaved, DropData
  <2>3. QED
    BY <1>2, <2>1, <2>2, EndStep
<1>4. CASE row' = Null /\ Finish(i, TRUE) /\ UNCHANGED left
  <2>1. PlacesOK' /\ ids' = ids
    BY <1>1, <1>4 DEF PlacesOK, DropData
  <2>2. ~overlap => cont' \in {Null, stray'}
    BY <1>0, <1>4 DEF IInv, Tracked, DropData, left
  <2>3. DoneEffect(i, TRUE) /\ AnswerEffect(i, TRUE)
    BY <1>0, <1>4, <2>2 DEF DoneEffect, AnswerEffect, DropData, RowIsTrue
  <2>4. {stray', torn'} \subseteq 1 .. ids \cup {Null}
    BY <1>4 DEF left, IInv, AnswersAreTrue, TypeOK
  <2>5. QED
    BY <1>2, <2>1, <2>3, <2>4, DoneStep
<1>5. QED
  BY <1>3, <1>4 DEF DropData

\* A start that is ready is saved with its container; a recovering server
\* refuses a directory that is newer than its target.
LEMMA SaveRunningStep ==
  ASSUME IInv, NEW i \in Handlers, SaveRunning(i), UNCHANGED kind
  PROVE  IInv'
<1>0. /\ h[i] \in Requests /\ h[i].copy \in Rows /\ ids \in Nat
      /\ h[i].pc = "wait" /\ i \in Busy /\ h[i].id # Null
      /\ h[i].op \in {"create", "start", "restart", "move", "restore", "recover"}
      /\ h[i].op = "recover" => h[i].target # Null
  BY CopySound DEF SaveRunning, Busy, IInv, HandlersInv
<1>1. PlacesOK /\ FilesOK
  BY PlacesStay, FilesAreOK
<1>2. row' = [status |-> "running", cid |-> h[i].id, group |-> h[i].copy.group]
  BY DEF SaveRunning, Save
<1>3. /\ row' \in Rows /\ SoundRow(row') /\ row'.cid = cont' /\ cont' = cont
      /\ row'.status = "running" /\ ids' = ids /\ Rows' = Rows
  BY <1>0, <1>2 DEF Rows, SoundRow, Requests, Statuses, SaveRunning
<1>4. row' # Null
  BY <1>0, <1>3, RowsNotNull
<1>5. PlacesOK'
  BY <1>1, <1>3 DEF PlacesOK
<1>6. FilesOK'
  <2>0. UNCHANGED <<archived, backup, points, written, raced>>
    BY DEF SaveRunning, ghosts
  <2>1. CASE h[i].op # "recover"
    BY <1>1, <2>0, <2>1 DEF FilesOK, WritesKept, SaveRunning, Replayed
  <2>2. CASE h[i].op = "recover"
    <3>1. /\ data' = h[i].target /\ data # Null /\ data <= h[i].target
          /\ h[i].target \in 0 .. MaxWrites
      BY <1>0, <2>2 DEF SaveRunning, Recoverable, Replayed, Requests
    <3>2. ASSUME ~raced
          PROVE  /\ h[i].target \in 0 .. written
                 /\ written = 0 \/ written \in archived
      <4>1. ~overlap /\ written \in Nat
        BY <1>1, <3>2 DEF IInv, GhostsInv, FilesOK
      <4>2. h[i].target \in 0 .. written
        BY <1>0, <1>1, <2>2, <3>2, <4>1 DEF IInv, TargetsKept, FilesOK
      <4>3. \/ written = 0
            \/ written \in archived
            \/ data = written /\ h[i].target < written
        BY <1>0, <2>2, <3>2 DEF IInv, WritesInv
      <4>4. QED
        BY <3>1, <4>1, <4>2, <4>3
    <3>3. QED
      BY <1>1, <2>0, <3>1, <3>2 DEF FilesOK, WritesKept
  <2>3. QED
    BY <2>1, <2>2
<1>7. DoneEffect(i, TRUE)
  BY <1>0, <1>3, <1>4 DEF DoneEffect, SaveRunning, RowIsTrue, ghosts
<1>8. AnswerEffect(i, TRUE)
  <2>1. h[i].op = "recover" /\ ~overlap =>
            data' = h[i].target /\ h[i].target \in points'
    BY <1>0 DEF SaveRunning, Replayed, IInv, TargetsKept
  <2>2. QED
    BY <1>0, <1>3, <1>4, <2>1 DEF AnswerEffect
<1>9. {stray', torn'} \subseteq 1 .. ids \cup {Null}
  BY DEF SaveRunning, ghosts, left, IInv, AnswersAreTrue, TypeOK
<1>10. QED
  BY <1>3, <1>5, <1>6, <1>7, <1>8, <1>9, DoneStep

\* move_service: what does not run only changes its group.
LEMMA MoveCheckStep ==
  ASSUME IInv, NEW i \in Handlers, MoveCheck(i), UNCHANGED kind
  PROVE  IInv'
<1>0. /\ h[i] \in Requests /\ h[i].copy \in Rows /\ SoundRow(h[i].copy)
      /\ ids \in Nat /\ h[i].pc = "check" /\ h[i].op = "move" /\ i \in Busy
  BY CopySound DEF MoveCheck, Busy
<1>1. CASE Goto(i, "stop", h[i].copy) /\ UNCHANGED row
  <2>1. h[i].pc \in Untouched /\ h[i].op \in {"move", "recover"}
    BY <1>0 DEF Untouched
  <2>2. UNCHANGED <<kind, row, cont, files, ids, ops, crashes, pass, ghosts>>
    BY <1>1 DEF MoveCheck
  <2>3. QED
    BY <1>1, <2>1, <2>2, ToStopStep
<1>2. CASE row' = Moved(h[i].copy) /\ Finish(i, TRUE)
  <2>1. /\ row' \in Rows /\ SoundRow(row') /\ row'.cid = h[i].copy.cid
        /\ row'.status = h[i].copy.status
    BY <1>0, <1>2, RowSteps DEF Moved
  <2>2. /\ row' # Null /\ ids' = ids /\ cont' = cont /\ Rows' = Rows
        /\ stray' = stray /\ torn' = torn
    BY <1>0, <2>1, RowsNotNull DEF MoveCheck, Rows, ghosts, left
  <2>3. PlacesOK /\ FilesOK'
    BY PlacesStay, FilesStay DEF MoveCheck, ghosts
  <2>4. PlacesOK'
    BY <2>1, <2>2, <2>3 DEF PlacesOK
  <2>5. ~overlap => row # Null /\ h[i].copy = row /\ cont \in {Null, stray, row.cid}
    BY <1>0 DEF IInv, Tracked, Untouched
  <2>6. ~overlap /\ kind = "db" /\ pass \in {"seen", "done"} => RowIsTrue
    BY <1>0 DEF IInv, Healed, Untouched
  <2>7. DoneEffect(i, TRUE)
    BY <1>0, <1>2, <2>1, <2>2, <2>5, <2>6 DEF DoneEffect, MoveCheck, RowIsTrue, ghosts
  <2>8. AnswerEffect(i, TRUE)
    BY <1>0 DEF AnswerEffect
  <2>9. {stray', torn'} \subseteq 1 .. ids \cup {Null}
    BY <2>2 DEF IInv, AnswersAreTrue, TypeOK
  <2>10. QED
    BY <2>2, <2>3, <2>4, <2>7, <2>8, <2>9, DoneStep
<1>3. QED
  BY <1>1, <1>2 DEF MoveCheck, Save

\* create_template_service: the first request of a service is alone, on a row
\* of its own.
LEMMA CreateStep ==
  ASSUME IInv, NEW i \in Handlers, Create(i), UNCHANGED kind
  PROVE  IInv'
<1> USE DEF IInv
<1>0. TypeOK /\ ids \in Nat /\ h \in [Handlers -> Requests]
  BY DEF AnswersAreTrue, TypeOK
<1>a. /\ row' \in Rows /\ row'.cid = Null /\ row'.status \in {"starting", "pending"}
      /\ SoundRow(row') /\ ids' = ids /\ Rows' = Rows /\ Requests' = Requests
  BY DEF Create, Save, Rows, Requests, SoundRow, Statuses
<1>b. row' # Null /\ cont' = Null /\ stray' = Null /\ torn' = Null
  BY <1>0, <1>a, RowsNotNull DEF Create
<1>c. h'[i] = Request("create", "create", row', Null, Null)
  BY <1>0 DEF Create, Save
<1>d. \A j \in Handlers \ {i} : h'[j] = h[j]
  BY <1>0 DEF Create
<1>e. Busy' = {i} /\ h'[i].pc = "create" /\ h'[i].op = "create"
  BY <1>c, <1>d DEF Busy, Create, Request
<1>1. TypeOK'
  <2>1. h'[i] \in Requests'
    BY <1>0, <1>a, <1>c DEF Request, Requests, Pcs
  <2>2. h' = [h EXCEPT ![i] = h'[i]]
    BY <1>0 DEF Create
  <2>3. h' \in [Handlers -> Requests']
    BY <1>0, <1>a, <2>1, <2>2
  <2>4. ops' \in 0 .. MaxOps /\ crashes' \in 0 .. MaxCrashes /\ pass' \in Passes
    BY <1>0 DEF TypeOK, Create
  <2>5. /\ {data', backup'} \subseteq 0 .. MaxWrites \cup {Null}
        /\ archived' \subseteq 0 .. MaxWrites /\ points' \subseteq 0 .. MaxWrites
        /\ written' \in 0 .. MaxWrites
        /\ overlap' \in BOOLEAN /\ raced' \in BOOLEAN
    <3>1. 0 \in 0 .. MaxWrites
      OBVIOUS
    <3>2. /\ data' = Null /\ backup' = Null /\ archived' = {} /\ points' = {}
          /\ written' = 0 /\ overlap' = FALSE /\ raced' = FALSE
      BY DEF Create
    <3>3. QED
      BY <3>1, <3>2
  <2>6. kind' \in Kinds /\ {cont', stray', torn'} \subseteq 1 .. ids' \cup {Null}
    BY <1>0, <1>b DEF TypeOK
  <2>7. QED
    BY <1>0, <1>a, <1>b, <2>3, <2>4, <2>5, <2>6 DEF TypeOK
<1>2. HandlersInv'
  BY <1>a, <1>b, <1>c, <1>d DEF HandlersInv, Request
<1>3. GhostsInv'
  BY <1>e DEF GhostsInv, Create
<1>4. Tracked'
  BY <1>e DEF Tracked, Untouched
<1>5. Healed'
  BY <1>e DEF Healed, Untouched
<1>6. TargetsKept'
  BY <1>e DEF TargetsKept
<1>7. WritesInv'
  BY <1>e DEF WritesInv, Create
<1>8. AnswersAreTrue'
  BY <1>1, <1>e DEF AnswersAreTrue, Quiet
<1>9. RecoveryIsSafe'
  BY DEF RecoveryIsSafe, RecoveredToTarget, WritesKept, Create
<1>10. QED
  BY <1>1, <1>2, <1>3, <1>4, <1>5, <1>6, <1>7, <1>8, <1>9

\* A handler begins on the row as it is, for a request or for the startup pass.
BeginEffect(i, pc, op, t) ==
  /\ h[i].pc = "idle" /\ row # Null
  /\ h' = [h EXCEPT ![i] = Request(pc, op, row, Null, t)]
  /\ pc \in Untouched /\ op \in UserOps \cup {"restore"}
  /\ pc = "check" => op \in {"start", "move", "restore"}
  /\ pc = "stop" => op \in {"stop", "restart", "delete"}
  /\ pc \in {"backup", "point", "recover"} => op = pc
  /\ op \in {"backup", "point", "recover", "restore"} => kind = "db"
  /\ t \in points \cup {Null} /\ (op = "recover" => t # Null)
  /\ ops' \in 0 .. MaxOps
  /\ last' = Null
  /\ Together
  /\ pass' \in Passes
  /\ pass' = pass \/ op = "restore"
  /\ UNCHANGED <<kind, row, cont, files, ids, crashes>>

\* A handler that begins alone finds what the last one left; beside another one
\* nothing is said until the next one is alone.
LEMMA BeginStep ==
  ASSUME IInv, NEW i \in Handlers, NEW pc, NEW op, NEW t, BeginEffect(i, pc, op, t)
  PROVE  IInv'
<1> USE DEF IInv
<1>0. TypeOK /\ ids \in Nat /\ h \in [Handlers -> Requests]
  BY DEF AnswersAreTrue, TypeOK
<1>a. /\ row \in Rows /\ SoundRow(row) /\ row' = row /\ cont' = cont /\ ids' = ids
      /\ Rows' = Rows /\ Requests' = Requests /\ kind' = kind
  BY <1>0 DEF TypeOK, BeginEffect, Rows, Requests
<1>c. /\ h'[i] = Request(pc, op, row, Null, t)
      /\ h'[i].pc = pc /\ h'[i].op = op /\ h'[i].copy = row /\ h'[i].target = t
  BY <1>0 DEF BeginEffect, Request
<1>d. \A j \in Handlers \ {i} : h'[j] = h[j]
  BY <1>0 DEF BeginEffect
<1>e. Busy' = Busy \cup {i} /\ pc # "idle"
  BY <1>c, <1>d DEF Busy, BeginEffect, Untouched
<1>f. /\ overlap' = (Busy # {}) /\ (~raced' => ~raced /\ Busy = {})
      /\ ~overlap' => Busy' = {i}
  BY <1>e DEF BeginEffect, Together
<1>g. /\ {stray', torn'} \subseteq 1 .. ids' \cup {Null}
      /\ ~overlap' => cont \in {Null, stray', row.cid}
  <2>1. CASE overlap /\ Busy = {}
    <3>1. stray' = StrayOf(row, cont) /\ torn' = TornOf(row, cont)
      BY <2>1 DEF BeginEffect, Together, Settle
    <3>2. QED
      BY <1>0, <1>a, <3>1 DEF StrayOf, TornOf, TypeOK, Rows, BeginEffect
  <2>2. CASE ~(overlap /\ Busy = {})
    <3>1. stray' = stray /\ torn' = torn
      BY <2>2 DEF BeginEffect, Together, left
    <3>2. QED
      BY <1>0, <1>a, <1>f, <2>2, <3>1 DEF TypeOK, Tracked
  <2>3. QED
    BY <2>1, <2>2
<1>h. FilesOK /\ UNCHANGED files
  BY FilesAreOK DEF BeginEffect
<1>1. TypeOK'
  <2>1. h'[i] \in Requests'
    <3>1. t \in 0 .. MaxWrites \cup {Null} /\ pc \in Pcs
      BY <1>0 DEF BeginEffect, TypeOK, Untouched, Pcs
    <3>2. QED
      BY <1>a, <1>c, <3>1 DEF Request, Requests, BeginEffect
  <2>2. h' = [h EXCEPT ![i] = h'[i]]
    BY <1>0 DEF BeginEffect
  <2>3. h' \in [Handlers -> Requests']
    BY <1>0, <1>a, <2>1, <2>2
  <2>4. overlap' \in BOOLEAN /\ raced' \in BOOLEAN
    BY DEF BeginEffect, Together
  <2>5. kind' \in Kinds /\ crashes' \in 0 .. MaxCrashes /\ cont' \in 1 .. ids' \cup {Null}
    BY <1>0, <1>a DEF TypeOK, BeginEffect
  <2>6. QED
    BY <1>0, <1>a, <1>g, <1>h, <2>3, <2>4, <2>5 DEF TypeOK, BeginEffect, FilesOK, files
<1>2. HandlersInv'
  <2>1. h'[i].pc \notin {"idle", "create", "wait", "fail", "drop", "archive", "copy"}
        /\ op # "none"
    BY <1>c DEF BeginEffect, Untouched, UserOps
  <2>2. QED
    BY <1>a, <1>c, <1>d, <2>1 DEF HandlersInv, BeginEffect
<1>3. GhostsInv'
  BY <1>e, <1>f DEF GhostsInv, BeginEffect, Together
<1>4. Tracked'
  <2>1. pc # "drop" /\ row # Null
    BY DEF BeginEffect, Untouched
  <2>2. QED
    BY <1>a, <1>c, <1>f, <1>g, <2>1 DEF Tracked
<1>5. Healed'
  <2>1. SUFFICES ASSUME kind = "db", pass \in {"seen", "done"}, ~overlap', pass' = pass,
                        op # "restore"
                 PROVE  RowIsTrue'
    BY <1>a, <1>c, <1>f DEF Healed, BeginEffect
  <2>2. CASE overlap
    <3>1. torn' = TornOf(row, cont)
      BY <1>f, <2>1, <2>2 DEF BeginEffect, Together, Settle
    <3>2. QED
      BY <1>a, <3>1 DEF TornOf, RowIsTrue, BeginEffect
  <2>3. CASE ~overlap
    <3>1. stray' = stray /\ torn' = torn /\ Busy = {}
      BY <1>f, <2>1, <2>3 DEF BeginEffect, Together, left
    <3>2. RowIsTrue
      BY <2>1, <2>3, <3>1 DEF Healed
    <3>3. QED
      BY <1>a, <3>1, <3>2 DEF RowIsTrue
  <2>4. QED
    BY <2>2, <2>3
<1>6. TargetsKept'
  BY <1>c, <1>f, <1>h DEF TargetsKept, BeginEffect, files
<1>7. WritesInv'
  <2>1. SUFFICES ASSUME ~raced' PROVE WritesInv'
    BY DEF WritesInv
  <2>2. Busy' = {i} /\ h'[i].pc \notin {"copy", "create", "wait"} /\ ~raced
    BY <1>c, <1>e, <1>f, <2>1 DEF BeginEffect, Untouched
  <2>3. QED
    BY <1>h, <2>2 DEF WritesInv, FilesOK, files
<1>8. AnswersAreTrue'
  BY <1>1, <1>e DEF AnswersAreTrue, Quiet
<1>9. RecoveryIsSafe'
  <2>1. last' = Null /\ (~raced' => ~raced)
    BY <1>f DEF BeginEffect
  <2>2. QED
    BY <1>h, <2>1 DEF RecoveryIsSafe, RecoveredToTarget, WritesKept, FilesOK, files
<1>10. QED
  BY <1>1, <1>2, <1>3, <1>4, <1>5, <1>6, <1>7, <1>8, <1>9

\* restore_missing_containers: what it leaves alone was listed or is not
\* recorded as running.
LEMMA RestoreMissingStep ==
  ASSUME IInv, NEW i \in Handlers, RestoreMissing(i), UNCHANGED kind
  PROVE  IInv'
<1> USE DEF IInv
<1>0. TypeOK /\ h[i].pc = "idle"
  BY DEF AnswersAreTrue, RestoreMissing
<1>1. CASE /\ kind = "db" /\ row # Null
           /\ h' = [h EXCEPT ![i] = Request("check", "restore", row, Null, Null)]
           /\ last' = Null
           /\ Together
  <2>1. ops' \in 0 .. MaxOps /\ pass' \in Passes
    BY <1>0 DEF TypeOK, RestoreMissing, Passes
  <2>2. BeginEffect(i, "check", "restore", Null)
    BY <1>0, <1>1, <2>1 DEF BeginEffect, RestoreMissing, Untouched
  <2>3. QED
    BY <2>2, BeginStep
<1>2. CASE /\ UNCHANGED <<h, last, ghosts>>
           /\ kind = "db" /\ pass = "missing" /\ row # Null => row.status # "running"
  <2>1. /\ UNCHANGED <<kind, row, cont, ids, h, ops, crashes, last, overlap, raced>>
        /\ UNCHANGED <<stray, torn>> /\ UNCHANGED files
    BY <1>2 DEF RestoreMissing, ghosts, left
  <2>2. Busy' = Busy /\ Rows' = Rows /\ Requests' = Requests /\ RowIsTrue' = RowIsTrue
    BY <2>1 DEF Busy, Rows, Requests, RowIsTrue
  <2>3. pass' \in Passes
    BY DEF RestoreMissing, Passes
  <2>4. TypeOK'
    BY <1>0, <2>1, <2>2, <2>3 DEF TypeOK, files
  <2>5. Healed'
    <3>1. CASE pass = "seen"
      BY <2>1, <2>2, <3>1 DEF Healed
    <3>2. CASE pass = "missing"
      BY <1>2, <2>1, <2>2, <3>2 DEF Healed, RowIsTrue
    <3>3. QED
      BY <3>1, <3>2 DEF RestoreMissing
  <2>6. /\ HandlersInv' /\ GhostsInv' /\ Tracked' /\ TargetsKept' /\ WritesInv'
    BY <2>1, <2>2 DEF HandlersInv, GhostsInv, Tracked, TargetsKept, WritesInv, files
  <2>7. AnswersAreTrue' /\ RecoveryIsSafe'
    BY <2>1, <2>2, <2>4 DEF AnswersAreTrue, Quiet, RecoveryIsSafe, WritesKept,
                            RecoveredToTarget, files
  <2>8. QED
    BY <2>4, <2>5, <2>6, <2>7
<1>3. QED
  BY <1>1, <1>2 DEF RestoreMissing

\* Listing the containers: one that is there is the row's or a stray one.
LEMMA RestoreListStep ==
  ASSUME IInv, RestoreList, UNCHANGED kind
  PROVE  IInv'
<1> USE DEF IInv
<1>0. TypeOK
  BY DEF AnswersAreTrue
<1>1. /\ UNCHANGED <<kind, row, cont, ids, h, ops, crashes, last, overlap, raced>>
      /\ UNCHANGED stray /\ UNCHANGED files /\ torn' = Null
  BY DEF RestoreList
<1>2. Busy' = Busy /\ Rows' = Rows /\ Requests' = Requests
  BY <1>1 DEF Busy, Rows, Requests
<1>3. pass' \in {"seen", "missing"} /\ (pass' = "seen" => cont # Null)
  BY DEF RestoreList
<1>4. TypeOK'
  BY <1>0, <1>1, <1>2, <1>3 DEF TypeOK, files, Passes
<1>5. Healed'
  BY <1>1, <1>2, <1>3 DEF Healed, Tracked, RowIsTrue
<1>6. /\ HandlersInv' /\ GhostsInv' /\ Tracked' /\ TargetsKept' /\ WritesInv'
  BY <1>1, <1>2 DEF HandlersInv, GhostsInv, Tracked, TargetsKept, WritesInv, files
<1>7. AnswersAreTrue' /\ RecoveryIsSafe'
  BY <1>1, <1>2, <1>4 DEF AnswersAreTrue, Quiet, RecoveryIsSafe, WritesKept,
                          RecoveredToTarget, files
<1>8. QED
  BY <1>4, <1>5, <1>6, <1>7

\* A pass that is skipped promises nothing.
LEMMA RestoreSkippedStep ==
  ASSUME IInv, RestoreSkipped, UNCHANGED kind
  PROVE  IInv'
<1> USE DEF IInv
<1>0. TypeOK
  BY DEF AnswersAreTrue
<1>1. /\ UNCHANGED <<kind, row, cont, ids, h, ops, crashes, last, overlap, raced>>
      /\ UNCHANGED <<stray, torn>> /\ UNCHANGED files /\ pass' = "skipped"
  BY DEF RestoreSkipped, ghosts, left
<1>2. Busy' = Busy /\ Rows' = Rows /\ Requests' = Requests
  BY <1>1 DEF Busy, Rows, Requests
<1>4. TypeOK'
  BY <1>0, <1>1, <1>2 DEF TypeOK, files, Passes
<1>5. Healed'
  BY <1>1 DEF Healed
<1>6. /\ HandlersInv' /\ GhostsInv' /\ Tracked' /\ TargetsKept' /\ WritesInv'
  BY <1>1, <1>2 DEF HandlersInv, GhostsInv, Tracked, TargetsKept, WritesInv, files
<1>7. AnswersAreTrue' /\ RecoveryIsSafe'
  BY <1>1, <1>2, <1>4 DEF AnswersAreTrue, Quiet, RecoveryIsSafe, WritesKept,
                          RecoveredToTarget, files
<1>8. QED
  BY <1>4, <1>5, <1>6, <1>7

\* A client writes: the directory holds the latest write.
LEMMA WriteDataStep ==
  ASSUME IInv, WriteData, UNCHANGED kind
  PROVE  IInv'
<1> USE DEF IInv
<1>0. TypeOK /\ FilesOK
  BY FilesAreOK DEF AnswersAreTrue
<1>1. /\ UNCHANGED <<kind, row, cont, ids, h, ops, crashes, last, overlap, raced>>
      /\ UNCHANGED <<stray, torn, pass, archived, backup, points>>
      /\ written' = written + 1 /\ data' = written + 1 /\ written < MaxWrites
      /\ \A i \in Handlers : h[i].pc = "wait" => h[i].op # "recover"
      /\ data # Null
  BY DEF WriteData, ghosts, left
<1>2. Busy' = Busy /\ Rows' = Rows /\ Requests' = Requests /\ RowIsTrue' = RowIsTrue
  BY <1>1 DEF Busy, Rows, Requests, RowIsTrue
<1>3. written' \in 0 .. MaxWrites /\ data' = written' /\ written \in Nat
  BY <1>0, <1>1 DEF FilesOK
<1>4. TypeOK'
  BY <1>0, <1>1, <1>2, <1>3 DEF TypeOK
<1>5. /\ HandlersInv' /\ GhostsInv' /\ Tracked' /\ TargetsKept' /\ Healed'
  BY <1>1, <1>2 DEF HandlersInv, GhostsInv, Tracked, TargetsKept, Healed
<1>6. WritesInv'
  <2>1. SUFFICES ASSUME ~raced PROVE WritesInv'
    BY <1>1 DEF WritesInv
  <2>2. /\ points' \subseteq 0 .. written'
        /\ {data', backup'} \subseteq 0 .. written' \cup {Null}
    BY <1>0, <1>1, <1>3, <2>1 DEF FilesOK
  <2>3. ASSUME NEW i \in Busy
        PROVE  /\ h[i].pc # "copy"
               /\ h[i].pc \in {"create", "wait"} /\ h[i].op = "recover" =>
                      h[i].target < written'
    <3>1. h[i].pc # "copy"
      BY <1>1, <2>1, <2>3 DEF WritesInv
    <3>2. h[i].op = "recover" => h[i].target \in 0 .. written
      <4>1. ~overlap
        BY <2>1 DEF GhostsInv
      <4>2. QED
        BY <1>0, <2>1, <2>3, <4>1 DEF TargetsKept, FilesOK
    <3>3. QED
      BY <1>1, <1>3, <3>1, <3>2
  <2>4. QED
    BY <1>1, <1>2, <1>3, <2>2, <2>3 DEF WritesInv
<1>7. AnswersAreTrue'
  BY <1>1, <1>2, <1>4 DEF AnswersAreTrue, Quiet
<1>8. RecoveryIsSafe'
  BY <1>1, <1>3 DEF RecoveryIsSafe, WritesKept, RecoveredToTarget
<1>9. QED
  BY <1>4, <1>5, <1>6, <1>7, <1>8

\* A crash ends every handler and may take the container along; what has the
\* name and is not the row's is a stray one.
LEMMA CrashStep ==
  ASSUME IInv, Crash, UNCHANGED kind
  PROVE  IInv'
<1> USE DEF IInv
<1>0. TypeOK /\ FilesOK' /\ ids \in Nat
  BY FilesStay DEF AnswersAreTrue, TypeOK, Crash
<1>1. /\ UNCHANGED <<kind, row, ids, ops, raced>> /\ UNCHANGED files
      /\ last' = Null /\ overlap' = FALSE /\ pass' = "due" /\ torn' = Null
      /\ cont' \in {cont, Null} /\ stray' = StrayOf(row, cont')
  BY DEF Crash
<1>2. Rows' = Rows /\ Requests' = Requests
  BY <1>1 DEF Rows, Requests
<1>3. Busy' = {} /\ h' = [i \in Handlers |-> Idle]
  BY DEF Busy, Crash, Idle, Request
<1>4. TypeOK'
  <2>1. Idle \in Requests
    BY <1>0 DEF Idle, Request, Requests, Pcs
  <2>2. h' \in [Handlers -> Requests']
    BY <1>2, <1>3, <2>1
  <2>3. {cont', stray', torn'} \subseteq 1 .. ids' \cup {Null}
    BY <1>0, <1>1 DEF TypeOK, StrayOf
  <2>4. crashes' \in 0 .. MaxCrashes
    BY <1>0 DEF TypeOK, Crash
  <2>5. QED
    BY <1>0, <1>1, <1>2, <2>2, <2>3, <2>4 DEF TypeOK, FilesOK, Passes
<1>5. HandlersInv'
  BY <1>3 DEF HandlersInv, Idle, Request
<1>6. GhostsInv' /\ Healed' /\ TargetsKept'
  BY <1>1, <1>3 DEF GhostsInv, Healed, TargetsKept
<1>7. Tracked'
  BY <1>1, <1>3 DEF Tracked, StrayOf
<1>8. WritesInv' /\ RecoveryIsSafe'
  BY <1>0, <1>1, <1>3 DEF WritesInv, FilesOK, RecoveryIsSafe, RecoveredToTarget
<1>9. AnswersAreTrue'
  BY <1>1, <1>4 DEF AnswersAreTrue
<1>10. QED
  BY <1>4, <1>5, <1>6, <1>7, <1>8, <1>9

\* The service starts without a row, a container and requests: IInv holds.
LEMMA InitIInv == Init => IInv
<1> SUFFICES ASSUME Init PROVE IInv
  OBVIOUS
<1>1. TypeOK
  <2>1. h \in [Handlers -> Requests]
    BY DEF Init, Idle, Request, Requests, Pcs
  <2>2. ops \in 0 .. MaxOps /\ crashes \in 0 .. MaxCrashes /\ written \in 0 .. MaxWrites
    BY DEF Init
  <2>3. {data, backup} \subseteq 0 .. MaxWrites \cup {Null}
    BY DEF Init
  <2>4. overlap \in BOOLEAN /\ raced \in BOOLEAN /\ kind \in Kinds /\ pass \in Passes
    BY DEF Init, Passes
  <2>5. {cont, stray, torn} \subseteq 1 .. ids \cup {Null}
    BY DEF Init
  <2>6. /\ row = Null /\ ids \in Nat /\ archived = {} /\ points = {}
    BY DEF Init
  <2>7. QED
    BY <2>1, <2>2, <2>3, <2>4, <2>5, <2>6 DEF TypeOK
<1>2. Busy = {} /\ \A i \in Handlers : h[i] = Idle
  BY DEF Init, Busy, Idle, Request
<1>3. HandlersInv
  BY <1>2 DEF HandlersInv, Idle, Request
<1>4. QED
  BY <1>1, <1>2, <1>3
     DEF Init, IInv, GhostsInv, Tracked, Healed, RowIsTrue, TargetsKept,
         WritesInv, AnswersAreTrue, RecoveryIsSafe, WritesKept,
         RecoveredToTarget

\* Every step keeps IInv: a handler's step, a client's write, a crash and the
\* startup pass.
LEMMA NextIInv == IInv /\ [Next]_vars => IInv'
<1> SUFFICES ASSUME IInv, [Next]_vars PROVE IInv'
  OBVIOUS
<1>1. ASSUME NEW i \in Handlers, Step(i), UNCHANGED kind PROVE IInv'
  <2>0. ops \in 0 .. MaxOps /\ pass \in Passes
    BY DEF IInv, AnswersAreTrue, TypeOK
  <2>1. ASSUME NEW op \in UserOps, NEW t \in points \cup {Null}, Begin(i, op, t)
        PROVE  IInv'
    <3>1. ops' \in 0 .. MaxOps /\ pass' \in Passes
      BY <2>0, <2>1 DEF Begin
    <3>2. PICK pc : pc = FirstStep(op)
      OBVIOUS
    <3>3. /\ pc \in Untouched
          /\ pc = "check" => op \in {"start", "move"}
          /\ pc = "stop" => op \in {"stop", "restart", "delete"}
          /\ pc \in {"backup", "point", "recover"} => op = pc
      BY <2>1, <3>2 DEF FirstStep, UserOps, Untouched
    <3>4. BeginEffect(i, pc, op, t)
      BY <1>1, <2>1, <3>1, <3>2, <3>3 DEF BeginEffect, Begin, UserOps
    <3>5. QED
      BY <3>4, BeginStep
  <2>2. ASSUME NEW op \in Ops \ {"recover"}, Begin(i, op, Null) PROVE IInv'
    <3>1. op \in UserOps /\ Null \in points \cup {Null}
      OBVIOUS
    <3>2. QED
      BY <2>1, <2>2, <3>1
  <2>3. ASSUME NEW t \in points, Begin(i, "recover", t) PROVE IInv'
    <3>1. "recover" \in UserOps /\ t \in points \cup {Null}
      BY DEF UserOps
    <3>2. QED
      BY <2>1, <2>3, <3>1
  <2>4. ASSUME StopDatabase(i) \/ StopQueue(i) PROVE IInv'
    <3>1. PICK q \in Rows : StopEffect(i, q)
      BY <1>1, <2>4, StopDatabaseEffect, StopQueueEffect
    <3>2. QED
      BY <3>1, StopStep
  <2>5. QED
    BY <1>1, <2>2, <2>3, <2>4, CreateStep, StartCheckStep, StartQueueCheckStep,
       MoveCheckStep, DropDataStep, StartContainerStep, SaveRunningStep,
       NotReadyStep, ProxyFailsStep, SaveFailedStep, CutShortStep,
       BaseBackupStep, RestorePointStep, RecoverBeginStep, ArchiveDataStep,
       CopyBackupStep, RestoreMissingStep
       DEF Step
<1>2. CASE UNCHANGED vars
  <2>1. /\ UNCHANGED <<kind, row, cont, data, archived, backup, points, written>>
        /\ UNCHANGED <<ids, h, ops, crashes, pass, overlap, raced, stray, torn,
                       last>>
    BY <1>2 DEF vars
  <2>2. Busy' = Busy /\ Rows' = Rows /\ Requests' = Requests /\ RowIsTrue' = RowIsTrue
    BY <2>1 DEF Busy, Rows, Requests, RowIsTrue
  <2>3. TypeOK'
    BY <2>1, <2>2 DEF IInv, AnswersAreTrue, TypeOK
  <2>4. QED
    BY <2>1, <2>2, <2>3
       DEF IInv, HandlersInv, GhostsInv, Tracked, Healed, TargetsKept, WritesInv,
           AnswersAreTrue, Quiet, RecoveryIsSafe, WritesKept, RecoveredToTarget
<1>3. QED
  BY <1>1, <1>2, WriteDataStep, CrashStep, RestoreListStep, RestoreSkippedStep
     DEF Next

\* IInv holds in every state of every behaviour.
LEMMA Invariance == Spec => []IInv
<1>1. Init => IInv
  BY InitIInv
<1>2. IInv /\ [Next]_vars => IInv'
  BY NextIInv
<1>3. QED
  BY <1>1, <1>2, PTL DEF Spec

\* A request that a managed database or queue answers with success left a row
\* that says what docker has, for any number of handlers, requests, crashes
\* and writes, and whatever docker refused, failed to do or did after the
\* handler was gone.
THEOREM AnswersAreTrueAlways == Spec => []AnswersAreTrue
<1>1. IInv => AnswersAreTrue
  BY DEF IInv
<1>2. QED
  BY <1>1, Invariance, PTL

\* restore_missing_containers: after a startup pass that listed everything, a
\* database recorded as running has its container, whatever the crash took
\* away and wherever it cut a request.
THEOREM RestoreHealsAlways == Spec => []RestoreHeals
<1>1. IInv => RestoreHeals
  BY DEF IInv, Healed, RestoreHeals, Quiet
<1>2. QED
  BY <1>1, Invariance, PTL

\* recover_postgres_to_target: the latest write stays in the data directory or
\* in one set aside, and a recovery answered with success serves its restore
\* point.
THEOREM RecoveryIsSafeAlways == Spec => []RecoveryIsSafe
<1>1. IInv => RecoveryIsSafe
  BY DEF IInv
<1>2. QED
  BY <1>1, Invariance, PTL

=============================================================================
