----------------------------- MODULE CronProofs -----------------------------
(***************************************************************************)
(* The cron scheduler, for any services, any schedules and any number of   *)
(* edits, rollouts and crashes.                                            *)
(***************************************************************************)
EXTENDS CronScheduler, TLAPS

-----------------------------------------------------------------------------
(* The next slot *)

\* Quotient and remainder make up the number.
LEMMA DivMod ==
  ASSUME NEW p \in Nat \ {0}, NEW c \in Nat
  PROVE  /\ (c \div p) \in Nat
         /\ (c % p) \in 0 .. (p - 1)
         /\ c = (p * (c \div p)) + (c % p)
<1>1. c = (p * (c \div p)) + (c % p)
  OBVIOUS
<1>2. (c \div p) \in Nat
  OBVIOUS
<1>3. (c % p) \in 0 .. (p - 1)
  OBVIOUS
<1>4. QED
  BY <1>1, <1>2, <1>3

\* A multiple leaves no remainder.
LEMMA ModOfMultiple ==
  ASSUME NEW p \in Nat \ {0}, NEW q \in Nat
  PROVE  (p * q) % p = 0
OBVIOUS

\* After every second there is a slot within one period.
LEMMA SlotComes ==
  ASSUME NEW p \in Nat \ {0}, NEW c \in Nat
  PROVE  \E t \in (c + 1) .. (c + p) : t % p = 0
<1> DEFINE q == c \div p
           t == p * (q + 1)
<1>1. q \in Nat /\ (c % p) \in 0 .. (p - 1) /\ c = (p * q) + (c % p)
  BY DivMod
<1>2. t = (p * q) + p
  BY <1>1
<1>3. t \in (c + 1) .. (c + p)
  BY <1>1, <1>2
<1>4. t % p = 0
  <2>1. q + 1 \in Nat
    BY <1>1
  <2> HIDE DEF q
  <2>2. QED
    BY <2>1, ModOfMultiple
<1>5. QED
  BY <1>3, <1>4

\* next_schedule_state gives a slot after now, or none.
LEMMA NextSlot ==
  ASSUME now \in Nat, NEW p \in Periods, NEW d \in 1 .. MaxDeps
  PROVE  /\ NextScheduleState(p, d) \in States \cup {Null}
         /\ NextScheduleState(p, d) # Null => NextScheduleState(p, d).next > now
<1>1. CASE p = 0
  BY <1>1 DEF NextScheduleState
<1>2. CASE p # 0
  <2> DEFINE t == CHOOSE t \in now + 1 .. now + p : t % p = 0
  <2>1. p \in Nat \ {0}
    BY <1>2, CronAssumption
  <2>2. \E x \in now + 1 .. now + p : x % p = 0
    BY <2>1, SlotComes
  <2>3. t \in now + 1 .. now + p
    BY <2>2
  <2>4. t \in Nat /\ t > now
    BY <2>1, <2>3
  <2>5. NextScheduleState(p, d) = [sched |-> p, dep |-> d, next |-> t]
    BY <1>2 DEF NextScheduleState
  <2> HIDE DEF t
  <2>6. QED
    BY <1>2, <2>4, <2>5 DEF States
<1>3. QED
  BY <1>1, <1>2

-----------------------------------------------------------------------------
(* Names *)

\* A name is a pair, and no name is Null.
LEMMA NameFacts ==
  /\ \A n \in Names : n # Null /\ n[2] \in 0 .. MaxTime /\ n = <<n[1], n[2]>>
  /\ \A s \in Services, t \in 0 .. MaxTime : <<NameOf[s], t>> \in Names
BY CronAssumption DEF Names

\* What the types say of a container.
LEMMA ContainerFacts ==
  ASSUME TypeOK, NEW c \in conts
  PROVE  /\ c.name \in Names /\ c.svc \in Services /\ c.run \in BOOLEAN
         /\ c.name # Null /\ c.name[2] \in Nat
         /\ jobs[c.svc] \in Names \cup {Null}
<1>1. c.name \in Names /\ c.svc \in Services /\ c.run \in BOOLEAN
  BY DEF TypeOK
<1>2. jobs[c.svc] \in Names \cup {Null}
  BY <1>1 DEF TypeOK
<1>3. QED
  BY <1>1, <1>2, NameFacts

\* What docker makes of a removal: the others stay, and of those it was asked to
\* remove the ones that stay are in kept.
LEMMA RemoveFacts ==
  ASSUME TypeOK, NEW names, Remove(names)
  PROVE  /\ conts' \subseteq [name : Names, svc : Services, run : BOOLEAN]
         /\ \A a, b \in conts' : a.name = b.name => a = b
         /\ kept' \subseteq Names
         /\ \A e \in conts' : \E c \in conts :
               e.name = c.name /\ e.svc = c.svc /\ (e.run => c.run)
         /\ \A c \in conts : c.name \notin names => c \in conts'
         /\ \A e \in conts' : e.name \in names => e.name \in kept'
         /\ \A e \in conts' : e.name \in kept => e.name \in kept'
<1> DEFINE asked == {c \in conts : c.name \in names}
           stop(c) == [c EXCEPT !.run = FALSE]
<1>1. PICK left \in SUBSET asked : \E halted \in SUBSET left :
         /\ conts' = (conts \ ((asked \ left) \cup halted))
                        \cup {stop(c) : c \in halted}
         /\ kept' = (kept \ names) \cup {c.name : c \in left}
  BY DEF Remove
<1>2. PICK halted \in SUBSET left :
         /\ conts' = (conts \ ((asked \ left) \cup halted))
                        \cup {stop(c) : c \in halted}
         /\ kept' = (kept \ names) \cup {c.name : c \in left}
  BY <1>1
<1>3. /\ conts \subseteq [name : Names, svc : Services, run : BOOLEAN]
      /\ \A a, b \in conts : a.name = b.name => a = b
      /\ kept \subseteq Names
  BY DEF TypeOK
<1>4. \A c \in conts : /\ stop(c) \in [name : Names, svc : Services, run : BOOLEAN]
                       /\ stop(c).name = c.name /\ stop(c).svc = c.svc
                       /\ ~stop(c).run
  BY <1>3
<1>5. /\ left \subseteq conts /\ halted \subseteq conts
      /\ \A c \in left : c.name \in names
      /\ \A c \in conts : c.name \in names /\ c \notin left => c \in asked \ left
  OBVIOUS
<1> HIDE DEF asked, stop
<1>6. \A e \in conts' : \/ e \in conts /\ e \notin halted /\ e \notin asked \ left
                       \/ \E c \in halted : e = stop(c)
  BY <1>2
<1>7. conts' \subseteq [name : Names, svc : Services, run : BOOLEAN]
  BY <1>3, <1>4, <1>5, <1>6
<1>8. \A e \in conts' : \E c \in conts :
         /\ e.name = c.name /\ e.svc = c.svc /\ (e.run => c.run)
         /\ c \notin asked \ left
         /\ e = IF c \in halted THEN stop(c) ELSE c
  BY <1>4, <1>5, <1>6
<1>9. \A a, b \in conts' : a.name = b.name => a = b
  <2> SUFFICES ASSUME NEW a \in conts', NEW b \in conts', a.name = b.name
               PROVE  a = b
    OBVIOUS
  <2>1. PICK x \in conts : a.name = x.name /\ a = IF x \in halted THEN stop(x) ELSE x
    BY <1>8
  <2>2. PICK y \in conts : b.name = y.name /\ b = IF y \in halted THEN stop(y) ELSE y
    BY <1>8
  <2>3. x = y
    BY <1>3, <2>1, <2>2
  <2>4. QED
    BY <2>1, <2>2, <2>3
<1>10. kept' \subseteq Names
  <2>1. \A c \in left : c.name \in Names
    BY <1>3, <1>5
  <2>2. {c.name : c \in left} \subseteq Names
    BY <2>1
  <2>3. kept' = (kept \ names) \cup {c.name : c \in left}
    BY <1>2
  <2>4. QED
    BY <1>3, <2>2, <2>3
<1>11. \A c \in conts : c.name \notin names => c \in conts'
  BY <1>2, <1>5 DEF asked
<1>12. \A e \in conts' : e.name \in names => e.name \in kept'
  <2> SUFFICES ASSUME NEW e \in conts', e.name \in names
               PROVE  e.name \in kept'
    OBVIOUS
  <2>1. PICK c \in conts : e.name = c.name /\ c \notin asked \ left
    BY <1>8
  <2>2. c \in left
    <3>1. c.name \in names
      BY <2>1
    <3>2. c \in asked
      BY <3>1 DEF asked
    <3>3. QED
      BY <2>1, <3>2
  <2>3. QED
    BY <1>2, <2>1, <2>2
<1>13. \A e \in conts' : e.name \in kept => e.name \in kept'
  BY <1>2, <1>12
<1>14. QED
  BY <1>7, <1>8, <1>9, <1>10, <1>11, <1>12, <1>13

-----------------------------------------------------------------------------
(* What happens outside the scheduler *)

\* Containers end or go, and the clock moves on, while the scheduler's maps stay.
LEMMA OutsideStep ==
  ASSUME IInv, TypeOK', now <= now',
         \A e \in conts' : \E c \in conts :
            e.name = c.name /\ e.svc = c.svc /\ (e.run => c.run),
         \A e \in conts' : e.name \in kept => e.name \in kept',
         UNCHANGED <<memory, lastSlot, crashes>>
  PROVE  IInv'
<1>1. now \in Nat /\ now' \in Nat
  BY DEF IInv, NothingForgotten, TypeOK
<1>2. UNCHANGED <<schedules, jobs, pc, todo, snap, cur, lastSlot, crashes>>
  BY DEF memory
<1>3. NothingForgotten'
  BY <1>2 DEF IInv, NothingForgotten
<1>4. OwnNames'
  <2>1. \A c \in conts : c.name[2] \in Nat
    BY ContainerFacts DEF IInv, NothingForgotten
  <2>2. QED
    BY <1>1, <1>2, <2>1 DEF IInv, OwnNames
<1>5. PassSound'
  BY <1>2 DEF IInv, PassSound, ActiveKeys, Live
<1>6. SlotsAhead'
  <2>1. \A s \in Services : lastSlot[s] \in Nat
    BY DEF IInv, NothingForgotten, TypeOK
  <2>2. QED
    BY <1>1, <1>2, <2>1 DEF IInv, SlotsAhead
<1>7. LeftoversOld'
  <2>1. \A c \in conts : c.name[2] \in Nat
    BY ContainerFacts DEF IInv, NothingForgotten
  <2>2. QED
    BY <1>1, <1>2, <2>1 DEF IInv, LeftoversOld
<1>8. QED
  BY <1>3, <1>4, <1>5, <1>6, <1>7 DEF IInv

\* The clock.
LEMMA TickStep ==
  ASSUME IInv, Tick
  PROVE  IInv'
<1>1. TypeOK'
  BY CronAssumption DEF IInv, NothingForgotten, TypeOK, Tick, memory
<1>2. now <= now'
  BY DEF IInv, NothingForgotten, TypeOK, Tick
<1>3. QED
  BY <1>1, <1>2, OutsideStep DEF Tick

\* A job's process ends.
LEMMA JobExitsStep ==
  ASSUME IInv, NEW c \in conts, JobExits(c)
  PROVE  IInv'
<1> DEFINE e == [c EXCEPT !.run = FALSE]
<1>1. TypeOK
  BY DEF IInv, NothingForgotten
<1>2. /\ conts' = (conts \ {c}) \cup {e}
      /\ UNCHANGED <<now, dep, row, memory, kept, lastSlot, users, crashes>>
  BY DEF JobExits
<1>3. e \in [name : Names, svc : Services, run : BOOLEAN]
      /\ e.name = c.name /\ e.svc = c.svc /\ ~e.run
  BY <1>1 DEF TypeOK
<1> HIDE DEF e
<1>4. \A d \in conts' : \E b \in conts :
         d.name = b.name /\ d.svc = b.svc /\ (d.run => b.run)
  BY <1>2, <1>3
<1>5. \A a, b \in conts' : a.name = b.name => a = b
  BY <1>1, <1>2, <1>3 DEF TypeOK
<1>6. conts' \subseteq [name : Names, svc : Services, run : BOOLEAN]
  BY <1>1, <1>2, <1>3 DEF TypeOK
<1>7. TypeOK'
  BY <1>1, <1>2, <1>5, <1>6 DEF TypeOK, memory
<1>8. now <= now'
  BY <1>1, <1>2 DEF TypeOK
<1>9. QED
  BY <1>2, <1>4, <1>7, <1>8, OutsideStep

\* A user stops, edits or deletes a service, or a rollout ends.
LEMMA UserStep ==
  ASSUME IInv, User \/ Redeploy
  PROVE  IInv'
<1>1. TypeOK
  BY DEF IInv, NothingForgotten
<1>2. UNCHANGED <<now, memory, lastSlot, crashes>>
  BY DEF User, Redeploy, StopCronService, DeleteCronService, EditSchedule
<1>3. \/ UNCHANGED <<conts, kept>>
      \/ \E names : Remove(names)
  BY DEF User, Redeploy, StopCronService, DeleteCronService, EditSchedule
<1>4. /\ conts' \subseteq [name : Names, svc : Services, run : BOOLEAN]
      /\ \A a, b \in conts' : a.name = b.name => a = b
      /\ kept' \subseteq Names
      /\ \A e \in conts' : \E c \in conts :
            e.name = c.name /\ e.svc = c.svc /\ (e.run => c.run)
      /\ \A e \in conts' : e.name \in kept => e.name \in kept'
  <2>1. CASE UNCHANGED <<conts, kept>>
    BY <1>1, <2>1 DEF TypeOK
  <2>2. CASE \E names : Remove(names)
    BY <1>1, <2>2, RemoveFacts
  <2>3. QED
    BY <1>3, <2>1, <2>2
<1>5. row' \in [Services -> Periods \cup {Null}] /\ dep' \in 0 .. MaxDeps
  <2>1. CASE UNCHANGED <<row, dep>>
    BY <1>1, <2>1 DEF TypeOK
  <2>2. CASE \E s \in Services, p \in Periods \cup {Null} :
                row' = [row EXCEPT ![s] = p] /\ UNCHANGED dep
    BY <1>1, <2>2 DEF TypeOK
  <2>3. CASE dep < MaxDeps /\ dep' = dep + 1 /\ UNCHANGED row
    BY <1>1, <2>3, CronAssumption DEF TypeOK
  <2>4. QED
    BY <2>1, <2>2, <2>3
       DEF User, Redeploy, StopCronService, DeleteCronService, EditSchedule
<1>6. users' \in Nat
  BY <1>1 DEF TypeOK, User, Redeploy, StopCronService, DeleteCronService, EditSchedule
<1>7. TypeOK'
  BY <1>1, <1>2, <1>5, <1>6, <1>4 DEF TypeOK, memory
<1>8. now <= now'
  BY <1>1, <1>2 DEF TypeOK
<1>9. QED
  BY <1>2, <1>7, <1>8, <1>4, OutsideStep

-----------------------------------------------------------------------------
(* A pass of poll_once *)

\* A pass begins, reads the database or gives up.
LEMMA PassMoves ==
  ASSUME IInv,
         UNCHANGED <<now, dep, row, schedules, jobs, conts, cur, kept, lastSlot,
                     users, crashes>>,
         todo' \subseteq Services,
         snap' \in [dep : 0 .. MaxDeps, row : [Services -> Periods \cup {Null}]],
         pc' \in {"idle", "reconcile", "pass"},
         pc' = "pass" => (todo \subseteq ActiveKeys)'
  PROVE  IInv'
<1>1. TypeOK'
  BY DEF IInv, NothingForgotten, TypeOK
<1>2. NothingForgotten' /\ OwnNames' /\ SlotsAhead'
  BY <1>1 DEF IInv, NothingForgotten, OwnNames, SlotsAhead
<1>3. PassSound' /\ LeftoversOld'
  BY DEF IInv, PassSound, LeftoversOld
<1>4. QED
  BY <1>2, <1>3 DEF IInv

\* What is visited in a pass is what the pass has read.
LEMMA PollStep ==
  ASSUME IInv, PollBegin \/ PollList \/ PollFails
  PROVE  IInv'
<1>1. TypeOK
  BY DEF IInv, NothingForgotten
<1>2. CASE PollBegin
  BY <1>1, <1>2, PassMoves DEF PollBegin, TypeOK
<1>3. CASE PollFails
  <2>1. snap' \in [dep : 0 .. MaxDeps, row : [Services -> Periods \cup {Null}]]
    BY <1>3, CronAssumption DEF PollFails, NoPass
  <2>2. todo' \subseteq Services
    BY <1>1, <1>3 DEF PollFails, TypeOK
  <2>3. QED
    BY <1>3, <2>1, <2>2, PassMoves DEF PollFails
<1>4. CASE PollList
  <2>1. snap'.dep = dep /\ snap'.row = row
    BY <1>4 DEF PollList
  <2>2. (todo \subseteq ActiveKeys)'
    BY <1>4, <2>1 DEF PollList, ActiveKeys
  <2>3. snap' \in [dep : 0 .. MaxDeps, row : [Services -> Periods \cup {Null}]]
    BY <1>1, <1>4 DEF PollList, TypeOK
  <2>4. todo' \subseteq Services
    BY <1>4 DEF PollList
  <2>5. QED
    BY <1>4, <2>2, <2>3, <2>4, PassMoves DEF PollList
<1>5. QED
  BY <1>2, <1>3, <1>4

\* A job that is_running reports as not running is one that does not run, or one
\* that docker failed to inspect.
LEMMA InspectStep ==
  ASSUME IInv, NEW s \in Services, Inspect(s)
  PROVE  IInv'
<1>1. TypeOK
  BY DEF IInv, NothingForgotten
<1>2. /\ pc = "reconcile" /\ todo' \subseteq Services
      /\ UNCHANGED <<now, dep, row, schedules, jobs, conts, snap, kept, lastSlot,
                     users, crashes>>
  BY <1>1 DEF Inspect, TypeOK
<1>3. \/ UNCHANGED <<pc, cur>>
      \/ pc' \in {"finished", "unseen"} /\ cur' = s
  BY DEF Inspect
<1>4. pc' = "finished" => \A c \in Live : c.name # jobs[s]
  BY <1>2 DEF Inspect, Named, Live
<1>5. TypeOK'
  BY <1>1, <1>2, <1>3 DEF TypeOK
<1>6. NothingForgotten' /\ OwnNames' /\ SlotsAhead'
  BY <1>2, <1>5 DEF IInv, NothingForgotten, OwnNames, SlotsAhead
<1>7. PassSound'
  BY <1>2, <1>3, <1>4 DEF PassSound, Live
<1>8. LeftoversOld'
  BY <1>2, <1>3 DEF IInv, LeftoversOld
<1>9. QED
  BY <1>6, <1>7, <1>8 DEF IInv

\* A job that is over leaves docker and running_jobs together, or is kept.
LEMMA RemoveFinishedStep ==
  ASSUME IInv, RemoveFinished
  PROVE  IInv'
<1>1. TypeOK
  BY DEF IInv, NothingForgotten
<1>2. /\ pc \in {"finished", "unseen"} /\ pc' = "reconcile" /\ cur' = Null
      /\ Remove({jobs[cur]}) /\ jobs' = [jobs EXCEPT ![cur] = Null]
      /\ UNCHANGED <<now, dep, row, schedules, todo, snap, lastSlot, users, crashes>>
  BY DEF RemoveFinished
<1>3. cur \in Services
  BY <1>2 DEF IInv, PassSound
<1>4. /\ conts' \subseteq [name : Names, svc : Services, run : BOOLEAN]
      /\ \A a, b \in conts' : a.name = b.name => a = b
      /\ kept' \subseteq Names
      /\ \A e \in conts' : \E c \in conts : e.name = c.name /\ e.svc = c.svc
      /\ \A e \in conts' : e.name \in {jobs[cur]} => e.name \in kept'
      /\ \A e \in conts' : e.name \in kept => e.name \in kept'
  BY <1>1, <1>2, RemoveFacts
<1>5. jobs' \in [Services -> Names \cup {Null}]
      /\ \A x \in Services : jobs'[x] = IF x = cur THEN Null ELSE jobs[x]
  BY <1>1, <1>2, <1>3 DEF TypeOK
<1>6. TypeOK'
  BY <1>1, <1>2, <1>4, <1>5 DEF TypeOK
<1>7. \A e \in conts' : /\ e.svc \in Services
                       /\ jobs[e.svc] = e.name => jobs'[e.svc] = e.name \/ e.name \in kept'
  BY <1>4, <1>5
<1>8. NothingForgotten'
  BY <1>2, <1>4, <1>6, <1>7 DEF IInv, NothingForgotten
<1>9. OwnNames'
  BY <1>2, <1>4, <1>5 DEF IInv, OwnNames
<1>10. PassSound'
  BY <1>2 DEF PassSound
<1>11. SlotsAhead'
  BY <1>2 DEF IInv, SlotsAhead
<1>12. LeftoversOld'
  BY <1>2, <1>4, <1>7 DEF IInv, LeftoversOld
<1>13. QED
  BY <1>8, <1>9, <1>10, <1>11, <1>12 DEF IInv

\* The state poll_once works with is one of its types, and a state it has just
\* made is not due.
LEMMA CurrentFacts ==
  ASSUME IInv, NEW s \in Services, pc = "pass", s \in todo
  PROVE  /\ snap.row[s] \in Periods /\ snap.dep \in 1 .. MaxDeps
         /\ CurrentState(s) \in States \cup {Null}
         /\ CurrentState(s) = schedules[s] \/
               (CurrentState(s) # Null => CurrentState(s).next > now)
<1>1. TypeOK
  BY DEF IInv, NothingForgotten
<1>2. s \in ActiveKeys
  BY DEF IInv, PassSound
<1>3. snap.row[s] \in Periods /\ snap.dep \in 1 .. MaxDeps
  <2>1. snap.dep # 0 /\ snap.row[s] # Null
    BY <1>2 DEF ActiveKeys
  <2>2. snap.dep \in 0 .. MaxDeps /\ snap.row[s] \in Periods \cup {Null}
    BY <1>1 DEF TypeOK
  <2>3. MaxDeps \in Nat
    BY CronAssumption
  <2>4. QED
    BY <2>1, <2>2, <2>3
<1>4. now \in Nat
  BY <1>1 DEF TypeOK
<1> DEFINE new == NextScheduleState(snap.row[s], snap.dep)
<1>5. new \in States \cup {Null} /\ (new # Null => new.next > now)
  BY <1>3, <1>4, NextSlot
<1>6. schedules[s] \in States \cup {Null}
  BY <1>1 DEF TypeOK
<1>7. CurrentState(s) = new \/ CurrentState(s) = schedules[s]
  BY DEF CurrentState
<1> HIDE DEF new
<1>8. QED
  BY <1>3, <1>5, <1>6, <1>7

\* A service is visited: the slot after now is taken before its job is launched.
LEMMA VisitStep ==
  ASSUME IInv, NEW s \in Services, Visit(s)
  PROVE  IInv'
<1> DEFINE st == CurrentState(s)
           new == NextScheduleState(snap.row[s], snap.dep)
<1>1. TypeOK /\ now \in Nat /\ lastSlot \in [Services -> Nat]
      /\ schedules \in [Services -> States \cup {Null}]
  BY DEF IInv, NothingForgotten, TypeOK
<1>2. /\ pc = "pass" /\ s \in todo /\ todo' = todo \ {s}
      /\ UNCHANGED <<now, dep, row, jobs, conts, snap, kept, users, crashes>>
  BY DEF Visit
<1>3. /\ snap.row[s] \in Periods /\ snap.dep \in 1 .. MaxDeps
      /\ st \in States \cup {Null}
      /\ st = schedules[s] \/ (st # Null => st.next > now)
  BY <1>2, CurrentFacts
<1>4. new \in States \cup {Null} /\ (new # Null => new.next > now)
  BY <1>1, <1>3, NextSlot
<1>5. \A x \in States : x.next \in Nat
  BY DEF States
<1>6. \A c \in conts : c.name[2] \in Nat /\ c.name[2] <= now /\ c.svc \in Services
  BY <1>1, ContainerFacts DEF IInv, OwnNames
<1>7. CASE DueForLaunch(s, st)
  <2>1. /\ schedules' = [schedules EXCEPT ![s] = new]
        /\ lastSlot' = [lastSlot EXCEPT ![s] = st.next]
        /\ cur' = s /\ pc' = "launch"
    BY <1>7 DEF Visit
  <2>2. jobs[s] = Null /\ st # Null /\ now >= st.next
    BY <1>7 DEF DueForLaunch
  <2> HIDE DEF st, new
  <2>3. st = schedules[s] /\ st.next \in Nat /\ st.next <= now
    BY <1>1, <1>3, <1>5, <2>2
  <2>4. /\ schedules' \in [Services -> States \cup {Null}]
        /\ lastSlot' \in [Services -> Nat]
    BY <1>1, <1>4, <2>1, <2>3
  <2>5. /\ schedules'[s] = new /\ lastSlot'[s] = st.next
        /\ \A x \in Services : x # s => /\ schedules'[x] = schedules[x]
                                        /\ lastSlot'[x] = lastSlot[x]
    BY <1>1, <2>1
  <2>6. TypeOK'
    BY <1>1, <1>2, <2>1, <2>4 DEF TypeOK
  <2>7. NothingForgotten' /\ OwnNames'
    BY <1>2, <2>6 DEF IInv, NothingForgotten, OwnNames
  <2>8. PassSound'
    BY <1>2, <2>1, <2>2 DEF IInv, PassSound, ActiveKeys
  <2>9. SlotsAhead'
    <3>1. lastSlot'[s] <= now /\ (schedules'[s] # Null => lastSlot'[s] < schedules'[s].next)
      BY <1>1, <1>4, <1>5, <2>3, <2>5
    <3>2. QED
      BY <1>2, <2>5, <3>1 DEF IInv, SlotsAhead
  <2>10. LeftoversOld'
    <3> SUFFICES ASSUME NEW c \in conts, jobs[c.svc] # c.name, c.name \notin kept
                 PROVE  /\ schedules'[c.svc] # Null => c.name[2] < schedules'[c.svc].next
                        /\ s = c.svc => c.name[2] < now
      BY <1>2, <2>1 DEF LeftoversOld
    <3>1. schedules[c.svc] # Null => c.name[2] < schedules[c.svc].next
      BY DEF IInv, LeftoversOld
    <3>2. CASE c.svc = s
      BY <1>1, <1>4, <1>5, <1>6, <2>2, <2>3, <2>5, <3>1, <3>2
    <3>3. CASE c.svc # s
      BY <1>6, <2>5, <3>1, <3>3
    <3>4. QED
      BY <3>2, <3>3
  <2>11. QED
    BY <2>7, <2>8, <2>9, <2>10 DEF IInv
<1>8. CASE ~DueForLaunch(s, st)
  <2>1. /\ schedules' = [schedules EXCEPT ![s] = st]
        /\ UNCHANGED <<lastSlot, cur, pc>>
    BY <1>8 DEF Visit
  <2> HIDE DEF st, new
  <2>2. schedules' \in [Services -> States \cup {Null}]
    BY <1>1, <1>3, <2>1
  <2>3. /\ schedules'[s] = st
        /\ \A x \in Services : x # s => schedules'[x] = schedules[x]
    BY <1>1, <2>1
  <2>4. TypeOK'
    BY <1>1, <1>2, <2>1, <2>2 DEF TypeOK
  <2>5. NothingForgotten' /\ OwnNames'
    BY <1>2, <2>1, <2>4 DEF IInv, NothingForgotten, OwnNames
  <2>6. PassSound'
    BY <1>2, <2>1 DEF IInv, PassSound, ActiveKeys
  <2>7. SlotsAhead'
    <3>1. lastSlot[s] <= now /\ (schedules[s] # Null => lastSlot[s] < schedules[s].next)
      BY DEF IInv, SlotsAhead
    <3>2. st # Null => lastSlot[s] < st.next
      BY <1>1, <1>3, <1>5, <3>1
    <3>3. QED
      BY <1>2, <2>1, <2>3, <3>2 DEF IInv, SlotsAhead
  <2>8. LeftoversOld'
    <3> SUFFICES ASSUME NEW c \in conts, jobs[c.svc] # c.name, c.name \notin kept
                 PROVE  schedules'[c.svc] # Null => c.name[2] < schedules'[c.svc].next
      BY <1>2, <2>1 DEF LeftoversOld
    <3>1. schedules[c.svc] # Null => c.name[2] < schedules[c.svc].next
      BY DEF IInv, LeftoversOld
    <3>2. CASE c.svc = s
      BY <1>1, <1>3, <1>5, <1>6, <2>3, <3>1, <3>2
    <3>3. CASE c.svc # s
      BY <1>6, <2>3, <3>1, <3>3
    <3>4. QED
      BY <3>2, <3>3
  <2>9. QED
    BY <2>5, <2>6, <2>7, <2>8 DEF IInv
<1>9. QED
  BY <1>7, <1>8

\* A job is launched for a service that has none, under a name that is free, or
\* nothing is added.
LEMMA LaunchStep ==
  ASSUME IInv, LaunchCronJob
  PROVE  IInv'
<1> DEFINE name == <<NameOf[cur], now>>
           new == [name |-> name, svc |-> cur, run |-> TRUE]
<1>1. TypeOK /\ now \in 0 .. MaxTime /\ now \in Nat
      /\ jobs \in [Services -> Names \cup {Null}]
  BY DEF IInv, NothingForgotten, TypeOK
<1>2. /\ pc = "launch" /\ pc' = "pass" /\ cur' = Null
      /\ JobStarts(name) \/ JobFails(name)
      /\ UNCHANGED <<now, dep, row, schedules, todo, snap, lastSlot, users,
                     crashes>>
  BY DEF LaunchCronJob
<1>3. cur \in Services /\ jobs[cur] = Null
  BY <1>2 DEF IInv, PassSound
<1>4. name \in Names /\ name # Null /\ name[1] = NameOf[cur] /\ name[2] = now
  BY <1>1, <1>3, NameFacts
<1>5. \A c \in conts : c.name # Null /\ c.svc \in Services /\ c.name[2] \in Nat
  BY <1>1, ContainerFacts
<1>6. PassSound'
  BY <1>2 DEF IInv, PassSound, ActiveKeys
<1>7. SlotsAhead'
  BY <1>2 DEF IInv, SlotsAhead
<1>8. CASE JobFails(name)
  <2>1. UNCHANGED jobs
    BY <1>8 DEF JobFails
  <2>2. CASE UNCHANGED <<conts, kept>>
    <3>1. TypeOK'
      BY <1>1, <1>2, <2>1, <2>2 DEF TypeOK
    <3>2. NothingForgotten' /\ OwnNames' /\ LeftoversOld'
      BY <1>2, <2>1, <2>2, <3>1 DEF IInv, NothingForgotten, OwnNames, LeftoversOld
    <3>3. QED
      BY <1>6, <1>7, <3>2 DEF IInv
  <2>3. CASE Remove({name})
    <3> HIDE DEF name
    <3>1. /\ conts' \subseteq [name : Names, svc : Services, run : BOOLEAN]
          /\ \A a, b \in conts' : a.name = b.name => a = b
          /\ kept' \subseteq Names
          /\ \A e \in conts' : \E c \in conts : e.name = c.name /\ e.svc = c.svc
          /\ \A e \in conts' : e.name \in kept => e.name \in kept'
      BY <1>1, <2>3, RemoveFacts
    <3>2. TypeOK'
      BY <1>1, <1>2, <2>1, <3>1 DEF TypeOK
    <3>3. NothingForgotten' /\ OwnNames' /\ LeftoversOld'
      BY <1>2, <2>1, <3>1, <3>2 DEF IInv, NothingForgotten, OwnNames, LeftoversOld
    <3>4. QED
      BY <1>6, <1>7, <3>3 DEF IInv
  <2>4. ASSUME NEW run \in BOOLEAN, Named(name) = {}, kept' = kept \cup {name},
               conts' = conts \cup {[name |-> name, svc |-> cur, run |-> run]}
        PROVE  IInv'
    <3> DEFINE rest == [name |-> name, svc |-> cur, run |-> run]
    <3>1. rest \in [name : Names, svc : Services, run : BOOLEAN]
          /\ rest.name = name /\ rest.svc = cur /\ conts' = conts \cup {rest}
      BY <1>3, <1>4, <2>4
    <3>2. \A c \in conts : c.name # name
      BY <2>4 DEF Named
    <3> HIDE DEF name, rest
    <3>3. \A a, b \in conts' : a.name = b.name => a = b
      BY <1>1, <3>1, <3>2 DEF TypeOK
    <3>4. conts' \subseteq [name : Names, svc : Services, run : BOOLEAN]
          /\ kept' \subseteq Names
      BY <1>1, <1>4, <2>4, <3>1 DEF TypeOK
    <3>5. TypeOK'
      BY <1>1, <1>2, <2>1, <3>3, <3>4 DEF TypeOK
    <3>6. NothingForgotten'
      BY <1>2, <2>1, <2>4, <3>1, <3>5 DEF IInv, NothingForgotten
    <3>7. OwnNames'
      <4>1. now <= now
        BY <1>1
      <4>2. QED
        BY <1>2, <1>4, <2>1, <3>1, <4>1 DEF IInv, OwnNames
    <3>8. LeftoversOld'
      BY <1>2, <2>1, <2>4, <3>1 DEF IInv, LeftoversOld
    <3>9. QED
      BY <1>6, <1>7, <3>6, <3>7, <3>8 DEF IInv
  <2>5. QED
    BY <1>8, <2>2, <2>3, <2>4 DEF JobFails
<1>9. CASE JobStarts(name)
  <2>1. /\ Named(name) = {}
        /\ conts' = conts \cup {new}
        /\ jobs' = [jobs EXCEPT ![cur] = name]
        /\ UNCHANGED kept
    BY <1>9 DEF JobStarts
  <2>2. new \in [name : Names, svc : Services, run : BOOLEAN]
        /\ new.name = name /\ new.svc = cur
    BY <1>3, <1>4
  <2>3. \A c \in conts : c.name # name
    BY <2>1 DEF Named
  <2> HIDE DEF name, new
  <2>4. jobs' \in [Services -> Names \cup {Null}]
    BY <1>1, <1>4, <2>1
  <2>5. \A a, b \in conts' : a.name = b.name => a = b
    BY <1>1, <2>1, <2>2, <2>3 DEF TypeOK
  <2>6. conts' \subseteq [name : Names, svc : Services, run : BOOLEAN]
    BY <1>1, <2>1, <2>2 DEF TypeOK
  <2>7. TypeOK'
    BY <1>1, <1>2, <2>1, <2>4, <2>5, <2>6 DEF TypeOK
  <2>8. /\ jobs'[cur] = name
        /\ \A s \in Services : s # cur => jobs'[s] = jobs[s]
    BY <1>1, <1>3, <2>1
  <2>9. NothingForgotten'
    <3>1. \A c \in conts : jobs[c.svc] = c.name => c.svc # cur
      BY <1>3, <1>5
    <3>2. QED
      BY <1>2, <1>5, <2>1, <2>2, <2>7, <2>8, <3>1 DEF IInv, NothingForgotten
  <2>10. OwnNames'
    <3>1. now <= now
      BY <1>1
    <3>2. QED
      BY <1>2, <1>4, <2>1, <2>2, <2>8, <3>1 DEF IInv, OwnNames
  <2>11. LeftoversOld'
    <3> SUFFICES ASSUME NEW c \in conts', jobs'[c.svc] # c.name, c.name \notin kept
                 PROVE  schedules[c.svc] # Null => c.name[2] < schedules[c.svc].next
      BY <1>2, <2>1 DEF LeftoversOld
    <3>1. c \in conts
      BY <2>1, <2>2, <2>8
    <3>2. jobs[c.svc] # c.name
      BY <1>3, <1>5, <2>8, <3>1
    <3>3. QED
      BY <3>1, <3>2 DEF IInv, LeftoversOld
  <2>12. QED
    BY <1>6, <1>7, <2>9, <2>10, <2>11 DEF IInv
<1>10. QED
  BY <1>2, <1>8, <1>9

\* The jobs of services that are gone leave docker and running_jobs together.
LEMMA PruneStep ==
  ASSUME IInv, Prune
  PROVE  IInv'
<1>1. TypeOK
  BY DEF IInv, NothingForgotten
<1>2. /\ pc' = "idle" /\ snap' = NoPass
      /\ schedules' = [s \in Services |-> IF s \in ActiveKeys THEN schedules[s] ELSE Null]
      /\ Remove({jobs[s] : s \in Services \ ActiveKeys})
      /\ jobs' = [s \in Services |-> IF s \in ActiveKeys THEN jobs[s] ELSE Null]
      /\ UNCHANGED <<now, dep, row, todo, cur, lastSlot, users, crashes>>
  BY DEF Prune
<1>3. /\ conts' \subseteq [name : Names, svc : Services, run : BOOLEAN]
      /\ \A a, b \in conts' : a.name = b.name => a = b
      /\ kept' \subseteq Names
      /\ \A e \in conts' : \E c \in conts : e.name = c.name /\ e.svc = c.svc
      /\ \A e \in conts' : e.name \in {jobs[s] : s \in Services \ ActiveKeys} =>
                             e.name \in kept'
      /\ \A e \in conts' : e.name \in kept => e.name \in kept'
  BY <1>1, <1>2, RemoveFacts
<1>4. /\ snap' \in [dep : 0 .. MaxDeps, row : [Services -> Periods \cup {Null}]]
      /\ schedules' \in [Services -> States \cup {Null}]
      /\ jobs' \in [Services -> Names \cup {Null}]
  BY <1>1, <1>2, CronAssumption DEF NoPass, TypeOK
<1>5. TypeOK'
  BY <1>1, <1>2, <1>3, <1>4 DEF TypeOK
<1>6. \A s \in Services :
         jobs'[s] = jobs[s] \/ jobs[s] \in {jobs[x] : x \in Services \ ActiveKeys}
  BY <1>2
<1>7. \A e \in conts' :
         /\ e.svc \in Services
         /\ jobs[e.svc] = e.name => jobs'[e.svc] = e.name \/ e.name \in kept'
  BY <1>3, <1>6
<1>8. \A s \in Services : /\ jobs'[s] \in {jobs[s], Null}
                          /\ schedules'[s] \in {schedules[s], Null}
  BY <1>2
<1>9. NothingForgotten'
  BY <1>2, <1>3, <1>5, <1>7 DEF IInv, NothingForgotten
<1>10. OwnNames'
  BY <1>2, <1>3, <1>8 DEF IInv, OwnNames
<1>11. PassSound'
  BY <1>2 DEF PassSound
<1>12. SlotsAhead'
  BY <1>2, <1>8 DEF IInv, SlotsAhead
<1>13. LeftoversOld'
  BY <1>2, <1>3, <1>8, <1>7 DEF IInv, LeftoversOld
<1>14. QED
  BY <1>9, <1>10, <1>11, <1>12, <1>13 DEF IInv

\* A crash forgets both maps.
LEMMA CrashStep ==
  ASSUME IInv, Crash
  PROVE  IInv'
<1>1. TypeOK
  BY DEF IInv, NothingForgotten
<1>2. /\ schedules' = [s \in Services |-> Null] /\ jobs' = [s \in Services |-> Null]
      /\ pc' = "idle" /\ todo' = {} /\ snap' = NoPass /\ cur' = Null
      /\ crashes' = crashes + 1
      /\ UNCHANGED <<now, dep, row, conts, kept, lastSlot, users>>
  BY DEF Crash
<1>3. snap' \in [dep : 0 .. MaxDeps, row : [Services -> Periods \cup {Null}]]
  BY <1>2, CronAssumption DEF NoPass
<1>4. crashes' \in Nat /\ crashes' # 0
  BY <1>1, <1>2 DEF TypeOK
<1>5. TypeOK'
  BY <1>1, <1>2, <1>3, <1>4 DEF TypeOK
<1>6. NothingForgotten'
  BY <1>4, <1>5 DEF NothingForgotten
<1>7. OwnNames'
  BY <1>2 DEF IInv, OwnNames
<1>8. PassSound'
  BY <1>2 DEF PassSound
<1>9. SlotsAhead'
  BY <1>2 DEF IInv, SlotsAhead
<1>10. LeftoversOld'
  <2>1. \A c \in conts : c.svc \in Services
    BY <1>1, ContainerFacts
  <2>2. QED
    BY <1>2, <2>1 DEF LeftoversOld
<1>11. QED
  BY <1>6, <1>7, <1>8, <1>9, <1>10 DEF IInv

-----------------------------------------------------------------------------
(* The invariant and what follows from it *)

\* A project that was never deployed satisfies the invariant.
LEMMA InitIInv == Init => IInv
<1> SUFFICES ASSUME Init
             PROVE  IInv
  OBVIOUS
<1>1. TypeOK
  BY CronAssumption DEF Init, TypeOK, NoPass
<1>2. NothingForgotten /\ OwnNames /\ PassSound /\ LeftoversOld
  BY <1>1 DEF Init, NothingForgotten, OwnNames, PassSound, LeftoversOld
<1>3. SlotsAhead
  BY DEF Init, SlotsAhead
<1>4. QED
  BY <1>2, <1>3 DEF IInv

\* Every step of a pass and every step beside it preserves the invariant.
LEMMA NextIInv == IInv /\ [Next]_vars => IInv'
<1> SUFFICES ASSUME IInv, [Next]_vars
             PROVE  IInv'
  OBVIOUS
<1>1. CASE PollBegin \/ PollList \/ PollFails
  BY <1>1, PollStep
<1>2. CASE LaunchCronJob
  BY <1>2, LaunchStep
<1>3. CASE Prune
  BY <1>3, PruneStep
<1>4. CASE RemoveFinished \/ \E s \in Services : Inspect(s)
  BY <1>4, RemoveFinishedStep, InspectStep
<1>5. CASE \E s \in Services : Visit(s)
  BY <1>5, VisitStep
<1>6. CASE User \/ Redeploy
  BY <1>6, UserStep
<1>7. CASE Tick
  BY <1>7, TickStep
<1>8. CASE Crash
  BY <1>8, CrashStep
<1>9. CASE \E c \in conts : JobExits(c)
  BY <1>9, JobExitsStep
<1>10. CASE UNCHANGED vars
  <2>1. TypeOK'
    BY <1>10 DEF vars, IInv, NothingForgotten, TypeOK
  <2>2. now <= now'
    BY <1>10 DEF vars, IInv, NothingForgotten, TypeOK
  <2>3. UNCHANGED <<memory, lastSlot, crashes, conts, kept>>
    BY <1>10 DEF vars, memory
  <2>4. QED
    BY <2>1, <2>2, <2>3, OutsideStep
<1>11. QED
  BY <1>1, <1>2, <1>3, <1>4, <1>5, <1>6, <1>7, <1>8, <1>9, <1>10 DEF Next, Poll

\* IInv holds in every reachable state.
THEOREM Invariance == Spec => []IInv
  BY InitIInv, NextIInv, PTL DEF Spec

\* Until the process dies, running_jobs names every container of a job but for
\* those that docker did not remove when asked.
THEOREM JobsAreRemembered == Spec => []NothingForgotten
<1>1. IInv => NothingForgotten
  BY DEF IInv
<1>2. QED
  BY <1>1, Invariance, PTL

\* No slot of a service is attempted twice, also across edits, rollouts and crashes.
THEOREM NoSlotTwice == Spec => SlotsAdvance
<1>1. ASSUME IInv, Next, NEW s \in Services, pc = "pass", pc' = "launch", cur' = s
      PROVE  lastSlot'[s] > lastSlot[s]
  <2>1. PICK x \in Services : Visit(x)
    BY <1>1 DEF Next, Poll, PollBegin, PollList, LaunchCronJob, Prune, Inspect, RemoveFinished,
         PollFails, User, StopCronService, DeleteCronService, EditSchedule, Tick,
         Redeploy, Crash, JobExits, memory
  <2> DEFINE st == CurrentState(x)
  <2>2. DueForLaunch(x, st) /\ x \in todo
    BY <1>1, <2>1 DEF Visit
  <2>3. lastSlot' = [lastSlot EXCEPT ![x] = st.next] /\ cur' = x
    BY <2>1, <2>2 DEF Visit
  <2>4. /\ st \in States \cup {Null}
        /\ st = schedules[x] \/ (st # Null => st.next > now)
    BY <1>1, <2>2, CurrentFacts
  <2>5. st # Null /\ now >= st.next
    BY <2>2 DEF DueForLaunch
  <2> HIDE DEF st
  <2>6. now \in Nat /\ lastSlot \in [Services -> Nat]
    BY <1>1 DEF IInv, NothingForgotten, TypeOK
  <2>7. st = schedules[x] /\ st.next \in Nat
    BY <2>4, <2>5, <2>6 DEF States
  <2>8. lastSlot[x] < st.next
    BY <1>1, <2>5, <2>7 DEF IInv, SlotsAhead
  <2>9. QED
    BY <1>1, <2>3, <2>6, <2>7, <2>8
<1>2. IInv /\ [Next]_vars =>
         [\A s \in Services : pc = "pass" /\ pc' = "launch" /\ cur' = s =>
              lastSlot'[s] > lastSlot[s]]_vars
  BY <1>1
<1>3. QED
  BY <1>2, Invariance, PTL DEF Spec, SlotsAdvance

\* What may become of a job that runs, in one step.
Disturbed(c) ==
  \/ c \in conts'
  \/ JobExits(c)
  \/ \E s \in Services : /\ StopCronService(s) \/ DeleteCronService(s)
                         /\ c.svc \in Covered[s]
  \/ /\ pc = "pass" /\ todo = {}
     /\ \E s \in Services \ ActiveKeys : jobs[s] = c.name
  \/ pc = "unseen" /\ jobs[cur] = c.name
  \/ /\ pc = "launch" /\ c.name = <<NameOf[cur], now>>
     /\ c.svc # cur \/ c.name \in kept

LEMMA JobStep ==
  ASSUME IInv, [Next]_vars, NEW c \in Live
  PROVE  Disturbed(c)
<1>1. TypeOK /\ now \in Nat /\ c \in conts /\ c.run
  BY DEF IInv, NothingForgotten, TypeOK, Live
<1>2. c.svc \in Services /\ c.name[2] \in Nat /\ c.name # Null
  BY <1>1, ContainerFacts
<1>3. CASE conts' = conts
  BY <1>1, <1>3 DEF Disturbed
<1>4. ASSUME NEW names, Remove(names), c.name \notin names
      PROVE  c \in conts'
  BY <1>1, <1>4, RemoveFacts
<1>5. CASE RemoveFinished
  <2>1. pc \in {"finished", "unseen"} /\ Remove({jobs[cur]})
    BY <1>5 DEF RemoveFinished
  <2>2. CASE c.name = jobs[cur]
    BY <2>1, <2>2 DEF IInv, PassSound, Disturbed
  <2>3. CASE c.name # jobs[cur]
    BY <1>4, <2>1, <2>3 DEF Disturbed
  <2>4. QED
    BY <2>2, <2>3
<1>6. CASE LaunchCronJob
  <2> DEFINE name == <<NameOf[cur], now>>
  <2>1. pc = "launch" /\ (JobStarts(name) \/ JobFails(name))
    BY <1>6 DEF LaunchCronJob
  <2>2. cur \in Services /\ jobs[cur] = Null
    BY <2>1 DEF IInv, PassSound
  <2>3. conts \subseteq conts' \/ Remove({name})
    BY <2>1 DEF JobStarts, JobFails
  <2>4. CASE c.name # name
    <3> HIDE DEF name
    <3>1. c \in conts'
      BY <1>1, <1>4, <2>3, <2>4
    <3>2. QED
      BY <3>1 DEF Disturbed
  <2>5. CASE c.name = name /\ c.svc = cur /\ c.name \notin kept
    <3>1. c.name[2] < now
      BY <1>1, <1>2, <2>1, <2>2, <2>5 DEF IInv, LeftoversOld
    <3>2. QED
      BY <1>1, <2>5, <3>1
  <2>6. CASE c.name = name /\ (c.svc # cur \/ c.name \in kept)
    BY <2>1, <2>6 DEF Disturbed
  <2>7. QED
    BY <2>4, <2>5, <2>6
<1>7. CASE Prune
  <2> DEFINE gone == {jobs[s] : s \in Services \ ActiveKeys}
  <2>1. pc = "pass" /\ todo = {} /\ Remove(gone)
    BY <1>7 DEF Prune
  <2>2. CASE c.name \in gone
    BY <2>1, <2>2 DEF Disturbed
  <2>3. CASE c.name \notin gone
    <3> HIDE DEF gone
    <3>1. QED
      BY <1>4, <2>1, <2>3 DEF Disturbed
  <2>4. QED
    BY <2>2, <2>3
<1>8. ASSUME NEW e \in conts, JobExits(e)
      PROVE  Disturbed(c)
  <2>1. CASE e = c
    BY <1>8, <2>1 DEF Disturbed
  <2>2. CASE e # c
    BY <1>1, <1>8, <2>2 DEF JobExits, Disturbed
  <2>3. QED
    BY <2>1, <2>2
<1>9. ASSUME NEW s \in Services, StopCronService(s) \/ DeleteCronService(s)
      PROVE  Disturbed(c)
  <2> DEFINE names == JobsOf(Covered[s])
  <2>1. Remove(names) \/ conts' = conts
    BY <1>9 DEF StopCronService, DeleteCronService
  <2>2. CASE c.svc \in Covered[s]
    BY <1>9, <2>2 DEF Disturbed
  <2>3. CASE c.svc \notin Covered[s]
    <3>1. c.name \notin names
      BY <1>1, <2>3 DEF JobsOf, TypeOK
    <3> HIDE DEF names
    <3>2. c \in conts'
      BY <1>1, <1>4, <2>1, <3>1
    <3>3. QED
      BY <3>2 DEF Disturbed
  <2>4. QED
    BY <2>2, <2>3
<1>10. CASE \/ PollBegin \/ PollList \/ PollFails \/ Tick \/ Redeploy \/ Crash
            \/ \E s \in Services : \/ Visit(s) \/ Inspect(s)
                                   \/ \E p \in Periods : EditSchedule(s, p)
            \/ UNCHANGED vars
  <2>1. conts' = conts
    BY <1>10 DEF PollBegin, PollList, PollFails, Tick, Redeploy, Crash, Visit,
         Inspect, EditSchedule, vars
  <2>2. QED
    BY <1>3, <2>1
<1>11. QED
  BY <1>5, <1>6, <1>7, <1>8, <1>9, <1>10 DEF Next, Poll, User

\* A job that runs is left alone until it ends, its service is stopped or is no
\* longer scheduled, docker fails to inspect it, or a service with the same
\* prefix is launched in the same second; a service never meets the name of a
\* job of its own, not even of one that a crash left behind.
THEOREM JobsAreLeftAlone == Spec => JobsRunToEnd
<1>1. IInv /\ [Next]_vars => [\A c \in Live : Disturbed(c)]_vars
  BY JobStep
<1>2. QED
  BY <1>1, Invariance, PTL DEF Spec, JobsRunToEnd, Disturbed
=============================================================================
