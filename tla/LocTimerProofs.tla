---------------------------- MODULE LocTimerProofs ----------------------------
(***************************************************************************)
(* Proofs about LocTimer for every set of timers, delegates and delays,    *)
(* and about LocCfg for every file, device and engine.                     *)
(***************************************************************************)
EXTENDS LocTimer, LocCfg, TLAPS

\* A message that is put at the end of a queue.
LEMMA AppendFacts ==
  ASSUME NEW S, NEW q \in Seq(S), NEW m \in S
  PROVE  /\ Append(q, m) \in Seq(S)
         /\ DOMAIN Append(q, m) = 1 .. Len(q) + 1
         /\ DOMAIN q = 1 .. Len(q) /\ Len(q) \in Nat
         /\ \A i \in DOMAIN q : i \in DOMAIN Append(q, m) /\ Append(q, m)[i] = q[i]
         /\ Append(q, m)[Len(q) + 1] = m
OBVIOUS

\* A message that is taken from the head of a queue.
LEMMA TailFacts ==
  ASSUME NEW S, NEW q \in Seq(S), q # <<>>
  PROVE  /\ Tail(q) \in Seq(S) /\ Head(q) \in S
         /\ 1 \in DOMAIN q /\ Head(q) = q[1]
         /\ \A i \in DOMAIN Tail(q) : /\ i + 1 \in DOMAIN q /\ Tail(q)[i] = q[i + 1]
                                      /\ i \in Nat /\ i >= 1
         /\ \A i \in DOMAIN q : i # 1 => i - 1 \in DOMAIN Tail(q)
                                         /\ Tail(q)[i - 1] = q[i]
OBVIOUS

\* What the kinds of message are.
LEMMA MessageFacts ==
  /\ \A d \in Ids : Push(d) \in Messages /\ Removal(d) \in Messages
  /\ Expire \in Messages
  /\ \A m \in Messages : /\ m.kind \in {"push", "remove"} => m.id \in Ids
                         /\ m.kind = "expire" <=> m = Expire
BY DEF Messages, Push, Removal, Expire

-----------------------------------------------------------------------------
\* A step keeps every variable's type.
LEMMA TypeStep ==
  ASSUME TypeOK, [Next]_vars
  PROVE  TypeOK'
<1> USE TimeAssumption
<1>1. ASSUME NEW t \in Timers, NEW delay \in Delays, Start(t, delay) PROVE TypeOK'
  <2>1. PICK d \in Ids : /\ timer' = [timer EXCEPT ![t] = d]
                         /\ client' = [client EXCEPT ![d] = t]
                         /\ due' = [due EXCEPT ![d] = Due(delay)]
                         /\ alive' = alive \cup {d}
                         /\ queue' = Append(queue, Push(d))
    BY <1>1 DEF Start
  <2>2. queue' \in Seq(Messages)
    BY <2>1, AppendFacts, MessageFacts DEF TypeOK
  <2>3. Due(delay) \in 0 .. MaxTime
    BY <1>1 DEF Start, Due, TypeOK
  <2> QED  BY <1>1, <2>1, <2>2, <2>3 DEF Start, TypeOK, taskVars, kernelVars
<1>2. ASSUME NEW t \in Timers, timer[t] # None, Stopped(t)
      PROVE  /\ timer' \in [Timers -> Ids \cup {None}]
             /\ client' \in [Ids -> Timers \cup {None}]
             /\ queue' \in Seq(Messages)
  <2>1. timer[t] \in Ids
    BY <1>2 DEF TypeOK
  <2> QED  BY <1>2, <2>1, AppendFacts, MessageFacts DEF Stopped, TypeOK
<1>3. ASSUME NEW t \in Timers, Stop(t) PROVE TypeOK'
  BY <1>2, <1>3 DEF Stop, TypeOK, taskVars, kernelVars
<1>4. ASSUME NEW k, Received(k) PROVE Head(queue) \in Messages /\ queue' \in Seq(Messages)
  BY <1>4, TailFacts DEF Received, TypeOK
<1>5. ASSUME NEW H \in SUBSET Ids, UpdateSoonest(H)
      PROVE  /\ task' \in {"idle", "arm"} /\ target' = None /\ polled' \in BOOLEAN
             /\ soonest' \in 0 .. MaxTime /\ UNCHANGED <<expiry, armed>>
  BY <1>5 DEF UpdateSoonest, Tops, TypeOK
<1>6. CASE HandlePush
  <2>1. Head(queue).id \in Ids /\ queue' \in Seq(Messages)
    BY <1>4, <1>6, MessageFacts DEF HandlePush, Received
  <2>2. heap' \in SUBSET Ids /\ (UpdateSoonest(heap') \/ KeepSoonest)
    BY <1>6, <2>1 DEF HandlePush, TypeOK
  <2> QED
    BY <1>5, <1>6, <2>1, <2>2
    DEF HandlePush, KeepSoonest, TypeOK, taskVars, kernelVars
<1>7. CASE HandleRemove
  <2>1. Head(queue).id \in Ids /\ queue' \in Seq(Messages)
    BY <1>4, <1>7, MessageFacts DEF HandleRemove, Received
  <2>2. /\ heap' \in SUBSET Ids /\ alive' \in SUBSET Ids
        /\ UpdateSoonest(heap') \/ KeepSoonest
    BY <1>7, <2>1 DEF HandleRemove, TypeOK
  <2> QED
    BY <1>5, <1>7, <2>1, <2>2
    DEF HandleRemove, KeepSoonest, TypeOK, taskVars, kernelVars
<1>8. ASSUME NEW d \in Ids, Pop(d)
      PROVE  /\ heap' \subseteq Ids /\ target' \in Timers \cup {None}
             /\ task' = "stop" /\ UNCHANGED <<soonest, armed, polled>>
  BY <1>8 DEF Pop, TypeOK, kernelVars
<1>9. CASE HandleExpire
  <2>1. queue' \in Seq(Messages)
    BY <1>4, <1>9 DEF HandleExpire
  <2>2. CASE KeepSoonest /\ UNCHANGED heap
    BY <1>9, <2>1, <2>2 DEF HandleExpire, KeepSoonest, TypeOK, taskVars, kernelVars
  <2>3. CASE (\E d \in Tops(heap) : Pop(d)) /\ expiry' = now
    <3>1. PICK d \in Ids : Pop(d)
      BY <2>3 DEF Tops, TypeOK
    <3> QED  BY <1>8, <1>9, <2>1, <2>3, <3>1 DEF HandleExpire, TypeOK
  <2> QED  BY <1>9, <2>2, <2>3 DEF HandleExpire
<1>10. CASE ExpireStop
  <2>1. CASE target # None /\ timer[target] # None
    <3>1. target \in Timers /\ Stopped(target) /\ last' = [last EXCEPT ![target] = "called"]
      BY <1>10, <2>1 DEF ExpireStop, TypeOK
    <3> QED  BY <1>2, <1>10, <2>1, <3>1 DEF ExpireStop, TypeOK, kernelVars
  <2>2. CASE ~(target # None /\ timer[target] # None)
    BY <1>10, <2>2 DEF ExpireStop, TypeOK, kernelVars
  <2> QED  BY <2>1, <2>2
<1>11. CASE ExpireNext
  <2>1. CASE \E d \in Tops(heap) : due[d] <= expiry /\ Pop(d)
    <3>1. PICK d \in Ids : Pop(d)
      BY <2>1 DEF Tops, TypeOK
    <3>2. UNCHANGED expiry
      BY <1>11, <3>1, <1>8 DEF ExpireNext, UpdateSoonest
    <3> QED  BY <1>8, <1>11, <3>1, <3>2 DEF ExpireNext, TypeOK
  <2>2. CASE UpdateSoonest(heap) /\ UNCHANGED heap
    <3>1. heap \in SUBSET Ids
      BY DEF TypeOK
    <3> QED  BY <1>5, <1>11, <2>2, <3>1 DEF ExpireNext, TypeOK
  <2> QED  BY <1>11, <2>1, <2>2 DEF ExpireNext
<1>12. CASE Arm
  BY <1>12 DEF Arm, TypeOK
<1>13. CASE PollWake \/ Disarm \/ Unpoll
  BY <1>13 DEF PollWake, Disarm, Unpoll, TypeOK, taskVars, kernelVars
<1>14. CASE Post
  <2>1. queue' \in Seq(Messages)
    BY <1>14, AppendFacts, MessageFacts DEF Post, TypeOK
  <2> QED  BY <1>14, <2>1 DEF Post, TypeOK, taskVars, kernelVars
<1>15. CASE Tick
  BY <1>15 DEF Tick, TypeOK, taskVars, kernelVars
<1>16. CASE UNCHANGED vars
  BY <1>16 DEF vars, TypeOK, taskVars, kernelVars
<1> QED
  BY <1>1, <1>3, <1>6, <1>7, <1>9, <1>10, <1>11, <1>12, <1>13, <1>14, <1>15, <1>16
  DEF Next, Client, Task, Poll

\* A service that starts has every variable of its type.
LEMMA TypeInit == Init => TypeOK
<1> SUFFICES ASSUME Init PROVE TypeOK
  OBVIOUS
<1>1. /\ timer \in [Timers -> Ids \cup {None}]
      /\ client \in [Ids -> Timers \cup {None}]
      /\ last \in [Timers -> {"never", "running", "stopped", "called"}]
  BY DEF Init
<1>2. 0 \in 0 .. MaxTime
  BY TimeAssumption
<1>3. due \in [Ids -> 0 .. MaxTime]
  BY <1>2 DEF Init
<1>4. queue \in Seq(Messages)
  BY DEF Init
<1> QED  BY <1>1, <1>2, <1>3, <1>4 DEF Init, TypeOK

\* Every variable keeps its type, in every behaviour of the service.
THEOREM TimerTypeCorrect == Spec => []TypeOK
<1>1. TypeOK /\ [Next]_vars => TypeOK'
  BY TypeStep
<1> QED  BY <1>1, TypeInit, PTL DEF Spec

-----------------------------------------------------------------------------
\* What keeps the delegates: no two timers have the same one, the one a timer
\* points at is not being removed, and once a delegate is being removed no
\* later message names it.
OneOwner == \A t, u \in Timers : timer[t] # None /\ timer[t] = timer[u] => t = u

NotRemoved ==
  \A t \in Timers : \A i \in DOMAIN queue : queue[i].kind = "remove" => queue[i].id # timer[t]

RemoveIsLast ==
  \A i, j \in DOMAIN queue : i < j /\ queue[i].kind = "remove" => queue[j].id # queue[i].id

LifeInv == TypeOK /\ DelegatesAlive /\ OneOwner /\ NotRemoved /\ RemoveIsLast

\* What keeps the wake-ups: while the task is about to set the descriptor, the
\* time it has is the soonest, and the descriptor is polled unless an expire
\* is under way.
ArmIsSoonest ==
  task = "arm" => (\A d \in heap : soonest <= due[d]) /\ (polled \/ ExpireUnderWay)

WakeInv == LifeInv /\ NoLostWakeup /\ ArmIsSoonest

-----------------------------------------------------------------------------
(***************************************************************************)
(* The delegates.                                                          *)
(***************************************************************************)
\* What a step does to the places of the queue.
LEMMA QueueGrows ==
  ASSUME TypeOK, NEW m \in Messages, queue' = Append(queue, m)
  PROVE  /\ \A i \in DOMAIN queue : queue'[i] = queue[i] /\ i \in DOMAIN queue'
         /\ \A i \in DOMAIN queue' \ DOMAIN queue :
              queue'[i] = m /\ \A j \in DOMAIN queue' : i >= j
         /\ \E i \in DOMAIN queue' : queue'[i] = m
<1>1. queue \in Seq(Messages)
  BY DEF TypeOK
<1>2. /\ DOMAIN queue = 1 .. Len(queue) /\ Len(queue) \in Nat
      /\ DOMAIN queue' = 1 .. Len(queue) + 1
  BY <1>1, AppendFacts
<1> QED  BY <1>1, <1>2, AppendFacts

LEMMA QueueShrinks ==
  ASSUME TypeOK, NEW k, Received(k)
  PROVE  /\ 1 \in DOMAIN queue /\ queue[1] = Head(queue) /\ queue[1].kind = k
         /\ queue[1] \in Messages
         /\ \A i \in DOMAIN queue' : /\ i + 1 \in DOMAIN queue /\ queue'[i] = queue[i + 1]
                                      /\ i \in Nat /\ i >= 1
         /\ \A i \in DOMAIN queue : i # 1 => i - 1 \in DOMAIN queue'
                                             /\ queue'[i - 1] = queue[i]
BY TailFacts DEF Received, TypeOK

\* What the task takes from the queue names a delegate that is allocated; what
\* it leaves there still has the order that it had.
LEMMA LifeReceived ==
  ASSUME LifeInv, NEW k, Received(k), UNCHANGED timer
  PROVE  /\ k # "expire" => Head(queue).id \in alive
         /\ \A i \in DOMAIN queue' : queue'[i].kind # "expire" => queue'[i].id \in alive
         /\ k = "remove" => /\ \A i \in DOMAIN queue' : queue'[i].id # Head(queue).id
                            /\ \A t \in Timers : timer[t] # Head(queue).id
         /\ NotRemoved' /\ RemoveIsLast'
<1> USE QueueShrinks DEF LifeInv
<1>1. k # "expire" => Head(queue).id \in alive
  BY DEF DelegatesAlive
<1>2. \A i \in DOMAIN queue' : queue'[i].kind # "expire" => queue'[i].id \in alive
  BY DEF DelegatesAlive
<1>3. k = "remove" => \A i \in DOMAIN queue' : queue'[i].id # Head(queue).id
  <2> SUFFICES ASSUME k = "remove", NEW i \in DOMAIN queue'
               PROVE  queue'[i].id # Head(queue).id
    OBVIOUS
  <2>1. i + 1 \in DOMAIN queue /\ 1 < i + 1 /\ queue'[i] = queue[i + 1]
    OBVIOUS
  <2> QED  BY <2>1 DEF RemoveIsLast
<1>4. k = "remove" => \A t \in Timers : timer[t] # Head(queue).id
  BY DEF NotRemoved
<1>5. NotRemoved'
  BY DEF NotRemoved
<1>6. RemoveIsLast'
  <2> SUFFICES ASSUME NEW i \in DOMAIN queue', NEW j \in DOMAIN queue',
                      i < j, queue'[i].kind = "remove"
               PROVE  queue'[j].id # queue'[i].id
    BY DEF RemoveIsLast
  <2>1. /\ i + 1 \in DOMAIN queue /\ queue'[i] = queue[i + 1]
        /\ j + 1 \in DOMAIN queue /\ queue'[j] = queue[j + 1]
        /\ i + 1 < j + 1
    OBVIOUS
  <2> QED  BY <2>1 DEF RemoveIsLast
<1> QED  BY <1>1, <1>2, <1>3, <1>4, <1>5, <1>6

\* A stop leaves the delegate to its removal: nothing points at it, and no
\* later message names it.
LEMMA LifeStopped ==
  ASSUME LifeInv, TypeOK', NEW t \in Timers, timer[t] # None, Stopped(t),
         UNCHANGED <<alive, heap>>
  PROVE  LifeInv'
<1> DEFINE d == timer[t]
<1>1. d \in Ids /\ d # None /\ TypeOK
  BY DEF LifeInv, TypeOK
<1>2. Removal(d) \in Messages /\ Removal(d).kind = "remove" /\ Removal(d).id = d
  BY <1>1, MessageFacts DEF Removal
<1>3. queue' = Append(queue, Removal(d))
  BY DEF Stopped
<1>4. /\ \A i \in DOMAIN queue : queue'[i] = queue[i] /\ i \in DOMAIN queue'
      /\ \A i \in DOMAIN queue' \ DOMAIN queue :
           queue'[i] = Removal(d) /\ \A j \in DOMAIN queue' : i >= j
  BY <1>1, <1>2, <1>3, QueueGrows
<1>5. \A u \in Timers : timer'[u] # None => timer'[u] = timer[u] /\ u # t
  BY <1>1 DEF Stopped, TypeOK
<1>6. d \in alive
  BY DEF LifeInv, DelegatesAlive
<1>7. DelegatesAlive'
  BY <1>2, <1>4, <1>5, <1>6 DEF LifeInv, DelegatesAlive
<1>8. OneOwner'
  BY <1>5 DEF LifeInv, OneOwner
<1>9. NotRemoved'
  <2> SUFFICES ASSUME NEW u \in Timers, NEW i \in DOMAIN queue',
                      queue'[i].kind = "remove", queue'[i].id = timer'[u]
               PROVE  FALSE
    BY DEF NotRemoved
  <2>1. timer'[u] # None
    BY <1>1, <1>2, <1>4, MessageFacts, NoneAssumption DEF TypeOK
  <2> QED  BY <1>2, <1>4, <1>5, <2>1 DEF LifeInv, NotRemoved, OneOwner
<1>10. RemoveIsLast'
  <2> SUFFICES ASSUME NEW i \in DOMAIN queue', NEW j \in DOMAIN queue',
                      i < j, queue'[i].kind = "remove"
               PROVE  queue'[j].id # queue'[i].id
    BY DEF RemoveIsLast
  <2>1. i \in DOMAIN queue
    <3>1. DOMAIN queue' \subseteq Nat
      BY DEF TypeOK
    <3> QED  BY <1>4, <3>1
  <2>2. CASE j \in DOMAIN queue
    BY <1>4, <2>1, <2>2 DEF LifeInv, RemoveIsLast
  <2>3. CASE j \notin DOMAIN queue
    BY <1>2, <1>4, <2>1, <2>3 DEF LifeInv, NotRemoved
  <2> QED  BY <2>2, <2>3
<1> QED  BY <1>7, <1>8, <1>9, <1>10 DEF LifeInv

\* A start takes a delegate that no timer, no message and no heap has.
LEMMA LifeStarted ==
  ASSUME LifeInv, TypeOK', NEW t \in Timers, NEW delay \in Delays, Start(t, delay)
  PROVE  LifeInv'
<1>1. PICK d \in Ids \ alive : /\ timer' = [timer EXCEPT ![t] = d]
                                /\ alive' = alive \cup {d}
                                /\ queue' = Append(queue, Push(d))
  BY DEF Start
<1>2. /\ timer[t] = None /\ heap' = heap /\ TypeOK
      /\ timer \in [Timers -> Ids \cup {None}] /\ None \notin Ids
  BY NoneAssumption DEF Start, LifeInv, TypeOK
<1>3. Push(d) \in Messages /\ Push(d).kind = "push" /\ Push(d).id = d
  BY MessageFacts DEF Push
<1>4. /\ \A i \in DOMAIN queue : queue'[i] = queue[i] /\ i \in DOMAIN queue'
      /\ \A i \in DOMAIN queue' \ DOMAIN queue :
           queue'[i] = Push(d) /\ \A j \in DOMAIN queue' : i >= j
  BY <1>1, <1>2, <1>3, QueueGrows
<1>5. \A u \in Timers : timer'[u] = IF u = t THEN d ELSE timer[u]
  BY <1>1, <1>2
<1>6. /\ \A u \in Timers : timer[u] # d
      /\ \A i \in DOMAIN queue : queue[i].kind # "expire" => queue[i].id # d
  BY <1>2 DEF LifeInv, DelegatesAlive
<1>7. DelegatesAlive'
  BY <1>1, <1>2, <1>3, <1>4, <1>5 DEF LifeInv, DelegatesAlive
<1>8. OneOwner'
  BY <1>2, <1>5, <1>6 DEF LifeInv, OneOwner
<1>9. NotRemoved'
  BY <1>3, <1>4, <1>5, <1>6 DEF LifeInv, NotRemoved
<1>10. RemoveIsLast'
  <2> SUFFICES ASSUME NEW i \in DOMAIN queue', NEW j \in DOMAIN queue',
                      i < j, queue'[i].kind = "remove"
               PROVE  queue'[j].id # queue'[i].id
    BY DEF RemoveIsLast
  <2>1. i \in DOMAIN queue
    <3>1. DOMAIN queue' \subseteq Nat
      BY DEF TypeOK
    <3> QED  BY <1>4, <3>1
  <2>2. CASE j \in DOMAIN queue
    BY <1>4, <2>1, <2>2 DEF LifeInv, RemoveIsLast
  <2>3. CASE j \notin DOMAIN queue
    BY <1>3, <1>4, <1>6, <2>1, <2>3
  <2> QED  BY <2>2, <2>3
<1> QED  BY <1>7, <1>8, <1>9, <1>10 DEF LifeInv

\* A step keeps what the delegates rest on.
LEMMA LifeStep ==
  ASSUME LifeInv, [Next]_vars
  PROVE  LifeInv'
<1> USE DEF LifeInv
<1>1. TypeOK'
  BY TypeStep
<1>2. ASSUME UNCHANGED <<timer, alive, heap, queue>> PROVE LifeInv'
  BY <1>1, <1>2 DEF DelegatesAlive, OneOwner, NotRemoved, RemoveIsLast
<1>3. ASSUME NEW k, Received(k), UNCHANGED <<timer, alive>>, heap' \subseteq alive
      PROVE  LifeInv'
  <2>1. /\ \A i \in DOMAIN queue' : queue'[i].kind # "expire" => queue'[i].id \in alive
        /\ NotRemoved' /\ RemoveIsLast'
    BY <1>3, LifeReceived
  <2> QED  BY <1>1, <1>3, <2>1 DEF DelegatesAlive, OneOwner
<1>4. ASSUME NEW t \in Timers, NEW delay \in Delays, Start(t, delay) PROVE LifeInv'
  BY <1>1, <1>4, LifeStarted
<1>5. ASSUME NEW t \in Timers, Stop(t) PROVE LifeInv'
  BY <1>1, <1>5, LifeStopped DEF Stop
<1>6. CASE HandlePush
  <2>1. Head(queue).id \in alive
    BY <1>6, LifeReceived DEF HandlePush
  <2>2. heap' \subseteq alive
    BY <1>6, <2>1 DEF HandlePush, DelegatesAlive
  <2> QED  BY <1>3, <1>6, <2>2 DEF HandlePush
<1>7. CASE HandleRemove
  <2> DEFINE d == Head(queue).id
  <2>1. Received("remove") /\ heap' = heap \ {d} /\ alive' = alive \ {d} /\ timer' = timer
    BY <1>7 DEF HandleRemove
  <2>2. /\ \A i \in DOMAIN queue' : queue'[i].kind # "expire" => queue'[i].id \in alive
        /\ \A i \in DOMAIN queue' : queue'[i].id # d
        /\ \A t \in Timers : timer[t] # d
        /\ NotRemoved' /\ RemoveIsLast'
    BY <2>1, LifeReceived
  <2> HIDE DEF d
  <2> QED  BY <1>1, <2>1, <2>2 DEF DelegatesAlive, OneOwner
<1>8. CASE HandleExpire
  <2>1. heap' \subseteq alive
    BY <1>8 DEF HandleExpire, Pop, DelegatesAlive
  <2> QED  BY <1>3, <1>8, <2>1 DEF HandleExpire
<1>9. CASE ExpireStop
  <2>1. CASE target # None /\ timer[target] # None
    <3>1. target \in Timers /\ Stopped(target) /\ UNCHANGED <<alive, heap>>
      BY <1>9, <2>1 DEF ExpireStop, TypeOK
    <3> QED  BY <1>1, <2>1, <3>1, LifeStopped
  <2>2. CASE ~(target # None /\ timer[target] # None)
    BY <1>2, <1>9, <2>2 DEF ExpireStop
  <2> QED  BY <2>1, <2>2
<1>10. CASE ExpireNext
  <2>1. heap' \subseteq heap /\ UNCHANGED <<timer, alive, queue>>
    BY <1>10 DEF ExpireNext, Pop
  <2> QED  BY <1>1, <2>1 DEF DelegatesAlive, OneOwner, NotRemoved, RemoveIsLast
<1>11. CASE Post
  <2>1. /\ \A i \in DOMAIN queue : queue'[i] = queue[i] /\ i \in DOMAIN queue'
        /\ \A i \in DOMAIN queue' \ DOMAIN queue :
             queue'[i] = Expire /\ \A j \in DOMAIN queue' : i >= j
    BY <1>11, MessageFacts, QueueGrows DEF Post
  <2>2. Expire.kind = "expire" /\ Expire.id = None /\ UNCHANGED <<timer, alive, heap>>
    BY <1>11 DEF Post, Expire
  <2>3. DelegatesAlive' /\ OneOwner' /\ NotRemoved'
    BY <2>1, <2>2 DEF DelegatesAlive, OneOwner, NotRemoved
  <2>4. RemoveIsLast'
    <3> SUFFICES ASSUME NEW i \in DOMAIN queue', NEW j \in DOMAIN queue',
                        i < j, queue'[i].kind = "remove"
                 PROVE  queue'[j].id # queue'[i].id
      BY DEF RemoveIsLast
    <3>1. i \in DOMAIN queue /\ queue[i].kind = "remove"
      BY <2>1, <2>2
    <3>2. queue[i].id \in Ids /\ None \notin Ids
      BY <3>1, MessageFacts, NoneAssumption DEF TypeOK
    <3> QED  BY <2>1, <2>2, <3>1, <3>2 DEF RemoveIsLast
  <2> QED  BY <1>1, <2>3, <2>4
<1>12. CASE Arm \/ PollWake \/ Disarm \/ Unpoll \/ Tick \/ UNCHANGED vars
  BY <1>2, <1>12 DEF Arm, PollWake, Disarm, Unpoll, Tick, vars
<1> QED
  BY <1>4, <1>5, <1>6, <1>7, <1>8, <1>9, <1>10, <1>11, <1>12
  DEF Next, Client, Task, Poll

LEMMA LifeInit == Init => LifeInv
BY TypeInit DEF Init, LifeInv, DelegatesAlive, OneOwner, NotRemoved, RemoveIsLast

\* No delegate is used after it was deleted, nor deleted twice, for any number
\* of timers and in any order of the starts, stops and time-outs.
THEOREM TimerDelegatesAlive == Spec => []DelegatesAlive
<1>1. LifeInv /\ [Next]_vars => LifeInv'
  BY LifeStep
<1>2. LifeInv => DelegatesAlive
  BY DEF LifeInv
<1> QED  BY <1>1, <1>2, LifeInit, PTL DEF Spec

-----------------------------------------------------------------------------
(***************************************************************************)
(* The wake-ups.                                                           *)
(***************************************************************************)
\* An expire that is under way stays so until the task takes it.
LEMMA ExpireStays ==
  ASSUME TypeOK, ExpireUnderWay, poller' = poller,
         \/ queue' = queue
         \/ \E m \in Messages : queue' = Append(queue, m)
         \/ \E k \in {"push", "remove"} : Received(k)
  PROVE  ExpireUnderWay'
<1>1. CASE poller # "wait"
  BY <1>1 DEF ExpireUnderWay
<1>2. CASE \E i \in DOMAIN queue : queue[i] = Expire
  <2>1. PICK i \in DOMAIN queue : queue[i] = Expire
    BY <1>2
  <2>2. CASE queue' = queue
    BY <2>1, <2>2 DEF ExpireUnderWay
  <2>3. CASE \E m \in Messages : queue' = Append(queue, m)
    BY <2>1, <2>3, QueueGrows DEF ExpireUnderWay
  <2>4. CASE \E k \in {"push", "remove"} : Received(k)
    <3>1. /\ queue[1].kind # "expire"
          /\ i # 1 => i - 1 \in DOMAIN queue' /\ queue'[i - 1] = queue[i]
      BY <2>1, <2>4, QueueShrinks
    <3>2. i # 1
      BY <2>1, <3>1 DEF Expire
    <3> QED  BY <2>1, <3>1, <3>2 DEF ExpireUnderWay
  <2> QED  BY <2>2, <2>3, <2>4
<1> QED  BY <1>1, <1>2 DEF ExpireUnderWay

\* The task is left with the soonest time of the heap, or idle with none.
LEMMA WakeUpdated ==
  ASSUME UpdateSoonest(heap'), UNCHANGED due
  PROVE  NoLostWakeup' /\ ArmIsSoonest'
<1>1. CASE heap' = {}
  BY <1>1 DEF UpdateSoonest, NoLostWakeup, ArmIsSoonest
<1>2. CASE heap' # {}
  BY <1>2 DEF UpdateSoonest, Tops, NoLostWakeup, ArmIsSoonest
<1> QED  BY <1>1, <1>2

\* A message that leaves the soonest time as it is leaves the wake-up as well.
LEMMA WakeKept ==
  ASSUME WakeInv, NEW k \in {"push", "remove"}, Received(k), KeepSoonest, TypeOK',
         UNCHANGED <<due, poller>>,
         \A d \in heap' : \E e \in heap : due[e] <= due[d]
  PROVE  NoLostWakeup' /\ ArmIsSoonest'
<1>1. task = "idle" /\ task' = "idle" /\ UNCHANGED <<armed, polled>>
  BY DEF Received, KeepSoonest, taskVars, kernelVars
<1>2. ASSUME heap' # {} PROVE ExpireUnderWay' \/ WillWake'
  <2>1. heap # {}
    BY <1>2
  <2>2. CASE ExpireUnderWay
    BY <2>2, ExpireStays DEF WakeInv, LifeInv
  <2>3. CASE WillWake
    <3>1. \A d \in heap' : armed <= due[d]
      <4> TAKE d \in heap'
      <4>1. PICK e \in heap : due[e] <= due[d]
        OBVIOUS
      <4>2. armed <= due[e]
        BY <2>3 DEF WillWake
      <4>3. due[e] \in Nat /\ due[d] \in Nat /\ armed \in Nat
        BY <2>3, TimeAssumption DEF WakeInv, LifeInv, TypeOK, WillWake
      <4> QED  BY <4>1, <4>2, <4>3
    <3> QED  BY <1>1, <2>3, <3>1 DEF WillWake
  <2> QED  BY <1>1, <2>1, <2>2, <2>3 DEF WakeInv, NoLostWakeup
<1> QED  BY <1>1, <1>2 DEF NoLostWakeup, ArmIsSoonest

\* A step that leaves the heap and the descriptor alone, and no expire taken.
LEMMA WakeFramed ==
  ASSUME WakeInv, UNCHANGED <<task, soonest, heap, armed, polled, poller>>,
         \A d \in heap : due'[d] = due[d],
         queue' = queue \/ \E m \in Messages : queue' = Append(queue, m)
  PROVE  NoLostWakeup' /\ ArmIsSoonest'
<1>1. ExpireUnderWay => ExpireUnderWay'
  BY ExpireStays DEF WakeInv, LifeInv
<1>2. WillWake => WillWake'
  BY DEF WillWake
<1> QED  BY <1>1, <1>2 DEF WakeInv, NoLostWakeup, ArmIsSoonest

\* A step keeps what the wake-ups rest on.
LEMMA WakeStep ==
  ASSUME WakeInv, [Next]_vars
  PROVE  WakeInv'
<1>1. LifeInv /\ TypeOK /\ LifeInv' /\ TypeOK'
  BY LifeStep DEF WakeInv, LifeInv
<1> SUFFICES NoLostWakeup' /\ ArmIsSoonest'
  BY <1>1 DEF WakeInv
<1>2. ASSUME NEW t \in Timers, NEW delay \in Delays, Start(t, delay)
      PROVE  NoLostWakeup' /\ ArmIsSoonest'
  <2>1. PICK d \in Ids \ alive : /\ due' = [due EXCEPT ![d] = Due(delay)]
                                  /\ queue' = Append(queue, Push(d))
    BY <1>2 DEF Start
  <2>2. \A e \in heap : due'[e] = due[e]
    BY <1>1, <2>1 DEF LifeInv, DelegatesAlive, TypeOK
  <2> QED
    BY <1>2, <2>1, <2>2, WakeFramed, MessageFacts DEF Start, taskVars, kernelVars
<1>3. ASSUME NEW t \in Timers, Stop(t) PROVE NoLostWakeup' /\ ArmIsSoonest'
  <2>1. timer[t] \in Ids /\ queue' = Append(queue, Removal(timer[t]))
    BY <1>1, <1>3 DEF Stop, Stopped, TypeOK
  <2> QED
    BY <1>3, <2>1, WakeFramed, MessageFacts DEF Stop, taskVars, kernelVars
<1>4. CASE HandlePush
  <2> DEFINE d == Head(queue).id
  <2>1. Received("push") /\ heap' = heap \cup {d} /\ UNCHANGED <<due, poller>>
    BY <1>4 DEF HandlePush
  <2>2. d \in Ids /\ heap \subseteq Ids /\ due \in [Ids -> Nat]
    BY <1>1, <2>1, QueueShrinks, MessageFacts, TimeAssumption DEF TypeOK
  <2>3. CASE UpdateSoonest(heap')
    BY <2>1, <2>3, WakeUpdated
  <2>4. CASE KeepSoonest /\ \E e \in heap : ~(due[d] < due[e])
    <3>1. \A c \in heap' : \E e \in heap : due[e] <= due[c]
      BY <2>1, <2>2, <2>4
    <3> QED  BY <1>1, <2>1, <2>4, <3>1, WakeKept
  <2> QED  BY <1>4, <2>3, <2>4 DEF HandlePush
<1>5. CASE HandleRemove
  <2>1. Received("remove") /\ heap' \subseteq heap /\ UNCHANGED <<due, poller>>
    BY <1>5 DEF HandleRemove
  <2>2. CASE UpdateSoonest(heap')
    BY <2>1, <2>2, WakeUpdated
  <2>3. CASE KeepSoonest
    <3>1. \A c \in heap' : \E e \in heap : due[e] <= due[c]
      BY <1>1, <2>1, TimeAssumption DEF TypeOK
    <3> QED  BY <1>1, <2>1, <2>3, <3>1, WakeKept
  <2> QED  BY <1>5, <2>2, <2>3 DEF HandleRemove
<1>6. CASE HandleExpire
  <2>1. CASE heap = {} /\ UNCHANGED heap /\ KeepSoonest
    BY <1>6, <2>1
    DEF HandleExpire, Received, KeepSoonest, taskVars, NoLostWakeup, ArmIsSoonest
  <2>2. CASE \E d \in Tops(heap) : Pop(d)
    BY <2>2 DEF Pop, NoLostWakeup, ArmIsSoonest
  <2> QED  BY <1>6, <2>1, <2>2 DEF HandleExpire
<1>7. CASE ExpireStop
  BY <1>7 DEF ExpireStop, NoLostWakeup, ArmIsSoonest
<1>8. CASE ExpireNext
  <2>1. CASE \E d \in Tops(heap) : Pop(d)
    BY <2>1 DEF Pop, NoLostWakeup, ArmIsSoonest
  <2>2. CASE UpdateSoonest(heap) /\ UNCHANGED heap
    BY <1>8, <2>2, WakeUpdated DEF ExpireNext
  <2> QED  BY <1>8, <2>1, <2>2 DEF ExpireNext
<1>9. CASE Arm
  <2>1. ExpireUnderWay => ExpireUnderWay'
    BY <1>1, <1>9, ExpireStays DEF Arm
  <2>2. armed' # None
    BY <1>1, <1>9, NoneAssumption, TimeAssumption DEF Arm, TypeOK
  <2> QED
    BY <1>9, <2>1, <2>2 DEF Arm, WakeInv, NoLostWakeup, ArmIsSoonest, WillWake
<1>10. CASE PollWake \/ Disarm \/ Unpoll
  BY <1>10
  DEF PollWake, Disarm, Unpoll, ExpireUnderWay, NoLostWakeup, ArmIsSoonest, WakeInv,
      taskVars
<1>11. CASE Post
  <2>1. ExpireUnderWay'
    BY <1>1, <1>11, QueueGrows, MessageFacts DEF Post, ExpireUnderWay
  <2> QED
    BY <1>11, <2>1 DEF Post, NoLostWakeup, ArmIsSoonest, WakeInv, taskVars
<1>12. CASE Tick \/ UNCHANGED vars
  BY <1>12, WakeFramed DEF Tick, vars, taskVars, kernelVars
<1> QED
  BY <1>2, <1>3, <1>4, <1>5, <1>6, <1>7, <1>8, <1>9, <1>10, <1>11, <1>12
  DEF Next, Client, Task, Poll

\* No time-out is lost between the task, the descriptor and the poll thread.
THEOREM TimerNoLostWakeup == Spec => []NoLostWakeup
<1>1. Init => WakeInv
  BY LifeInit DEF Init, WakeInv, NoLostWakeup, ArmIsSoonest
<1>2. WakeInv /\ [Next]_vars => WakeInv'
  BY WakeStep
<1>3. WakeInv => NoLostWakeup
  BY DEF WakeInv
<1> QED  BY <1>1, <1>2, <1>3, PTL DEF Spec

-----------------------------------------------------------------------------
\* A timer that points at a delegate is one that was started and has not ended.
RunningHasTimer == TypeOK /\ \A t \in Timers : timer[t] # None => last[t] = "running"

\* A start ends at most once, by a stop or by a call back.
THEOREM TimerEndsOnce == Spec => EndsOnce
<1> DEFINE Once == \A t \in Timers : last'[t] \in {"stopped", "called"} /\ last'[t] # last[t]
                                     => last[t] = "running"
<1>1. Init => RunningHasTimer
  BY TypeInit DEF Init, RunningHasTimer
<1>2. RunningHasTimer /\ [Next]_vars => RunningHasTimer' /\ Once
  <2> SUFFICES ASSUME RunningHasTimer, [Next]_vars PROVE RunningHasTimer' /\ Once
    OBVIOUS
  <2>1. TypeOK /\ TypeOK'
    BY TypeStep DEF RunningHasTimer
  <2>2. CASE UNCHANGED <<timer, last>>
    BY <2>1, <2>2 DEF RunningHasTimer
  <2>3. ASSUME NEW t \in Timers, NEW delay \in Delays, Start(t, delay)
        PROVE  RunningHasTimer' /\ Once
    BY <2>1, <2>3 DEF Start, RunningHasTimer, TypeOK
  <2>4. ASSUME NEW t \in Timers, timer[t] # None, Stopped(t),
               NEW e \in {"stopped", "called"}, last' = [last EXCEPT ![t] = e]
        PROVE  RunningHasTimer' /\ Once
    BY <2>1, <2>4 DEF Stopped, RunningHasTimer, TypeOK
  <2>5. ASSUME NEW t \in Timers, Stop(t) PROVE RunningHasTimer' /\ Once
    BY <2>4, <2>5 DEF Stop
  <2>6. CASE ExpireStop
    <3>1. CASE target # None /\ timer[target] # None
      <4>1. target \in Timers /\ Stopped(target) /\ last' = [last EXCEPT ![target] = "called"]
        BY <2>1, <2>6, <3>1 DEF ExpireStop, TypeOK
      <4> QED  BY <2>4, <3>1, <4>1
    <3>2. CASE ~(target # None /\ timer[target] # None)
      BY <2>2, <2>6, <3>2 DEF ExpireStop
    <3> QED  BY <3>1, <3>2
  <2>7. CASE \/ HandlePush \/ HandleRemove \/ HandleExpire \/ ExpireNext \/ Arm
            \/ Poll \/ Tick \/ UNCHANGED vars
    BY <2>2, <2>7
    DEF HandlePush, HandleRemove, HandleExpire, ExpireNext, Arm, Poll, PollWake,
        Disarm, Unpoll, Post, Tick, vars
  <2> QED  BY <2>3, <2>5, <2>6, <2>7 DEF Next, Client, Task
<1> QED  BY <1>1, <1>2, PTL DEF Spec, EndsOnce

-----------------------------------------------------------------------------
\* The file is asked about the correction of measurements at the first report that
\* has it, if any, and that is the report that decides.
Decided ==
  /\ capsKnown \in BOOLEAN /\ sapKnown \in BOOLEAN
  /\ sapKnown => capsKnown
  /\ CorrectionAsked

\* Measurements are corrected only if the file asks for aid by the environment,
\* whatever the engine reports and however often.
THEOREM CfgCorrectionAsked == CfgSpec => []CorrectionAsked
<1>1. CfgInit => Decided
  BY DEF CfgInit, NothingRead, Decided, CorrectionAsked
<1>2. Decided /\ [CfgNext]_cfgVars => Decided'
  <2> SUFFICES ASSUME Decided, [CfgNext]_cfgVars PROVE Decided'
    OBVIOUS
  <2>1. CASE UNCHANGED <<file, capsKnown, supported, sapKnown>>
    BY <2>1 DEF Decided, CorrectionAsked, Says, Said, Named, LastRead
  <2>2. ASSUME NEW features \in Reported, SetEngineCapabilities(features) PROVE Decided'
    <3>1. UNCHANGED file
      BY <2>2 DEF SetEngineCapabilities
    <3>2. CASE UNCHANGED <<capsKnown, supported, sapKnown>>
      BY <2>1, <3>1, <3>2
    <3>3. CASE TakesReport
      <4>1. capsKnown' = TRUE /\ ~sapKnown
        BY <2>2, <3>3 DEF SetEngineCapabilities, TakesReport, Decided
      <4>2. CASE Correction \notin features /\ supported' = features /\ UNCHANGED sapKnown
        BY <4>1, <4>2 DEF Decided, CorrectionAsked
      <4>3. ASSUME NEW b \in BOOLEAN, sapKnown' = Says("SAP"), SapAllows(b),
                   supported' = IF b THEN features ELSE features \ {Correction}
            PROVE  Decided'
        <5>1. Says("SAP") \in BOOLEAN /\ Says("SAP")' = Says("SAP") /\ Said("SAP")' = Said("SAP")
          BY <3>1 DEF Says, Said, Named, LastRead
        <5>2. Says("SAP") /\ Correction \in supported' => Is(Said("SAP"), "PREMIUM_ENV_AIDING")
          BY <4>3 DEF SapAllows
        <5> QED  BY <4>1, <4>3, <5>1, <5>2 DEF Decided, CorrectionAsked, Is
      <4> QED  BY <2>2, <3>3, <4>1, <4>2, <4>3 DEF SetEngineCapabilities
    <3> QED  BY <2>2, <3>2, <3>3 DEF SetEngineCapabilities
  <2> QED
    BY <2>1, <2>2
    DEF CfgNext, cfgVars, engineVars, ReadFeatures, CountProcess, ReadProcess, InitEngHubProxy,
        Update
<1>3. Decided => CorrectionAsked
  BY DEF Decided
<1> QED  BY <1>1, <1>2, <1>3, PTL DEF CfgSpec
=============================================================================
