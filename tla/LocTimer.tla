------------------------------- MODULE LocTimer -------------------------------
(***************************************************************************)
(* The timer service of gps/utils/LocTimer.cpp for one container.          *)
(*                                                                         *)
(* A client starts and stops its LocTimer on its own threads, under the    *)
(* timer's lock.  Each start makes a delegate, which the client's timer    *)
(* points at until it is stopped; the delegate lives on until the service  *)
(* deletes it.  The heap of delegates belongs to one task, to which starts *)
(* and stops send a push and a remove.  The soonest delegate's time is     *)
(* given to a timer descriptor of the kernel; a poll thread waits for it,  *)
(* disarms it and sends the task an expire.                                *)
(*                                                                         *)
(* The heap is a set of delegates here; where the code's tree may have any *)
(* one of those that rank highest on top, the choice is open.              *)
(***************************************************************************)
EXTENDS Naturals, Sequences

CONSTANTS
  Timers,     \* LocTimer objects
  Ids,        \* delegates
  None,       \* a null pointer
  Delays,     \* the time-outs clients ask for
  MaxTime     \* bound on the clock

ASSUME NoneAssumption == None \notin Timers \cup Ids \cup Nat
ASSUME TimeAssumption == MaxTime \in Nat /\ Delays \subseteq Nat

VARIABLES
  now,        \* the boot time clock
  timer,      \* mTimer of each LocTimer
  client,     \* mClient of each delegate
  due,        \* mFutureTime of each delegate
  alive,      \* the delegates that are allocated
  heap,       \* the delegates in the container
  queue,      \* messages of the container's task
  task,       \* what the task does, when it is in a message
  target,     \* the client expire() copied from the delegate it popped
  expiry,     \* the time an expire message read
  soonest,    \* the time the task is about to give to the descriptor
  armed,      \* the time the descriptor is set to, None if it is disarmed
  polled,     \* the descriptor is in the poll set
  poller,     \* what the poll thread does
  last        \* how the last start of each timer ended

taskVars == <<task, target, expiry, soonest>>
kernelVars == <<armed, polled>>
vars == <<now, timer, client, due, alive, heap, queue, taskVars, kernelVars,
          poller, last>>

Messages == [kind : {"push", "remove"}, id : Ids] \cup [kind : {"expire"}, id : {None}]
Push(d) == [kind |-> "push", id |-> d]
Removal(d) == [kind |-> "remove", id |-> d]
Expire == [kind |-> "expire", id |-> None]

TypeOK ==
  /\ now \in 0 .. MaxTime
  /\ timer \in [Timers -> Ids \cup {None}]
  /\ client \in [Ids -> Timers \cup {None}]
  /\ due \in [Ids -> 0 .. MaxTime]
  /\ alive \subseteq Ids /\ heap \subseteq Ids
  /\ queue \in Seq(Messages)
  /\ task \in {"idle", "stop", "next", "arm"}
  /\ target \in Timers \cup {None}
  /\ expiry \in 0 .. MaxTime /\ soonest \in 0 .. MaxTime
  /\ armed \in (0 .. MaxTime) \cup {None}
  /\ polled \in BOOLEAN
  /\ poller \in {"wait", "disarm", "unpoll", "post"}
  /\ last \in [Timers -> {"never", "running", "stopped", "called"}]

Init ==
  /\ now = 0
  /\ timer = [t \in Timers |-> None]
  /\ client = [d \in Ids |-> None]
  /\ due = [d \in Ids |-> 0]
  /\ alive = {} /\ heap = {}
  /\ queue = <<>>
  /\ task = "idle" /\ target = None /\ expiry = 0 /\ soonest = 0
  /\ armed = None /\ polled = FALSE
  /\ poller = "wait"
  /\ last = [t \in Timers |-> "never"]

-----------------------------------------------------------------------------
(***************************************************************************)
(* The client's side.                                                      *)
(***************************************************************************)
Due(delay) == now + delay

\* start() of a timer that is not running; it fails otherwise.
Start(t, delay) ==
  /\ timer[t] = None
  /\ now + delay <= MaxTime
  /\ \E d \in Ids \ alive :
       /\ timer' = [timer EXCEPT ![t] = d]
       /\ client' = [client EXCEPT ![d] = t]
       /\ due' = [due EXCEPT ![d] = Due(delay)]
       /\ alive' = alive \cup {d}
       /\ queue' = Append(queue, Push(d))
  /\ last' = [last EXCEPT ![t] = "running"]
  /\ UNCHANGED <<now, heap, taskVars, kernelVars, poller>>

\* stop(): destroyLocked nulls the delegate's client and has it removed.
Stopped(t) ==
  /\ timer' = [timer EXCEPT ![t] = None]
  /\ client' = [client EXCEPT ![timer[t]] = None]
  /\ queue' = Append(queue, Removal(timer[t]))

Stop(t) ==
  /\ timer[t] # None
  /\ Stopped(t)
  /\ last' = [last EXCEPT ![t] = "stopped"]
  /\ UNCHANGED <<now, due, alive, heap, taskVars, kernelVars, poller>>

-----------------------------------------------------------------------------
(***************************************************************************)
(* The task.  updateSoonestTime adds the descriptor to the poll set before *)
(* it sets its time; the poll thread runs between the two.                 *)
(***************************************************************************)
Tops(H) == {d \in H : \A e \in H : due[d] <= due[e]}

Received(kind) ==
  /\ task = "idle"
  /\ queue # <<>> /\ Head(queue).kind = kind
  /\ queue' = Tail(queue)

\* The soonest time of H, if any, is to be given to the descriptor.
UpdateSoonest(H) ==
  /\ target' = None
  /\ IF H = {}
     THEN task' = "idle" /\ UNCHANGED <<soonest, polled>>
     ELSE /\ task' = "arm" /\ polled' = TRUE
          /\ \E d \in Tops(H) : soonest' = due[d]
  /\ UNCHANGED <<expiry, armed>>

KeepSoonest == UNCHANGED <<taskVars, kernelVars>>

\* Slip: a sooner timer does not replace the time that was set.
HandlePush_FirstOnly ==
  /\ Received("push")
  /\ LET d == Head(queue).id
     IN /\ heap' = heap \cup {d}
        /\ IF heap = {} THEN UpdateSoonest(heap') ELSE KeepSoonest
  /\ UNCHANGED <<now, timer, client, due, alive, poller, last>>

HandlePush ==
  /\ Received("push")
  /\ LET d == Head(queue).id
     IN /\ heap' = heap \cup {d}
        /\ IF \A e \in heap : due[d] < due[e] THEN UpdateSoonest(heap')
           ELSE KeepSoonest
  /\ UNCHANGED <<now, timer, client, due, alive, poller, last>>

\* The delegate is deleted whether or not it was in the heap still.
HandleRemove ==
  /\ Received("remove")
  /\ LET d == Head(queue).id
     IN /\ heap' = heap \ {d}
        /\ alive' = alive \ {d}
        /\ \/ d \in Tops(heap) /\ UpdateSoonest(heap')
           \/ Tops(heap) # {d} /\ KeepSoonest
  /\ UNCHANGED <<now, timer, client, due, poller, last>>

\* A delegate is popped and its client is read without the timer's lock.
Pop(d) ==
  /\ heap' = heap \ {d}
  /\ target' = client[d]
  /\ task' = "stop"
  /\ UNCHANGED <<soonest, kernelVars>>

\* The first delegate is popped whatever its time is.
HandleExpire ==
  /\ Received("expire")
  /\ \/ /\ heap = {} /\ UNCHANGED heap
        /\ KeepSoonest
     \/ /\ \E d \in Tops(heap) : Pop(d)
        /\ expiry' = now
  /\ UNCHANGED <<now, timer, client, due, alive, poller, last>>

\* Slip: the client is called back although its timer was not running.
ExpireStop_Calls ==
  /\ task = "stop" /\ task' = "next"
  /\ IF target # None
     THEN /\ last' = [last EXCEPT ![target] = "called"]
          /\ IF timer[target] # None THEN Stopped(target)
             ELSE UNCHANGED <<timer, client, queue>>
     ELSE UNCHANGED <<timer, client, queue, last>>
  /\ UNCHANGED <<now, due, alive, heap, target, expiry, soonest, kernelVars, poller>>

\* Slip: the delegate is deleted here as well.
ExpireStop_Deletes ==
  /\ task = "stop" /\ task' = "next"
  /\ IF target # None /\ timer[target] # None
     THEN /\ Stopped(target) /\ last' = [last EXCEPT ![target] = "called"]
          /\ alive' = alive \ {timer[target]}
     ELSE UNCHANGED <<timer, client, queue, last, alive>>
  /\ UNCHANGED <<now, due, heap, target, expiry, soonest, kernelVars, poller>>

\* expire() stops its client's timer, whichever delegate that has by now, and
\* calls back if it was running.
ExpireStop ==
  /\ task = "stop" /\ task' = "next"
  /\ IF target # None /\ timer[target] # None
     THEN Stopped(target) /\ last' = [last EXCEPT ![target] = "called"]
     ELSE UNCHANGED <<timer, client, queue, last>>
  /\ UNCHANGED <<now, due, alive, heap, target, expiry, soonest, kernelVars, poller>>

\* Slip: the descriptor is not set again for those that are left.
ExpireNext_NoRearm ==
  /\ task = "next"
  /\ \/ /\ \E d \in Tops(heap) : due[d] <= expiry /\ Pop(d)
        /\ UNCHANGED expiry
     \/ /\ \A d \in heap : due[d] > expiry
        /\ UpdateSoonest({}) /\ UNCHANGED heap
  /\ UNCHANGED <<now, timer, client, due, alive, queue, poller, last>>

\* The loop goes on with those that are due, then the descriptor is set.
ExpireNext ==
  /\ task = "next"
  /\ \/ /\ \E d \in Tops(heap) : due[d] <= expiry /\ Pop(d)
        /\ UNCHANGED expiry
     \/ /\ \A d \in heap : due[d] > expiry
        /\ UpdateSoonest(heap) /\ UNCHANGED heap
  /\ UNCHANGED <<now, timer, client, due, alive, queue, poller, last>>

Arm ==
  /\ task = "arm" /\ task' = "idle"
  /\ armed' = soonest
  /\ UNCHANGED <<now, timer, client, due, alive, heap, queue, target, expiry,
                 soonest, polled, poller, last>>

-----------------------------------------------------------------------------
(***************************************************************************)
(* The poll thread and the clock.                                          *)
(***************************************************************************)
PollWake ==
  /\ poller = "wait" /\ poller' = "disarm"
  /\ polled /\ armed # None /\ armed <= now
  /\ UNCHANGED <<now, timer, client, due, alive, heap, queue, taskVars, kernelVars, last>>

Disarm ==
  /\ poller = "disarm" /\ poller' = "unpoll"
  /\ armed' = None
  /\ UNCHANGED <<now, timer, client, due, alive, heap, queue, taskVars, polled, last>>

Unpoll ==
  /\ poller = "unpoll" /\ poller' = "post"
  /\ polled' = FALSE
  /\ UNCHANGED <<now, timer, client, due, alive, heap, queue, taskVars, armed, last>>

Post ==
  /\ poller = "post" /\ poller' = "wait"
  /\ queue' = Append(queue, Expire)
  /\ UNCHANGED <<now, timer, client, due, alive, heap, taskVars, kernelVars, last>>

Tick ==
  /\ now < MaxTime /\ now' = now + 1
  /\ UNCHANGED <<timer, client, due, alive, heap, queue, taskVars, kernelVars, poller, last>>

Client == \E t \in Timers : Stop(t) \/ \E delay \in Delays : Start(t, delay)
Task == HandlePush \/ HandleRemove \/ HandleExpire \/ ExpireStop \/ ExpireNext \/ Arm
Poll == PollWake \/ Disarm \/ Unpoll \/ Post

Next == Client \/ Task \/ Poll \/ Tick

\* Both threads of the service run, and time passes; clients do as they like.
Fairness == WF_vars(Task) /\ WF_vars(Poll) /\ WF_vars(Tick)

Spec == Init /\ [][Next]_vars
FairSpec == Spec /\ Fairness

-----------------------------------------------------------------------------
\* No delegate is used after it was deleted: those a timer points at, those in
\* the heap and those a message names are allocated.
DelegatesAlive ==
  /\ \A t \in Timers : timer[t] # None => timer[t] \in alive
  /\ heap \subseteq alive
  /\ \A i \in DOMAIN queue : queue[i].kind # "expire" => queue[i].id \in alive

\* A start ends once, by a stop that returned true or by one call back: after
\* either of them neither happens before the next start.
EndsOnce ==
  [][\A t \in Timers : last'[t] \in {"stopped", "called"} /\ last'[t] # last[t]
                         => last[t] = "running"]_vars

\* No time-out is lost between the threads: whenever the task is idle and a
\* timer is in the heap, either the poll thread will wake up when the soonest
\* of them is due or earlier, or an expire is under way.
ExpireUnderWay == poller # "wait" \/ \E i \in DOMAIN queue : queue[i] = Expire
WillWake == polled /\ armed # None /\ \A d \in heap : armed <= due[d]
NoLostWakeup == task = "idle" /\ heap # {} => ExpireUnderWay \/ WillWake

\* A timer that is started is stopped or calls back, for each delegate.
Ends == \A d \in Ids : client[d] # None ~> client[d] = None

\* "timeOutInMs: timeout delay in ms", and the call back is made "only if stop()
\* returns true, i.e. it hasn't been stopped already": no timer that is running
\* calls back before the time it was started for.
NotEarly ==
  [][\A t \in Timers : last'[t] = "called" /\ last[t] = "running"
                         => due[timer[t]] <= now]_vars

=============================================================================
