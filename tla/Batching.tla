-------------------------------- MODULE Batching --------------------------------
(***************************************************************************)
(* Batching of locations (gps/batching/BatchingAdapter.cpp).               *)
(*                                                                         *)
(* Routine and manual sessions are one call to the modem each.  All trips  *)
(* share one trip of the modem, which is restarted when a session needs a  *)
(* shorter distance or interval than the modem has; the adapter keeps the  *)
(* accounts of the distance covered by each of them.                       *)
(*                                                                         *)
(* Threads are queues as in GnssTracking.  A handler is a function of the  *)
(* adapter's state "st", as handlers call each other.                      *)
(***************************************************************************)
EXTENDS Integers, Sequences, FiniteSets, SequencesExt

CONSTANTS
  Sessions,     \* session ids, positive numbers
  Owner,        \* the client of each
  Options,      \* valid batching options
  Word,         \* 2^32: distances are unsigned
  ModemFails,   \* the modem may refuse a call
  ClientsWait,  \* clients wait until nothing is under way for their session
  MaxQueue,     \* bound: what is under way when a command is taken
  Moves,        \* the device moves
  MaxRestarts   \* bound: restarts of the modem

VARIABLES
  st,           \* the adapter's tables, and its calls to LocApi
  known,        \* capabilities of the engine
  pendingMsgs,  \* mPendingMsgs
  inbox,        \* the adapter's queue
  subscribers,  \* mClientData, those with a batchingCb
  started,      \* ids that were handed out
  awaiting,     \* starts that wait for an answer
  engine        \* the modem: what it runs, and how far the device has moved

batchingVars == <<st, known, pendingMsgs, inbox, subscribers, started, awaiting, engine>>

Subscribers == {Owner[s] : s \in Sessions}
Less(a, b) == (a - b + Word) % Word
NoOptions == [mode |-> "none", dist |-> 0, tbf |-> 0]
NoSession == 0
NoRun == [dist |-> 0, tbf |-> 0]
NoTrip == [ob |-> 0, tt |-> 0, tr |-> 0, dist |-> 0, tbf |-> 0]
Flags == [dist : BOOLEAN, tbf : BOOLEAN]

\* A call to the modem, and what its callback captured.
Call(op, cb, s, o) ==
  [op |-> op, cb |-> cb, s |-> s, o |-> o, restart |-> FALSE, run |-> NoRun,
   acc |-> 0, query |-> FALSE, auto |-> FALSE]
OpenCall == Call("open", "engineUp", NoSession, NoOptions)
Answer(call, ok, acc) == [k |-> "answer", call |-> call, ok |-> ok, acc |-> acc]
Completed(acc) == [k |-> "completed", call |-> OpenCall, ok |-> TRUE, acc |-> acc]
Command(kind, s, o) == [k |-> kind, call |-> Call("none", "none", s, o), ok |-> TRUE, acc |-> 0]

BatchingTypeOK ==
  /\ st.sessions \in [Sessions -> Options \cup {NoOptions}]
  /\ st.trips \in [Sessions -> [ob : 0 .. Word - 1, tt : 0 .. Word - 1, tr : 0 .. Word - 1,
                                dist : 0 .. Word - 1, tbf : Nat]]
  /\ st.ongoing \in [dist : 0 .. Word - 1, tbf : Nat] /\ st.dropped \in Flags
  /\ {known, st.full, engine.up} \subseteq BOOLEAN
  /\ subscribers \subseteq Subscribers /\ started \subseteq Sessions /\ awaiting \subseteq started
  /\ engine.batch \in [Sessions -> Options \cup {NoOptions}]
  /\ engine.acc \in 0 .. Word - 1

BatchingInit ==
  /\ st = [sessions |-> [s \in Sessions |-> NoOptions], trips |-> [s \in Sessions |-> NoTrip],
           ongoing |-> NoRun, dropped |-> [dist |-> FALSE, tbf |-> FALSE],
           full |-> FALSE, calls |-> <<OpenCall>>, told |-> {}]
  /\ known = FALSE /\ pendingMsgs = <<>> /\ inbox = <<>>
  /\ subscribers = Subscribers /\ started = {} /\ awaiting = {}
  /\ engine = [up |-> FALSE, batch |-> [s \in Sessions |-> NoOptions], trip |-> NoRun,
              acc |-> 0, restarts |-> 0]

-----------------------------------------------------------------------------
(***************************************************************************)
(* The tables.                                                             *)
(***************************************************************************)
Trips(t) == {s \in Sessions : t.trips[s] # NoTrip}
Batches(t) == {s \in Sessions : t.sessions[s] # NoOptions}
AutoReported(o) == o.mode # "manual"

\* autoReportBatchingSessionsCount
AutoCount(t) ==
  Cardinality({s \in Batches(t) : AutoReported(t.sessions[s])}) + Cardinality(Trips(t))

Calling(t, call) == [t EXCEPT !.calls = Append(@, call)]
Telling(t, s) == [t EXCEPT !.told = @ \cup {s}]
Saving(t, s, o) == [t EXCEPT !.sessions[s] = o]
Erasing(t, s) == Saving(t, s, NoOptions)
FullWanted(t, wanted) == [t EXCEPT !.full = @ \/ (wanted /\ AutoCount(t) = 0)]
FullUnwanted(t, unwanted) == [t EXCEPT !.full = @ /\ ~(unwanted /\ AutoCount(t) = 0)]

\* As the loops over the trips do it: 0 counts as no minimum yet.
LeastOf(t, f(_)) ==
  LET ids == SetToSortSeq(Trips(t), LAMBDA a, b : a < b)
  IN FoldLeft(LAMBDA m, s : IF m = 0 \/ m > f(t.trips[s]) THEN f(t.trips[s]) ELSE m, 0, ids)
Remaining(trip) == Less(trip.dist, trip.tt)
LeastRun(t) == [dist |-> LeastOf(t, Remaining), tbf |-> LeastOf(t, LAMBDA trip : trip.tbf)]

\* The state after a step, and the starts that the step has answered.
Becomes(t) == st' = [t EXCEPT !.told = {}] /\ awaiting' = awaiting \ t.told

-----------------------------------------------------------------------------
(***************************************************************************)
(* Starting.                                                               *)
(***************************************************************************)
StartBatching(t, s, o) ==
  Calling(Saving(FullWanted(t, AutoReported(o)), s, o), Call("startB", "started", s, o))

\* The first trip is started; for a later one the distance covered is asked.
StartTrip(t, s, o) ==
  IF Trips(t) # {} THEN Calling(t, Call("query", "tripQueried", s, o))
  ELSE Calling([Saving(FullWanted(t, TRUE), s, o) EXCEPT
                  !.trips[s] = [NoTrip EXCEPT !.dist = o.dist, !.tbf = o.tbf]],
               [Call("startT", "tripStarted", s, o) EXCEPT
                  !.run = [dist |-> o.dist, tbf |-> o.tbf]])

Start(t, s, o) == IF o.mode = "trip" THEN StartTrip(t, s, o) ELSE StartBatching(t, s, o)

Started(t, c, ok) ==
  Telling(IF ok THEN t ELSE FullUnwanted(Erasing(t, c.s), AutoReported(c.o)), c.s)

TripStarted(t, c, ok) ==
  LET failed == [Erasing(t, c.s) EXCEPT !.trips[c.s] = NoTrip]
  IN Telling(IF ok THEN [t EXCEPT !.ongoing = [dist |-> c.o.dist, tbf |-> c.o.tbf]]
             ELSE FullUnwanted(failed, TRUE), c.s)

\* The accounts start again with the modem's trip.
Rebased(trip) == IF trip = NoTrip THEN NoTrip ELSE [trip EXCEPT !.ob = 0, !.tr = trip.tt]
AllTrips(t, f(_)) == [t EXCEPT !.trips = [s \in Sessions |-> f(@[s])]]

TripQueried(t, c, ok, acc) ==
  LET faster == t.ongoing.tbf > c.o.tbf
      left == IF ok THEN Less(t.ongoing.dist, acc) ELSE t.ongoing.dist
      nearer == c.o.dist < left
      listed == IF ok THEN [t EXCEPT !.trips[c.s] = [ob |-> acc, tt |-> 0, tr |-> 0,
                                                     dist |-> c.o.dist, tbf |-> c.o.tbf]]
                ELSE t
      run == [dist |-> IF nearer THEN c.o.dist ELSE left,
              tbf |-> IF faster THEN c.o.tbf ELSE t.ongoing.tbf]
  IN IF faster \/ nearer
     THEN Calling([AllTrips(listed, Rebased) EXCEPT !.ongoing = run],
                  [Call("restartT", "tripRestarted", c.s, NoOptions) EXCEPT !.run = run])
     ELSE Telling(listed, c.s)

-----------------------------------------------------------------------------
(***************************************************************************)
(* Stopping.                                                               *)
(***************************************************************************)
StopBatching(t, s, restart, o) ==
  IF t.sessions[s] = NoOptions THEN t
  ELSE Calling(Erasing(t, s), [Call("stopB", "stopped", s, o) EXCEPT
                                 !.restart = restart, !.auto = AutoReported(t.sessions[s])])

\* A failure saves the options of the update, or what was in memory if there
\* was none (garbage); a restart is answered twice.
Stopped(t, c, ok, garbage) ==
  LET unregistered == FullUnwanted(t, c.auto)
  IN Telling(IF ~ok THEN Saving(t, c.s, IF c.restart THEN c.o ELSE garbage)
             ELSE IF c.restart THEN Start(unregistered, c.s, c.o) ELSE unregistered, c.s)

\* restartTripBatching
RestartTrips(t, query, acc) ==
  IF Trips(t) = {}
  THEN FullUnwanted([Calling(t, Call("stopT", "ignore", NoSession, NoOptions)) EXCEPT !.ongoing = NoRun], TRUE)
  ELSE Calling(t, [Call("query", "tripsQueried", NoSession, NoOptions) EXCEPT
                     !.run = LeastRun(t), !.query = query, !.acc = acc])

\* Which of the modem's parameters came from the trip that ends.  A trip that is
\* not listed is read past the end of the table.
Drops(t, s) ==
  IF t.trips[s] = NoTrip THEN {d \in Flags : (t.dropped.dist => d.dist) /\ (t.dropped.tbf => d.tbf)}
  ELSE {[dist |-> t.dropped.dist \/ t.trips[s].dist = t.ongoing.dist,
         tbf |-> t.dropped.tbf \/ t.trips[s].tbf = t.ongoing.tbf]}

\* stopTripBatchingMultiplexCommon
TripEnds(t, s, restart, o, drop) ==
  LET gone == [t EXCEPT !.dropped = drop, !.trips[s] = NoTrip]
      others == IF Trips(gone) = {} THEN [gone EXCEPT !.ongoing = NoRun]
                ELSE RestartTrips(gone, TRUE, 0)
  IN Telling(IF restart THEN Start(Erasing(others, s), s, o) ELSE others, s)

StopTrip(t, s, restart, o, drop) ==
  IF Cardinality(Trips(t)) = 1
  THEN Calling(t, [Call("stopT", "tripStopped", s, o) EXCEPT !.restart = restart])
  ELSE TripEnds(t, s, restart, o, drop)

TripStopped(t, c, ok, drop) ==
  TripEnds([t EXCEPT !.full = @ /\ ~(ok /\ AutoCount(t) = 1)], c.s, c.restart, c.o, drop)

TripsQueried(t, c, data) ==
  LET acc == IF c.query THEN data ELSE c.acc
      left == Less(t.ongoing.dist, acc)
      stillGoing == ~t.dropped.dist /\ left # 0
      nearer == IF stillGoing THEN c.run.dist < left ELSE c.run.dist # 0
      faster == IF t.dropped.tbf THEN c.run.tbf # t.ongoing.tbf ELSE c.run.tbf < t.ongoing.tbf
      run == [dist |-> IF nearer THEN c.run.dist ELSE t.ongoing.dist,
              tbf |-> IF faster THEN c.run.tbf ELSE t.ongoing.tbf]
  IN IF nearer \/ faster
     THEN Calling(t, [Call("restartT", "tripsRestarted", NoSession, NoOptions) EXCEPT
                        !.run = run, !.acc = acc])
     ELSE t

Covered(trip, acc) == (trip.tr + Less(acc, trip.ob)) % Word
Credited(trip, acc) == IF trip = NoTrip THEN NoTrip ELSE [trip EXCEPT !.tt = Covered(trip, acc)]

TripsRestarted(t, c, ok) ==
  IF ~ok THEN t
  ELSE [AllTrips(t, LAMBDA trip : Rebased(Credited(trip, c.acc))) EXCEPT !.ongoing = c.run]

\* reportCompletedTripsEvent.  The trip is erased before its parameters are read.
Complete(t, acc, drop) ==
  LET credited == AllTrips(t, LAMBDA trip : Credited(trip, acc))
      done == {s \in Trips(t) : t.trips[s].dist <= credited.trips[s].tt}
      left == [credited EXCEPT !.trips = [s \in Sessions |-> IF s \in done THEN NoTrip ELSE @[s]],
                               !.dropped = IF done = {} THEN @ ELSE drop]
  IN IF done = {} THEN left ELSE RestartTrips(left, FALSE, acc)

-----------------------------------------------------------------------------
(***************************************************************************)
(* Restart of the modem, and of the sessions.                              *)
(***************************************************************************)
\* Slip: with a trip under way, batching sessions are not started again.
RestartSessions_TripsOnly(t, ids) ==
  IF Trips(t) = {} THEN t
  ELSE Calling([t EXCEPT !.ongoing = LeastRun(t)],
               [Call("startT", "tripsReset", NoSession, NoOptions) EXCEPT !.run = LeastRun(t)])

\* As the loops over the sessions find them.
InOrder(S) == {ids \in SetToSeqs(S) : \A i, j \in DOMAIN ids : i < j => ids[i] < ids[j]}
Restartable(t) == {s \in Batches(t) : t.sessions[s].mode # "trip"}

\* The loop that would rebase the accounts changes copies of them.
RestartSessions(t, ids) ==
  LET restarts == [i \in DOMAIN ids |-> Call("startB", "ignore", ids[i], t.sessions[ids[i]])]
      batched == [t EXCEPT !.full = @ \/ AutoCount(t) > 0, !.calls = @ \o restarts]
  IN IF Trips(t) = {} THEN batched
     ELSE Calling([batched EXCEPT !.ongoing = LeastRun(t)],
                  [Call("startT", "tripsReset", NoSession, NoOptions) EXCEPT !.run = LeastRun(t)])

TripsReset(t, ok) == IF ok THEN t ELSE [t EXCEPT !.ongoing = NoRun]

-----------------------------------------------------------------------------
(***************************************************************************)
(* Commands of clients.  Errors are found and not reported.                *)
(***************************************************************************)
Underway == Len(st.calls) + Len(inbox) + Len(pendingMsgs)

IsBatching(s) == st.sessions[s] # NoOptions

Execute(kind, s, o, drop) ==
  CASE kind = "start" -> IF Owner[s] \in subscribers THEN Start(st, s, o) ELSE st
    [] kind = "update" -> IF ~IsBatching(s) THEN st
                          ELSE IF s \in Trips(st) THEN StopTrip(st, s, TRUE, o, drop)
                          ELSE StopBatching(st, s, TRUE, o)
    [] kind = "stop" -> IF ~IsBatching(s) THEN st
                        ELSE IF s \in Trips(st) THEN StopTrip(st, s, FALSE, NoOptions, drop)
                        ELSE StopBatching(st, s, FALSE, NoOptions)

Handle(m) ==
  \/ /\ known
     /\ \E drop \in Drops(st, m.call.s) : Becomes(Execute(m.k, m.call.s, m.call.o, drop))
     /\ UNCHANGED pendingMsgs
  \/ ~known /\ pendingMsgs' = Append(pendingMsgs, m) /\ UNCHANGED <<st, awaiting>>

Pending(s) ==
  \/ \E i \in DOMAIN st.calls : st.calls[i].s = s
  \/ \E i \in DOMAIN inbox : inbox[i].call.s = s
  \/ \E i \in DOMAIN pendingMsgs : pendingMsgs[i].call.s = s

Send(kind, s, o) ==
  /\ Underway <= MaxQueue
  /\ ClientsWait => ~Pending(s)
  /\ inbox' = Append(inbox, Command(kind, s, o))
  /\ UNCHANGED <<st, known, pendingMsgs, subscribers, engine>>

StartBatchingCommand(s, o) ==
  /\ s \notin started /\ Send("start", s, o)
  /\ started' = started \cup {s} /\ awaiting' = awaiting \cup {s}

UpdateBatchingOptionsCommand(s, o) ==
  s \in started /\ Send("update", s, o) /\ UNCHANGED <<started, awaiting>>

StopBatchingCommand(s) ==
  s \in started /\ Send("stop", s, NoOptions) /\ UNCHANGED <<started, awaiting>>

\* stopClientSessions stops trips by the mode they are saved with: the tables after
\* each of the sessions.
StopSaved(t, s, drop) ==
  IF t.sessions[s].mode = "trip" THEN StopTrip(t, s, FALSE, NoOptions, drop)
  ELSE StopBatching(t, s, FALSE, NoOptions)
AllStopped(ids, drops) ==
  LET After[i \in 0 .. Len(ids)] ==
        IF i = 0 THEN st ELSE StopSaved(After[i - 1], ids[i], drops[i])
  IN After

\* And eraseClient sets the event mask anew.
RemoveClient(c) ==
  /\ Underway <= MaxQueue
  /\ c \in subscribers /\ subscribers' = subscribers \ {c}
  /\ ClientsWait => \A s \in Sessions : Owner[s] = c => ~Pending(s)
  /\ \E mine \in InOrder({s \in Batches(st) : Owner[s] = c}) : \E drops \in [DOMAIN mine -> Flags] :
       LET After == AllStopped(mine, drops)
           t == After[Len(mine)]
       IN /\ \A i \in DOMAIN mine : drops[i] \in Drops(After[i - 1], mine[i])
          /\ Becomes([t EXCEPT !.full = AutoCount(t) > 0])
  /\ UNCHANGED <<known, pendingMsgs, inbox, started, engine>>

-----------------------------------------------------------------------------
(***************************************************************************)
(* The adapter's thread.                                                   *)
(***************************************************************************)
Answered(t, c, ok, acc, garbage, drop) ==
  CASE c.cb = "started" -> Started(t, c, ok)
    [] c.cb = "stopped" -> Stopped(t, c, ok, garbage)
    [] c.cb = "tripStarted" -> TripStarted(t, c, ok)
    [] c.cb = "tripQueried" -> TripQueried(t, c, ok, acc)
    [] c.cb = "tripRestarted" -> Telling(t, c.s)
    [] c.cb = "tripStopped" -> TripStopped(t, c, ok, drop)
    [] c.cb = "tripsQueried" -> TripsQueried(t, c, acc)
    [] c.cb = "tripsRestarted" -> TripsRestarted(t, c, ok)
    [] c.cb = "tripsReset" -> TripsReset(t, ok)
    [] c.cb = "ignore" -> t

Received(k) == inbox # <<>> /\ Head(inbox).k = k

HandleAnswer ==
  /\ Received("answer") /\ Head(inbox).call.cb # "engineUp"
  /\ LET m == Head(inbox)
         garbage == IF m.call.cb = "stopped" /\ ~m.ok /\ ~m.call.restart THEN Options ELSE {NoOptions}
         drops == IF m.call.cb = "tripStopped" THEN Drops(st, m.call.s) ELSE {st.dropped}
     IN \E g \in garbage, d \in drops : Becomes(Answered(st, m.call, m.ok, m.acc, g, d))
  /\ inbox' = Tail(inbox)
  /\ UNCHANGED <<known, pendingMsgs, subscribers, started, engine>>

HandleCompleted ==
  /\ Received("completed")
  /\ \E d \in Flags :
       /\ st.dropped.dist => d.dist
       /\ st.dropped.tbf => d.tbf
       /\ Becomes(Complete(st, Head(inbox).acc, d))
  /\ inbox' = Tail(inbox)
  /\ UNCHANGED <<known, pendingMsgs, subscribers, started, engine>>

HandleCommand ==
  /\ inbox # <<>> /\ Head(inbox).k \in {"start", "update", "stop"}
  /\ Handle(Head(inbox)) /\ inbox' = Tail(inbox)
  /\ UNCHANGED <<known, subscribers, started, engine>>

HandleEngineUp ==
  /\ Received("answer") /\ Head(inbox).call.cb = "engineUp"
  /\ known' = TRUE /\ \E ids \in InOrder(Restartable(st)) : Becomes(RestartSessions(st, ids))
  /\ inbox' = Tail(inbox) \o pendingMsgs /\ pendingMsgs' = <<>>
  /\ UNCHANGED <<subscribers, started, engine>>

-----------------------------------------------------------------------------
(***************************************************************************)
(* The LocApi thread and the modem.                                        *)
(***************************************************************************)
NextCall(ops) == st.calls # <<>> /\ Head(st.calls).op \in ops /\ st' = [st EXCEPT !.calls = Tail(@)]
Post(ok, acc) ==
  inbox' = IF Head(st.calls).cb = "ignore" THEN inbox
           ELSE Append(inbox, Answer(Head(st.calls), ok, acc))
ModemOnly == UNCHANGED <<known, pendingMsgs, subscribers, started, awaiting>>

ModemBatch ==
  /\ NextCall({"startB", "stopB"}) /\ engine.up
  /\ LET c == Head(st.calls)
     IN engine' = [engine EXCEPT !.batch[c.s] = IF c.op = "startB" THEN c.o ELSE NoOptions]
  /\ Post(TRUE, 0) /\ ModemOnly

ModemTrip ==
  /\ NextCall({"startT", "restartT", "stopT"}) /\ engine.up
  /\ engine' = [engine EXCEPT !.trip = Head(st.calls).run, !.acc = 0]
  /\ Post(TRUE, 0) /\ ModemOnly

ModemQuery ==
  /\ NextCall({"query"}) /\ engine.up /\ engine.trip # NoRun
  /\ Post(TRUE, engine.acc) /\ ModemOnly /\ UNCHANGED engine

ModemRefuses ==
  /\ NextCall({"startB", "stopB", "startT", "restartT", "stopT", "query"})
  /\ \/ ModemFails \/ ~engine.up
     \/ Head(st.calls).op = "query" /\ engine.trip = NoRun
  /\ Post(FALSE, 0) /\ ModemOnly /\ UNCHANGED engine

ModemOpens ==
  /\ NextCall({"open"}) /\ engine' = [engine EXCEPT !.up = TRUE]
  /\ Post(TRUE, 0) /\ ModemOnly

\* The device moves, until the modem's trip is complete.
TripMoves ==
  /\ Moves /\ engine.up /\ engine.acc < engine.trip.dist
  /\ engine' = [engine EXCEPT !.acc = @ + 1]
  /\ inbox' = IF engine.acc + 1 = engine.trip.dist THEN Append(inbox, Completed(engine.acc + 1)) ELSE inbox
  /\ UNCHANGED <<st, known, pendingMsgs, subscribers, started, awaiting>>

ModemDown ==
  /\ engine.up /\ engine.restarts < MaxRestarts
  /\ engine' = [engine EXCEPT !.up = FALSE, !.batch = [s \in Sessions |-> NoOptions], !.trip = NoRun,
                            !.acc = 0, !.restarts = @ + 1]
  /\ st' = [st EXCEPT !.calls = Append(@, OpenCall)]
  /\ UNCHANGED <<known, pendingMsgs, inbox, subscribers, started, awaiting>>

BatchingNext ==
  \/ \E s \in Sessions :
       \/ \E o \in Options : StartBatchingCommand(s, o) \/ UpdateBatchingOptionsCommand(s, o)
       \/ StopBatchingCommand(s)
  \/ \E c \in Subscribers : RemoveClient(c)
  \/ HandleAnswer \/ HandleCompleted \/ HandleCommand \/ HandleEngineUp
  \/ ModemBatch \/ ModemTrip \/ ModemQuery \/ ModemRefuses \/ ModemOpens
  \/ TripMoves \/ ModemDown

BatchingSpec == BatchingInit /\ [][BatchingNext]_batchingVars

-----------------------------------------------------------------------------
(***************************************************************************)
(* Properties.                                                             *)
(***************************************************************************)
Quiet == Underway = 0 /\ engine.up

\* Once nothing is under way, the modem batches for exactly the routine and
\* manual sessions that are listed, with their latest options, whatever restarts,
\* updates and stops crossed each other.
BatchesAgree ==
  Quiet => \A s \in Sessions :
             LET o == st.sessions[s]
             IN engine.batch[s] = IF o = NoOptions \/ o.mode = "trip" THEN NoOptions ELSE o

\* Every start that was taken is answered.
StartsAnswered == Quiet => \A s \in awaiting : Owner[s] \notin subscribers
=============================================================================
