----------------------------- MODULE GnssTracking -----------------------------
(***************************************************************************)
(* The tracking sessions of gps/gnss/GnssAdapter.cpp.                      *)
(*                                                                         *)
(* Clients ask the adapter to start, update and stop tracking sessions.    *)
(* Their requests, the answers of the modem and the engine-up event are    *)
(* messages of the adapter's MsgTask thread, which handles one at a time.  *)
(* The calls the adapter makes on LocApi are messages of LocApi's own      *)
(* thread, which forwards them to the modem and posts each answer back.    *)
(* Both queues are FIFO and neither thread waits for the other, so a       *)
(* handler runs when the answers to earlier calls are still under way.     *)
(*                                                                         *)
(* A request of a client is taken at once in an arbitrary state instead of *)
(* being queued: this is where its message reaches the head of the queue.  *)
(***************************************************************************)
EXTENDS TrackingOptions, Sequences

CONSTANTS
  Sessions,           \* session ids, in the order they are generated
  Clients,            \* LocationAPI clients
  NoClient,           \* not a client
  Owner,              \* the client of each session
  Registrations,      \* do clients come with tracking callbacks?
  ClientsWait,        \* do clients wait for an answer before they ask again?
  Opts,               \* the options clients pass
  MinInterval,        \* MIN_TRACKING_INTERVAL
  DistanceSupported,  \* LOC_API_ADAPTER_MESSAGE_DISTANCE_BASE_TRACKING
  MayFail,            \* may a modem that is up refuse a call?
  NHzPossible,        \* does an engine plugin ask for N Hz positions?
  MayReconfigure,     \* are SV configurations changed while tracking?
  MaxSsr,             \* bound: subsystem restarts of the modem
  MaxQueue            \* bound: no new request when this much is under way

ASSUME SessionsAssumption == Sessions \subseteq Nat /\ IsFiniteSet(Sessions)
ASSUME ClientsAssumption == NoClient \notin Clients
ASSUME OwnerAssumption == Owner \in [Sessions -> Clients]
ASSUME RegistrationsAssumption == Registrations \subseteq {"nocb", "ready"}
ASSUME OptsAssumption == Opts \subseteq Options
ASSUME IntervalAssumption == MinInterval \in Nat \ {0}
ASSUME FlagsAssumption ==
  {ClientsWait, DistanceSupported, MayFail, NHzPossible, MayReconfigure} \subseteq BOOLEAN
ASSUME BoundsAssumption == MaxSsr \in Nat /\ MaxQueue \in Nat \ {0}

VARIABLES
  clients,     \* registration and callbacks of each client (mClientData)
  capsKnown,   \* mIsEngineCapabilitiesKnown
  timeSess,    \* mTimeBasedTrackingSessions
  distSess,    \* mDistanceBasedTrackingSessions
  pending,     \* mPendingMsgs: requests held until the capabilities are known
  mode,        \* mLocPositionMode: interval and power told to the engine hub
  hubOn,       \* the engine hub was told that a fix is running
  nHz,         \* mNHzNeeded
  speFast,     \* mSPEAlreadyRunningAtHighestInterval
  removing,    \* the client whose stopClientSessions loop is running
  msgs,        \* answers and replayed requests queued for the adapter
  calls,       \* calls queued for the LocApi thread
  modemUp,     \* LocApi is open
  engine,      \* options of the time based session in the modem
  distEngine,  \* distance based sessions in the modem
  ssrs,        \* subsystem restarts so far
  stage,       \* what the client of each session has asked for so far
  owed         \* answers each session's client still waits for

adapterVars == <<clients, capsKnown, timeSess, distSess, pending, mode, hubOn,
                 nHz, speFast, removing>>
modemVars == <<modemUp, engine, distEngine, ssrs>>
vars == <<adapterVars, modemVars, msgs, calls, stage, owed>>

ClientStates == {"new", "nocb", "ready", "removing", "removed"}
Stages == {"new", "started", "stopped"}
TimeOps == {"startTime", "stopFix"}
DistanceOps == {"startDist", "stopDist"}

\* The function a LocApiResponse carries; "none" does nothing with the answer.
Callbacks == {"none", "started", "updated", "stopped", "distStarted",
              "distStopped", "clientDistStopped", "toTime", "distStop",
              "distRestarted"}

\* A call on LocApi: sess and opts are its arguments, cb and arg the function
\* run on the answer and the options that function captured.
Calls == [op : TimeOps \cup DistanceOps \cup {"open"}, sess : Sessions \cup {0},
          opts : Options, cb : Callbacks, arg : Options]

\* A message of the adapter: an answer, the engine-up event or a request.
Msgs == [cb : Callbacks \cup {"engineUp", "start", "update"},
         sess : Sessions \cup {0}, arg : Options, ok : BOOLEAN]

Modes == [interval : Nat, power : PowerModes]

Call(op, s, o, cb, arg) ==
  [op |-> op, sess |-> s, opts |-> o, cb |-> cb, arg |-> arg]
OpenCall == Call("open", 0, NoOptions, "none", NoOptions)

TypeOK ==
  /\ clients \in [Clients -> ClientStates]
  /\ capsKnown \in BOOLEAN
  /\ timeSess \in [Sessions -> Options]
  /\ distSess \in [Sessions -> Options]
  /\ pending \in Seq(Msgs)
  /\ mode \in Modes
  /\ hubOn \in BOOLEAN /\ nHz \in BOOLEAN /\ speFast \in BOOLEAN
  /\ modemUp \in BOOLEAN
  /\ removing \in Clients \cup {NoClient}
  /\ msgs \in Seq(Msgs)
  /\ calls \in Seq(Calls)
  /\ engine \in Options
  /\ distEngine \subseteq Sessions
  /\ ssrs \in 0 .. MaxSsr
  /\ stage \in [Sessions -> Stages]
  /\ owed \in [Sessions -> Int]

Init ==
  /\ clients = [c \in Clients |-> "new"]
  /\ capsKnown = FALSE
  /\ timeSess = [s \in Sessions |-> NoOptions]
  /\ distSess = [s \in Sessions |-> NoOptions]
  /\ pending = <<>>
  /\ mode = [interval |-> 0, power |-> INVALID]
  /\ hubOn = FALSE
  /\ nHz = FALSE
  /\ speFast = FALSE
  /\ removing = NoClient
  /\ msgs = <<>>
  /\ calls = <<OpenCall>>      \* addAdapter posts LocOpenMsg
  /\ modemUp = FALSE
  /\ engine = NoOptions
  /\ distEngine = {}
  /\ ssrs = 0
  /\ stage = [s \in Sessions |-> "new"]
  /\ owed = [s \in Sessions |-> 0]

-----------------------------------------------------------------------------
(***************************************************************************)
(* Session tables and answers.                                             *)
(***************************************************************************)
TimeSessions == Listed(timeSess)
DistSessions == Listed(distSess)

IsDistance(o) == o.distance > 0 /\ DistanceSupported

\* What the tables become when session s is saved or erased.
TimeSaved(s, o) == IF IsDistance(o) THEN timeSess ELSE [timeSess EXCEPT ![s] = o]
DistSaved(s, o) == IF IsDistance(o) THEN [distSess EXCEPT ![s] = o] ELSE distSess

TimeErased(s) == [timeSess EXCEPT ![s] = NoOptions]
\* Slip: only the time based table is searched.
DistErased_TimeOnly(s) == distSess
DistErased(s) ==
  IF s \in TimeSessions THEN distSess ELSE [distSess EXCEPT ![s] = NoOptions]

SaveSession(s, o) == timeSess' = TimeSaved(s, o) /\ distSess' = DistSaved(s, o)
EraseSession(s) == timeSess' = TimeErased(s) /\ distSess' = DistErased(s)
KeepSessions == UNCHANGED <<timeSess, distSess>>

\* reportResponse: nothing reaches a client that was removed.  A client that is
\* being removed awaits nothing, so what still reaches it is not counted.
Registered(c) == clients[c] \in {"nocb", "ready"}
Reported(ow, s) ==
  IF Registered(Owner[s]) THEN [ow EXCEPT ![s] = @ - 1] ELSE ow

ReportIf(now, ow, s) == owed' = IF now THEN Reported(ow, s) ELSE ow

\* The interval is raised to the minimum, and mode M4 with a time between
\* measurements above the threshold (not modelled: a choice) falls back to M2.
\* Slip: an unsigned subtraction that wraps below the minimum.
AtLeastMin_Underflow(o) == [o EXCEPT !.interval = @ - MinInterval]
AtLeastMin(o) ==
  [o EXCEPT !.interval = IF @ < MinInterval THEN MinInterval ELSE @]
TimeOptions(o) ==
  {o} \cup {[o EXCEPT !.power = M2] : x \in {y \in {o} : y.power = M4}}

-----------------------------------------------------------------------------
(***************************************************************************)
(* What a handler does to the single time based session of the modem: the  *)
(* calls it makes, the new mode, hub and N Hz state, and whether the       *)
(* client is answered at once instead of by the answer to a call.          *)
(***************************************************************************)
Plan(cs, md, hub, fast, now) ==
  [calls |-> cs, mode |-> md, hubOn |-> hub, speFast |-> fast, now |-> now]

\* Slip: reportToClientWithNoWait is cleared although no call was made.
NoCall_Waits == Plan(<<>>, mode, hubOn, speFast, FALSE)
NoCall == Plan(<<>>, mode, hubOn, speFast, TRUE)

FollowPlan(p) ==
  /\ calls' = calls \o p.calls
  /\ mode' = p.mode
  /\ hubOn' = p.hubOn
  /\ speFast' = p.speFast

NoPlan == UNCHANGED <<calls, mode, hubOn, speFast>>
MakeCalls(cs) == calls' = calls \o cs /\ UNCHANGED <<mode, hubOn, speFast>>

\* checkAndSetSPEToRunforNHz lowers the interval of the call when N Hz
\* positions are needed, and remembers that the session runs that fast.
RaisedForNHz(o) == nHz /\ o.interval > MinInterval
SpeOptions(o) == [o EXCEPT !.interval = IF RaisedForNHz(o) THEN MinInterval ELSE @]

\* Slip: reportToClientWithNoWait stays set although a call was made.
StartSpe_AnsweredTwice(s, o, cb, arg) ==
  Plan(<<Call("startTime", s, SpeOptions(o), cb, arg)>>,
       [interval |-> o.interval, power |-> o.power], TRUE,
       speFast \/ RaisedForNHz(o), TRUE)

\* The call that startTimeBasedTracking and updateTracking share: none, and an
\* immediate answer, when the session already runs at the highest rate.
StartSpe(s, o, cb, arg) ==
  LET skip == nHz /\ speFast
      call == Call("startTime", s, SpeOptions(o), cb, arg)
  IN Plan(IF skip THEN <<>> ELSE <<call>>,
          [interval |-> o.interval, power |-> o.power], TRUE,
          speFast \/ RaisedForNHz(o), skip)

\* Slips: the modem or the N Hz flag is forgotten.
StopSpe_KeepsFast(s) ==
  Plan(<<Call("stopFix", s, NoOptions, "stopped", NoOptions)>>,
       mode, FALSE, speFast, FALSE)

StopSpe_HubOnly(s) == Plan(<<>>, mode, FALSE, FALSE, TRUE)

\* stopTracking
StopSpe(s) ==
  Plan(<<Call("stopFix", s, NoOptions, "stopped", NoOptions)>>,
       mode, FALSE, FALSE, FALSE)

\* The options of the fastest session of S, lowered to those of o where o asks
\* for more.  The power mode found for S is compared with but not copied.
Lowered(S, o) ==
  LET base == Fastest(timeSess, S)
  IN [base EXCEPT
        !.interval = IF o.interval < @ THEN o.interval ELSE @,
        !.power = IF o.power < MuxPower(timeSess, S) THEN o.power ELSE @]

\* Slip: only the power mode decides whether the modem is called.
Asks_PowerOnly(S, o) == o.power < MuxPower(timeSess, S)

Asks(S, o) == \/ o.interval < Fastest(timeSess, S).interval
              \/ o.power < MuxPower(timeSess, S)

StartMultiplex(s, o) ==
  IF TimeSessions = {} THEN StartSpe(s, o, "started", NoOptions)
  ELSE IF Asks(TimeSessions, o)
       THEN StartSpe(s, Lowered(TimeSessions, o), "started", NoOptions)
       ELSE NoCall

UpdateMultiplex(s, o) ==
  LET old == timeSess[s]
      others == TimeSessions \ {s}
  IN IF old.interval = o.interval /\ old.power = o.power THEN NoCall
     ELSE IF others = {} THEN StartSpe(s, o, "updated", old)
     ELSE IF Asks(others, o)
          THEN StartSpe(s, Lowered(others, o), "updated", old)
          ELSE NoCall

StopMultiplex(s) ==
  LET others == TimeSessions \ {s}
      power == MuxPower(timeSess, others)
  IN IF others = {} THEN StopSpe(s)
     ELSE IF Asks(others, timeSess[s])
          THEN StartSpe(s, [Fastest(timeSess, others) EXCEPT !.power = power],
                        "started", NoOptions)
          ELSE NoCall

-----------------------------------------------------------------------------
(***************************************************************************)
(* Handlers of the requests, each with the bookkeeping of owed answers ow  *)
(* that includes the answer to this very request.                          *)
(***************************************************************************)
MustWait(o) == ~capsKnown /\ o.distance > 0

Hold(kind, s, o, ow) ==
  /\ MustWait(o)
  /\ pending' = Append(pending, [cb |-> kind, sess |-> s, arg |-> o, ok |-> TRUE])
  /\ owed' = ow
  /\ KeepSessions /\ NoPlan

\* A start without callbacks or with unset options computes an error code
\* that it reports to nobody.
StartRefused(s, o, ow) ==
  /\ ~MustWait(o)
  /\ clients[Owner[s]] # "ready" \/ o.size = 0
  /\ owed' = ow
  /\ KeepSessions /\ NoPlan /\ UNCHANGED pending

StartAccepted(s, o, ow) ==
  /\ ~MustWait(o)
  /\ clients[Owner[s]] = "ready" /\ o.size # 0
  /\ UNCHANGED pending
  /\ \/ /\ IsDistance(o)
        /\ SaveSession(s, AtLeastMin(o))
        /\ MakeCalls(<<Call("startDist", s, AtLeastMin(o), "distStarted", NoOptions)>>)
        /\ owed' = ow
     \/ /\ ~IsDistance(o)
        /\ \E t \in TimeOptions(AtLeastMin(o)) :
             /\ SaveSession(s, t)
             /\ FollowPlan(StartMultiplex(s, t))
             /\ ReportIf(StartMultiplex(s, t).now, ow, s)

StartTracking(s, o, ow) ==
  Hold("start", s, o, ow) \/ StartRefused(s, o, ow) \/ StartAccepted(s, o, ow)

UpdateRefused(s, o, ow) ==
  /\ ~MustWait(o)
  /\ s \notin TimeSessions \cup DistSessions \/ o.size = 0
  /\ ReportIf(TRUE, ow, s)
  /\ KeepSessions /\ NoPlan /\ UNCHANGED pending

\* Switch from time based to distance based, whether or not that is supported.
TimeToDistance(s, o, ow) ==
  LET p == StopMultiplex(s)
  IN /\ timeSess' = IF IsDistance(o) THEN TimeErased(s)
                    ELSE [timeSess EXCEPT ![s] = o]
     /\ distSess' = DistSaved(s, o)
     /\ FollowPlan([p EXCEPT
          !.calls = Append(@, Call("startDist", s, o, "none", NoOptions))])
     /\ ReportIf(p.now, ow, s)

UpdateAccepted(s, o, ow) ==
  /\ ~MustWait(o)
  /\ s \in TimeSessions \cup DistSessions /\ o.size # 0
  /\ UNCHANGED pending
  /\ \E t \in {AtLeastMin(x) : x \in TimeOptions(o)} :
     \/ /\ s \in TimeSessions /\ t.distance > 0
        /\ TimeToDistance(s, t, ow)
     \/ /\ s \in DistSessions /\ t.distance = 0
        /\ EraseSession(s)
        /\ MakeCalls(<<Call("stopDist", s, NoOptions, "toTime", t)>>)
        /\ owed' = ow
     \/ /\ s \in TimeSessions \ DistSessions /\ t.distance = 0
        /\ SaveSession(s, t)
        /\ FollowPlan(UpdateMultiplex(s, t))
        /\ ReportIf(UpdateMultiplex(s, t).now, ow, s)
     \/ /\ s \notin TimeSessions /\ t.distance > 0
        /\ KeepSessions
        /\ MakeCalls(<<Call("stopDist", s, NoOptions, "distStop", t)>>)
        /\ owed' = ow

UpdateTracking(s, o, ow) ==
  Hold("update", s, o, ow) \/ UpdateRefused(s, o, ow) \/ UpdateAccepted(s, o, ow)

StopTracking(s, ow) ==
  \/ /\ s \in TimeSessions
     /\ EraseSession(s)
     /\ FollowPlan(StopMultiplex(s))
     /\ ReportIf(StopMultiplex(s).now, ow, s)
  \/ /\ s \in DistSessions \ TimeSessions
     /\ KeepSessions
     /\ MakeCalls(<<Call("stopDist", s, NoOptions, "distStopped", NoOptions)>>)
     /\ owed' = ow
  \/ /\ s \notin TimeSessions \cup DistSessions
     /\ KeepSessions /\ NoPlan
     /\ ReportIf(TRUE, ow, s)

-----------------------------------------------------------------------------
(***************************************************************************)
(* Requests of the clients.                                                *)
(***************************************************************************)
Idle == removing = NoClient
Room == /\ Idle
        /\ Len(calls) + Len(msgs) + Len(pending) < MaxQueue
        /\ \A s \in Sessions : owed[s] < MaxQueue
\* A client that waits has got every answer before its next request.
MayAsk(s) == Registered(Owner[s]) /\ (ClientsWait => owed[s] = 0)
Asked(s) == [owed EXCEPT ![s] = @ + 1]

AddClient(c) ==
  /\ Idle
  /\ clients[c] = "new"
  /\ \E cb \in Registrations : clients' = [clients EXCEPT ![c] = cb]
  /\ UNCHANGED <<capsKnown, timeSess, distSess, pending, mode, hubOn, nHz,
                 speFast, removing, msgs, calls, stage, owed>>
  /\ UNCHANGED modemVars

StartCommand(s, o) ==
  /\ Room
  /\ MayAsk(s) /\ stage[s] = "new"
  /\ stage' = [stage EXCEPT ![s] = "started"]
  /\ StartTracking(s, o, Asked(s))
  /\ UNCHANGED <<clients, capsKnown, nHz, removing, msgs>>
  /\ UNCHANGED modemVars

UpdateCommand(s, o) ==
  /\ Room
  /\ MayAsk(s) /\ stage[s] = "started"
  /\ UpdateTracking(s, o, Asked(s))
  /\ UNCHANGED <<clients, capsKnown, nHz, removing, msgs, stage>>
  /\ UNCHANGED modemVars

StopCommand(s) ==
  /\ Room
  /\ MayAsk(s) /\ stage[s] = "started"
  /\ stage' = [stage EXCEPT ![s] = "stopped"]
  /\ StopTracking(s, Asked(s))
  /\ UNCHANGED <<clients, capsKnown, nHz, removing, msgs, pending>>
  /\ UNCHANGED modemVars

\* removeClientCommand: stopClientSessions, a loop, then eraseClient.  The loop
\* takes one step per time based session and nothing else runs meanwhile.
RemoveClient(c) ==
  /\ Room
  /\ Registered(c)
  /\ \A s \in Sessions : Owner[s] = c => MayAsk(s)
  /\ removing' = c
  /\ clients' = [clients EXCEPT ![c] = "removing"]
  /\ owed' = [s \in Sessions |-> IF Owner[s] = c THEN 0 ELSE owed[s]]
  /\ UNCHANGED <<capsKnown, timeSess, distSess, pending, mode, hubOn, nHz,
                 speFast, msgs, calls, stage>>
  /\ UNCHANGED modemVars

OfClient(S) == {s \in S : Owner[s] = removing}

StopNextOfClient(s) ==
  /\ ~Idle
  /\ s \in OfClient(TimeSessions)
  /\ \A t \in OfClient(TimeSessions) : s <= t
  /\ EraseSession(s)
  /\ FollowPlan(StopMultiplex(s))
  /\ UNCHANGED <<clients, capsKnown, pending, nHz, removing, msgs, stage, owed>>
  /\ UNCHANGED modemVars

\* The sessions of S in the order a map iterates them.
InOrder(S) ==
  {q \in [1 .. Cardinality(S) -> S] : \A i, j \in DOMAIN q : i < j => q[i] < q[j]}

FinishRemoval ==
  /\ ~Idle
  /\ OfClient(TimeSessions) = {}
  /\ \E q \in InOrder(OfClient(DistSessions)) :
       MakeCalls([i \in DOMAIN q |->
         Call("stopDist", q[i], NoOptions, "clientDistStopped", NoOptions)])
  /\ clients' = [clients EXCEPT ![removing] = "removed"]
  /\ removing' = NoClient
  /\ UNCHANGED <<capsKnown, timeSess, distSess, pending, nHz, msgs, stage, owed>>
  /\ UNCHANGED modemVars

-----------------------------------------------------------------------------
(***************************************************************************)
(* Messages of the adapter: answers, replayed requests, engine up.         *)
(***************************************************************************)
Answer(m) ==
  LET s == m.sess
  IN \/ /\ m.cb \in {"started", "distStarted"}
        /\ IF m.ok THEN KeepSessions ELSE EraseSession(s)
        /\ NoPlan /\ ReportIf(TRUE, owed, s)
     \/ /\ m.cb = "updated"
        /\ IF m.ok THEN KeepSessions ELSE SaveSession(s, m.arg)
        /\ NoPlan /\ ReportIf(TRUE, owed, s)
     \/ /\ m.cb = "stopped"
        /\ KeepSessions /\ NoPlan /\ ReportIf(TRUE, owed, s)
     \/ /\ m.cb \in {"distStopped", "clientDistStopped"}
        /\ IF m.ok THEN EraseSession(s) ELSE KeepSessions
        /\ NoPlan /\ ReportIf(m.cb = "distStopped", owed, s)
     \/ /\ m.cb = "toTime"
        /\ SaveSession(s, m.arg)
        /\ FollowPlan(StartMultiplex(s, m.arg))
        /\ ReportIf(StartMultiplex(s, m.arg).now, owed, s)
     \/ /\ m.cb = "distStop"
        /\ KeepSessions /\ UNCHANGED owed
        /\ IF m.ok
           THEN MakeCalls(<<Call("startDist", s, m.arg, "distRestarted", m.arg)>>)
           ELSE NoPlan
     \/ /\ m.cb = "distRestarted"
        /\ IF m.ok THEN SaveSession(s, m.arg) ELSE KeepSessions
        /\ NoPlan /\ ReportIf(TRUE, owed, s)

HandleAnswer ==
  /\ Idle
  /\ msgs # <<>>
  /\ Answer(Head(msgs))
  /\ msgs' = Tail(msgs)
  /\ UNCHANGED <<clients, capsKnown, pending, nHz, removing, stage>>
  /\ UNCHANGED modemVars

HandleReplay ==
  /\ Idle
  /\ msgs # <<>>
  /\ LET m == Head(msgs)
     IN \/ m.cb = "start" /\ StartTracking(m.sess, m.arg, owed)
        \/ m.cb = "update" /\ UpdateTracking(m.sess, m.arg, owed)
  /\ msgs' = Tail(msgs)
  /\ UNCHANGED <<clients, capsKnown, nHz, removing, stage>>
  /\ UNCHANGED modemVars

\* checkAndRestartSPESession: the options of the fastest session with the mode
\* of the highest power one, raised for N Hz; then every distance session.
\* Slip: the time based session is not restarted.
RestartTime_Forgotten(fast) == <<>>

RestartTime(fast) ==
  LET S == TimeSessions
      o == [Fastest(timeSess, S) EXCEPT !.power = RestartPower(timeSess, S)]
      o2 == [o EXCEPT !.interval = IF fast /\ @ > MinInterval THEN MinInterval ELSE @]
  IN IF S = {} THEN <<>> ELSE <<Call("startTime", 0, o2, "none", NoOptions)>>

RestartDistance(q) ==
  [i \in DOMAIN q |-> Call("startDist", q[i], distSess[q[i]], "none", NoOptions)]

\* before is what the handler calls first; n is mNHzNeeded.
RestartSpe(before, n) ==
  /\ \E q \in InOrder(DistSessions) :
       calls' = calls \o before \o RestartTime(n) \o RestartDistance(q)
  /\ speFast' = (n /\ TimeSessions # {} /\ Fastest(timeSess, TimeSessions).interval > MinInterval)
  /\ UNCHANGED mode
  /\ KeepSessions

\* MsgHandleEngineUpEvent: restartSessions, then the held requests are posted.
HandleEngineUp ==
  /\ Idle
  /\ msgs # <<>>
  /\ Head(msgs).cb = "engineUp"
  /\ capsKnown' = TRUE
  /\ RestartSpe(<<>>, nHz)
  /\ hubOn' = (hubOn \/ TimeSessions # {})
  /\ msgs' = Tail(msgs) \o pending
  /\ pending' = <<>>
  /\ UNCHANGED <<clients, nHz, removing, stage, owed>>
  /\ UNCHANGED modemVars

\* gnssUpdateSvConfig: suspendSessions, the configuration, restartSessions.
Reconfigure ==
  /\ MayReconfigure /\ Room
  /\ RestartSpe(IF TimeSessions = {} THEN <<>>
                ELSE <<Call("stopFix", 0, NoOptions, "none", NoOptions)>>, nHz)
  /\ hubOn' = (hubOn \/ TimeSessions # {})
  /\ UNCHANGED <<clients, capsKnown, pending, nHz, removing, msgs, stage, owed>>
  /\ UNCHANGED modemVars

\* updateNHzRequirementCb of an engine plugin.
UpdateNHz ==
  /\ NHzPossible /\ Room
  /\ nHz' = ~nHz
  /\ RestartSpe(<<>>, nHz')
  /\ UNCHANGED <<clients, capsKnown, pending, hubOn, removing, msgs, stage, owed>>
  /\ UNCHANGED modemVars

-----------------------------------------------------------------------------
(***************************************************************************)
(* The LocApi thread and the modem.                                        *)
(***************************************************************************)
Possible(c) == modemUp /\ (c.op \in DistanceOps => DistanceSupported)

Execute(c) ==
  /\ engine' = CASE c.op = "startTime" -> c.opts
                 [] c.op = "stopFix" -> NoOptions
                 [] OTHER -> engine
  /\ distEngine' = CASE c.op = "startDist" -> distEngine \cup {c.sess}
                     [] c.op = "stopDist" -> distEngine \ {c.sess}
                     [] OTHER -> distEngine

\* returnToSender posts the answer; a function that ignores it is left out.
Post(c, ok) ==
  msgs' = IF c.cb = "none" THEN msgs
          ELSE Append(msgs, [cb |-> c.cb, sess |-> c.sess, arg |-> c.arg, ok |-> ok])

ModemCall ==
  /\ calls # <<>>
  /\ Head(calls).op # "open"
  /\ \/ Possible(Head(calls)) /\ Execute(Head(calls)) /\ Post(Head(calls), TRUE)
     \/ /\ MayFail \/ ~Possible(Head(calls))
        /\ UNCHANGED <<engine, distEngine>> /\ Post(Head(calls), FALSE)
  /\ calls' = Tail(calls)
  /\ UNCHANGED <<modemUp, ssrs, stage, owed>>
  /\ UNCHANGED adapterVars

\* LocOpenMsg and LocSsrMsg: a successful open posts the engine-up event.
ModemOpen ==
  /\ calls # <<>>
  /\ Head(calls).op = "open"
  /\ modemUp' = TRUE
  /\ msgs' = Append(msgs, [cb |-> "engineUp", sess |-> 0, arg |-> NoOptions, ok |-> TRUE])
  /\ calls' = Tail(calls)
  /\ UNCHANGED <<engine, distEngine, ssrs, stage, owed>>
  /\ UNCHANGED adapterVars

\* The modem subsystem restarts and loses its sessions; handleEngineDownEvent
\* posts LocSsrMsg.  The calls ahead of that message fail.
ModemDown ==
  /\ modemUp /\ ssrs < MaxSsr
  /\ modemUp' = FALSE
  /\ engine' = NoOptions /\ distEngine' = {}
  /\ calls' = Append(calls, OpenCall)
  /\ ssrs' = ssrs + 1
  /\ UNCHANGED <<msgs, stage, owed>>
  /\ UNCHANGED adapterVars

-----------------------------------------------------------------------------
Request ==
  \/ \E c \in Clients : AddClient(c) \/ RemoveClient(c)
  \/ \E s \in Sessions : \/ \E o \in Opts : StartCommand(s, o) \/ UpdateCommand(s, o)
                         \/ StopCommand(s)
  \/ Reconfigure
  \/ UpdateNHz

AdapterStep ==
  \/ HandleAnswer \/ HandleReplay \/ HandleEngineUp
  \/ \E s \in Sessions : StopNextOfClient(s)
  \/ FinishRemoval

LocApiStep == ModemCall \/ ModemOpen

Next == Request \/ AdapterStep \/ LocApiStep \/ ModemDown

\* The two threads run as long as their queues hold something; clients may
\* stop asking at any time, and a subsystem restart need not happen.
Fairness == WF_vars(AdapterStep) /\ WF_vars(LocApiStep)

Spec == Init /\ [][Next]_vars
FairSpec == Spec /\ Fairness

-----------------------------------------------------------------------------
(***************************************************************************)
(* Properties.                                                             *)
(***************************************************************************)
\* Nothing is under way: every call was made and every answer handled.
Quiescent == calls = <<>> /\ msgs = <<>> /\ Idle

\* No request is answered twice: a client that counts the answers to its
\* start, update and stop requests of a session never counts one too many.
NeverTwice == \A s \in Sessions : owed[s] >= 0

\* Every request is answered: when nothing is under way no client that came with
\* its callbacks still waits for the answer to a start, update or stop.
Answered ==
  Quiescent => \A s \in Sessions : clients[Owner[s]] = "ready" => owed[s] = 0

\* The one session in the modem serves all: when nothing is under way and time
\* based sessions are listed, the modem runs at least as fast as each asks.
EngineServes ==
  Quiescent => \A s \in TimeSessions :
                 engine.size # 0 /\ engine.interval <= timeSess[s].interval

\* The modem runs in the best of the power modes asked for: when nothing is
\* under way and every listed session gives a mode, no session asks for a
\* better mode (a smaller one) than the one the modem runs in.
PowerServes ==
  Quiescent => \A s \in TimeSessions : engine.power <= timeSess[s].power

\* The modem is switched off when its last user leaves: when nothing is under
\* way and no time based session is listed, the modem runs none.
EngineIdle == Quiescent /\ TimeSessions = {} => engine.size = 0

\* When nothing is under way the modem runs exactly the distance based
\* sessions the adapter lists, also after a restart of the modem.
DistanceServed == Quiescent => distEngine = DistSessions

\* When nothing is under way, a session is not listed as time based and as
\* distance based at once.
OneKind == Quiescent => TimeSessions \cap DistSessions = {}

\* A stopped session stays stopped: when nothing is under way no session whose
\* client stopped it, or was removed, is listed (its client could not stop it
\* any more and the modem would track for nobody).
NoGhost ==
  Quiescent => \A s \in TimeSessions \cup DistSessions :
                 stage[s] = "started" /\ clients[Owner[s]] # "removed"

\* The mode told to the engine hub is at least as fast as every time based
\* session asks, in every state, also between a request and its answer.
ModeServes == \A s \in TimeSessions : mode.interval <= timeSess[s].interval

\* The engine hub believes that a fix is running iff a time based session is
\* listed.
HubFollows == hubOn <=> TimeSessions # {}

\* What the engine hub was told is true at every moment.
HubTold == HubFollows /\ ModeServes

\* The adapter takes the modem to run at the highest rate only if N Hz
\* positions are needed and the modem does, or was asked to.
FastIsTrue ==
  Quiescent /\ nHz /\ speFast => engine.size # 0 /\ engine.interval <= MinInterval

\* A client that stopped its session eventually gets every answer it waits
\* for, as long as the two threads keep running.
StopAnswered == \A s \in Sessions : stage[s] = "stopped" ~> owed[s] = 0

=============================================================================
