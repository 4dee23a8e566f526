-------------------------- MODULE GnssTrackingProofs -------------------------
(***************************************************************************)
(* Proofs about GnssTracking, for all sessions, clients, options and       *)
(* bounds: what the searches of TrackingOptions find, type correctness,    *)
(* that no request is answered twice, and, in the second half, that the    *)
(* time based sessions are served.                                         *)
(***************************************************************************)
EXTENDS GnssTracking, FunctionTheorems, FiniteSetTheorems, WellFoundedInduction,
        TLAPS

-----------------------------------------------------------------------------
(***************************************************************************)
(* The searches of TrackingOptions, for any session map.                   *)
(***************************************************************************)
\* The initial segments 0 .. x of the members of T are ordered by inclusion,
\* which is well founded on finite sets.
LEMMA LeastNatural ==
  ASSUME NEW T, T \subseteq Nat, T # {}
  PROVE  \E x \in T : \A y \in T : x <= y
<1> DEFINE W == {0 .. x : x \in T}
<1>1. W \subseteq FiniteSubsetsOf(Nat) /\ W # {}
  <2>1. ASSUME NEW x \in T PROVE 0 .. x \in FiniteSubsetsOf(Nat)
    <3>1. x \in Int /\ 0 \in Int
      OBVIOUS
    <3>2. IsFiniteSet(0 .. x)
      BY <3>1, FS_Interval
    <3>3. 0 .. x \subseteq Nat
      BY <3>1
    <3> QED  BY <3>2, <3>3 DEF FiniteSubsetsOf
  <2> QED  BY <2>1
<1>2. PICK U \in W : \A V \in W : ~(<<V, U>> \in StrictSubsetOrdering(Nat))
  <2> HIDE DEF W
  <2> QED  BY <1>1, FS_StrictSubsetOrderingWellFounded, WFMin
<1>3. PICK x \in T : U = 0 .. x
  BY <1>2
<1>4. ASSUME NEW y \in T, y < x PROVE FALSE
  <2>1. 0 .. y \in W /\ (0 .. y) \subseteq (0 .. x) /\ (0 .. y) # (0 .. x)
    BY <1>3, <1>4
  <2>2. <<0 .. y, U>> \in StrictSubsetOrdering(Nat)
    BY <2>1, <1>3 DEF StrictSubsetOrdering
  <2> QED  BY <1>2, <2>1, <2>2
<1> QED  BY <1>3, <1>4

\* The search for the smallest interval ends at a session that has it.
THEOREM FastestIsLeast ==
  ASSUME NEW m, NEW S, S \subseteq DOMAIN m, S \subseteq Nat, S # {},
         \A s \in S : m[s].interval \in Nat
  PROVE  \E f \in S : /\ Fastest(m, S) = m[f]
                      /\ \A t \in S : m[f].interval <= m[t].interval
<1> DEFINE I == {m[s].interval : s \in S}
<1>1. PICK i \in I : \A j \in I : i <= j
  <2>1. I \subseteq Nat /\ I # {}
    OBVIOUS
  <2> HIDE DEF I
  <2> QED  BY <2>1, LeastNatural
<1> DEFINE F == {s \in S : m[s].interval = i}
<1>2. PICK g \in F : \A t \in F : g <= t
  <2>1. F \subseteq Nat /\ F # {}
    BY <1>1
  <2> HIDE DEF F
  <2> QED  BY <2>1, LeastNatural
<1> DEFINE First(s) == \A t \in S : \/ m[s].interval < m[t].interval
                                    \/ m[s].interval = m[t].interval /\ s <= t
<1>3. \A t \in S : i <= m[t].interval
  BY <1>1
<1>4. g \in S /\ First(g)
  BY <1>1, <1>2, <1>3
<1> DEFINE f == CHOOSE s \in S : First(s)
<1>5. f \in S /\ First(f)
  <2> HIDE DEF First
  <2> QED  BY <1>4
<1>6. Fastest(m, S) = m[f]
  BY DEF Fastest
<1>7. \A t \in S : m[f].interval <= m[t].interval
  <2> HIDE DEF f
  <2> QED  BY <1>5
<1> HIDE DEF f
<1> QED  BY <1>5, <1>6, <1>7

\* A nonempty set of power modes has a best one.
LEMMA LeastPowerType ==
  ASSUME NEW m, NEW S, S # {}, \A s \in S : m[s].power \in PowerModes
  PROVE  LeastPower(m, S) \in PowerModes
<1> DEFINE P == {m[s].power : s \in S}
<1>1. P \subseteq Nat /\ P # {} /\ P \subseteq PowerModes
  BY DEF PowerModes, INVALID, M5
<1>2. PICK p \in P : \A q \in P : p <= q
  <2> HIDE DEF P
  <2> QED  BY <1>1, LeastNatural
<1>3. \A s \in S : p <= m[s].power
  BY <1>2
<1>4. LeastPower(m, S) \in P
  BY <1>3 DEF LeastPower
<1> QED  BY <1>1, <1>4

\* Both multiplexed power modes are power modes.
LEMMA MuxPowerType ==
  ASSUME NEW m, NEW S, \A s \in S : m[s].power \in PowerModes
  PROVE  MuxPower(m, S) \in PowerModes
BY LeastPowerType DEF MuxPower, PowerModes, INVALID, M5

LEMMA RestartPowerType ==
  ASSUME NEW m, NEW S, S # {}, S \subseteq Nat,
         \A s \in S : m[s].power \in PowerModes
  PROVE  RestartPower(m, S) \in PowerModes
<1> DEFINE first == CHOOSE s \in S : \A t \in S : s <= t
           valid == {s \in S : m[s].power # INVALID}
<1>1. first \in S
  <2>1. \E x \in S : \A y \in S : x <= y
    BY LeastNatural
  <2> QED  BY <2>1
<1>2. CASE m[first].power = INVALID
  BY <1>2 DEF RestartPower, PowerModes, INVALID, M5
<1>3. CASE m[first].power # INVALID
  <2>1. valid # {} /\ \A s \in valid : m[s].power \in PowerModes
    BY <1>1, <1>3
  <2>2. LeastPower(m, valid) \in PowerModes
    <3> HIDE DEF valid
    <3> QED  BY <2>1, LeastPowerType
  <2> QED  BY <1>3, <2>2 DEF RestartPower
<1> QED  BY <1>2, <1>3

\* The multiplexed options are tracking options.
LEMMA FastestType ==
  ASSUME NEW m, NEW S, S \subseteq DOMAIN m, S \subseteq Nat,
         \A s \in S : m[s] \in Options
  PROVE  Fastest(m, S) \in Options
<1>1. CASE S = {}
  BY <1>1 DEF Fastest, NoOptions, Options, PowerModes, INVALID, M5
<1>2. CASE S # {}
  <2>1. \A s \in S : m[s].interval \in Nat
    BY DEF Options
  <2> QED  BY <1>2, <2>1, FastestIsLeast
<1> QED  BY <1>1, <1>2

-----------------------------------------------------------------------------
(***************************************************************************)
(* Types.  SoundCalls and SoundMsgs strengthen the types of the queues by  *)
(* what the handlers rely on when they take an answer.                     *)
(***************************************************************************)
Sess == Sessions \cup {0}
Tables == [Sessions -> Options]
Owing == [Sessions -> Int]

\* Calls that are answered or concern a distance based session name a session,
\* one that restarts a distance based session carries a distance, and only a
\* call that starts the time based session is answered by "updated".
SoundCalls ==
  {c \in Calls : /\ c.cb # "none" \/ c.op \in DistanceOps => c.sess \in Sessions
                 /\ c.cb = "updated" => c.op = "startTime"
                 /\ c.cb \in {"distStop", "distRestarted"} => c.arg.distance > 0}
SoundMsgs ==
  {m \in Msgs : /\ m.cb # "engineUp" => m.sess \in Sessions
                /\ m.cb \in {"distStop", "distRestarted"} => m.arg.distance > 0}
HeldMsgs == {m \in SoundMsgs : m.cb \in {"start", "update"}}

Queues ==
  /\ calls \in Seq(SoundCalls)
  /\ msgs \in Seq(SoundMsgs)
  /\ pending \in Seq(HeldMsgs)

TypeInv == TypeOK /\ Queues

Plans == [calls : Seq(SoundCalls), mode : Modes, hubOn : BOOLEAN,
          speFast : BOOLEAN, now : BOOLEAN]

-----------------------------------------------------------------------------
(***************************************************************************)
(* Sequences, options and tables.                                          *)
(***************************************************************************)
LEMMA SeqOps ==
  ASSUME NEW S
  PROVE  /\ <<>> \in Seq(S)
         /\ \A x \in S : <<x>> \in Seq(S)
         /\ \A p, q \in Seq(S) : p \o q \in Seq(S)
         /\ \A p \in Seq(S), x \in S : Append(p, x) \in Seq(S)
         /\ \A p \in Seq(S) : p # <<>> => Tail(p) \in Seq(S) /\ Head(p) \in S
OBVIOUS

LEMMA SeqWiden ==
  ASSUME NEW S, NEW T, S \subseteq T, NEW q \in Seq(S)
  PROVE  q \in Seq(T)
OBVIOUS

LEMMA NoOptionsType == NoOptions \in Options
BY DEF NoOptions, Options, PowerModes, INVALID, M5

LEMMA IntervalType == MinInterval \in Nat /\ MinInterval > 0
BY IntervalAssumption

LEMMA AtLeastMinType ==
  ASSUME NEW o \in Options
  PROVE  /\ AtLeastMin(o) \in Options
         /\ AtLeastMin(o).distance = o.distance
         /\ AtLeastMin(o).size = o.size
BY IntervalType DEF AtLeastMin, Options

LEMMA TimeOptionsType ==
  ASSUME NEW o \in Options, NEW t \in TimeOptions(o)
  PROVE  t \in Options /\ t.distance = o.distance /\ t.size = o.size
BY DEF TimeOptions, Options, PowerModes, INVALID, M2, M5

LEMMA SpeOptionsType ==
  ASSUME NEW o \in Options
  PROVE  SpeOptions(o) \in Options
BY IntervalType DEF SpeOptions, Options

LEMMA TablesType ==
  ASSUME TypeOK, NEW s, NEW o \in Options
  PROVE  /\ TimeSaved(s, o) \in Tables /\ DistSaved(s, o) \in Tables
         /\ TimeErased(s) \in Tables /\ DistErased(s) \in Tables
         /\ [timeSess EXCEPT ![s] = o] \in Tables
BY NoOptionsType
   DEF TypeOK, Tables, TimeSaved, DistSaved, TimeErased, DistErased

LEMMA SessionsListed ==
  ASSUME TypeOK
  PROVE  /\ TimeSessions \subseteq Sessions /\ TimeSessions \subseteq DOMAIN timeSess
         /\ DistSessions \subseteq Sessions
         /\ Sessions \subseteq Nat
         /\ \A s \in TimeSessions : timeSess[s] \in Options
         /\ \A s \in DistSessions : distSess[s] \in Options
BY SessionsAssumption DEF TypeOK, TimeSessions, DistSessions, Listed

LEMMA SessionsFinite ==
  ASSUME NEW S, S \subseteq Sessions
  PROVE  Cardinality(S) \in Nat
BY SessionsAssumption, FS_Subset, FS_CardinalityType

LEMMA ReportedType ==
  ASSUME NEW ow \in Owing, NEW s
  PROVE  Reported(ow, s) \in Owing
<1>1. [ow EXCEPT ![s] = @ - 1] \in Owing
  <2>1. CASE s \in Sessions
    <3>1. ow[s] - 1 \in Int
      BY <2>1 DEF Owing
    <3> QED  BY <3>1 DEF Owing
  <2>2. CASE s \notin Sessions
    BY <2>2 DEF Owing
  <2> QED  BY <2>1, <2>2
<1> QED  BY <1>1 DEF Reported

LEMMA ReportIfType ==
  ASSUME NEW ow \in Owing, NEW s, NEW now, ReportIf(now, ow, s)
  PROVE  owed' \in Owing
BY ReportedType DEF ReportIf

-----------------------------------------------------------------------------
(***************************************************************************)
(* Plans.                                                                  *)
(***************************************************************************)
LEMMA CallType ==
  ASSUME NEW op \in TimeOps \cup DistanceOps \cup {"open"}, NEW s \in Sess,
         NEW o \in Options, NEW cb \in Callbacks, NEW arg \in Options,
         cb # "none" \/ op \in DistanceOps => s \in Sessions,
         cb = "updated" => op = "startTime",
         cb \in {"distStop", "distRestarted"} => arg.distance > 0
  PROVE  Call(op, s, o, cb, arg) \in SoundCalls
BY DEF Call, SoundCalls, Calls, Sess

LEMMA NoCallType ==
  ASSUME TypeInv
  PROVE  NoCall \in Plans
BY SeqOps DEF TypeInv, TypeOK, NoCall, Plan, Plans

LEMMA StartSpeType ==
  ASSUME TypeInv, NEW s \in Sessions, NEW o \in Options,
         NEW cb \in {"started", "updated"}, NEW arg \in Options
  PROVE  StartSpe(s, o, cb, arg) \in Plans
<1> DEFINE call == Call("startTime", s, SpeOptions(o), cb, arg)
<1>1. call \in SoundCalls
  BY CallType, SpeOptionsType DEF TimeOps, Callbacks, DistanceOps, Sess
<1>2. <<call>> \in Seq(SoundCalls) /\ <<>> \in Seq(SoundCalls)
  BY <1>1, SeqOps
<1>3. [interval |-> o.interval, power |-> o.power] \in Modes
  BY DEF Options, Modes
<1>4. /\ (speFast \/ RaisedForNHz(o)) \in BOOLEAN
      /\ (nHz /\ speFast) \in BOOLEAN
  BY DEF TypeInv, TypeOK
<1> HIDE DEF call
<1> QED  BY <1>2, <1>3, <1>4 DEF StartSpe, Plan, Plans, call

LEMMA StopSpeType ==
  ASSUME TypeInv, NEW s \in Sessions
  PROVE  StopSpe(s) \in Plans
<1>1. Call("stopFix", s, NoOptions, "stopped", NoOptions) \in SoundCalls
  BY CallType, NoOptionsType DEF TimeOps, Callbacks, DistanceOps, Sess
<1>2. <<Call("stopFix", s, NoOptions, "stopped", NoOptions)>> \in Seq(SoundCalls)
  BY <1>1, SeqOps
<1> QED  BY <1>2 DEF StopSpe, Plan, Plans, TypeInv, TypeOK

LEMMA MultiplexTypes ==
  ASSUME TypeInv, NEW S, S \subseteq TimeSessions
  PROVE  /\ Fastest(timeSess, S) \in Options
         /\ MuxPower(timeSess, S) \in PowerModes
<1>1. /\ S \subseteq DOMAIN timeSess /\ S \subseteq Nat
      /\ \A s \in S : timeSess[s] \in Options
  BY SessionsListed DEF TypeInv
<1>2. \A s \in S : timeSess[s].power \in PowerModes
  BY <1>1 DEF Options
<1> QED  BY <1>1, <1>2, FastestType, MuxPowerType

LEMMA LoweredType ==
  ASSUME TypeInv, NEW S, S \subseteq TimeSessions, NEW o \in Options
  PROVE  Lowered(S, o) \in Options
BY MultiplexTypes DEF Lowered, Options

LEMMA StartMultiplexType ==
  ASSUME TypeInv, NEW s \in Sessions, NEW o \in Options
  PROVE  StartMultiplex(s, o) \in Plans
BY StartSpeType, NoCallType, LoweredType, NoOptionsType DEF StartMultiplex

LEMMA UpdateMultiplexType ==
  ASSUME TypeInv, NEW s \in TimeSessions, NEW o \in Options
  PROVE  UpdateMultiplex(s, o) \in Plans
<1>1. s \in Sessions /\ timeSess[s] \in Options /\ TimeSessions \ {s} \subseteq TimeSessions
  BY SessionsListed DEF TypeInv, Sess
<1> QED
  BY <1>1, StartSpeType, NoCallType, LoweredType DEF UpdateMultiplex

LEMMA StopMultiplexType ==
  ASSUME TypeInv, NEW s \in Sessions
  PROVE  StopMultiplex(s) \in Plans
<1> DEFINE others == TimeSessions \ {s}
           base == Fastest(timeSess, others)
           power == MuxPower(timeSess, others)
<1>1. base \in Options /\ power \in PowerModes
  BY MultiplexTypes
<1>2. [base EXCEPT !.power = power] \in Options
  BY <1>1 DEF Options
<1>3. StartSpe(s, [base EXCEPT !.power = power], "started", NoOptions) \in Plans
  BY <1>2, StartSpeType, NoOptionsType
<1> QED  BY <1>3, StopSpeType, NoCallType DEF StopMultiplex

\* A handler adds calls to the queue, it never takes any away.
Grown == \E cs \in Seq(SoundCalls) : calls' = calls \o cs

\* What a handler does to the modem's session, and all it may touch besides
\* the queue of messages.
Spe == /\ Grown
       /\ mode' \in Modes
       /\ hubOn' \in BOOLEAN /\ speFast' \in BOOLEAN

Touched ==
  /\ Spe
  /\ timeSess' \in Tables /\ distSess' \in Tables
  /\ pending' \in Seq(HeldMsgs)
  /\ owed' \in Owing

LEMMA GrownType ==
  ASSUME TypeInv, Grown
  PROVE  calls' \in Seq(SoundCalls)
BY SeqOps DEF Grown, TypeInv, Queues

\* The variables of the modem are left alone by every step of the adapter.
LEMMA TouchedType ==
  ASSUME TypeInv, Touched,
         stage' \in [Sessions -> Stages],
         clients' \in [Clients -> ClientStates],
         capsKnown' \in BOOLEAN, nHz' \in BOOLEAN,
         removing' \in Clients \cup {NoClient},
         msgs' \in Seq(SoundMsgs),
         UNCHANGED <<modemUp, engine, distEngine, ssrs>>
  PROVE  TypeInv'
<1>1. Queues'
  BY GrownType DEF Queues, Touched, Spe
<1>2. calls' \in Seq(Calls) /\ pending' \in Seq(Msgs) /\ msgs' \in Seq(Msgs)
  BY <1>1, SeqWiden DEF Queues, SoundCalls, SoundMsgs, HeldMsgs
<1>3. TypeOK'
  BY <1>2 DEF TypeInv, TypeOK, Touched, Spe, Tables, Owing
<1> QED  BY <1>1, <1>3 DEF TypeInv

LEMMA FollowPlanType ==
  ASSUME TypeInv, NEW p \in Plans, FollowPlan(p)
  PROVE  Spe
<1>1. p.calls \in Seq(SoundCalls) /\ calls' = calls \o p.calls
  BY DEF FollowPlan, Plans
<1> QED  BY <1>1 DEF FollowPlan, Plans, Spe, Grown

LEMMA NoPlanType ==
  ASSUME TypeInv, NoPlan
  PROVE  Spe
<1>1. calls' = calls \o <<>> /\ <<>> \in Seq(SoundCalls)
  BY DEF NoPlan, TypeInv, Queues
<1> QED  BY <1>1 DEF NoPlan, TypeInv, TypeOK, Spe, Grown

LEMMA MakeCallsType ==
  ASSUME TypeInv, NEW cs \in Seq(SoundCalls), MakeCalls(cs)
  PROVE  Spe
BY DEF MakeCalls, TypeInv, TypeOK, Spe, Grown

LEMMA MakeCallType ==
  ASSUME TypeInv, NEW c \in SoundCalls, MakeCalls(<<c>>)
  PROVE  Spe
BY SeqOps, MakeCallsType

LEMMA KeepType ==
  ASSUME TypeInv
  PROVE  /\ UNCHANGED pending => (pending \in Seq(HeldMsgs))'
         /\ KeepSessions => timeSess' \in Tables /\ distSess' \in Tables
BY DEF TypeInv, TypeOK, Queues, KeepSessions, Tables

LEMMA SaveType ==
  ASSUME TypeInv, NEW s, NEW o \in Options, SaveSession(s, o) \/ EraseSession(s)
  PROVE  timeSess' \in Tables /\ distSess' \in Tables
BY TablesType DEF TypeInv, SaveSession, EraseSession

-----------------------------------------------------------------------------
(***************************************************************************)
(* Handlers keep the types of what they touch.                             *)
(***************************************************************************)
LEMMA HoldType ==
  ASSUME TypeInv, NEW s \in Sessions, NEW o \in Options, NEW ow \in Owing,
         NEW kind \in {"start", "update"}, Hold(kind, s, o, ow)
  PROVE  Touched
<1>1. [cb |-> kind, sess |-> s, arg |-> o, ok |-> TRUE] \in HeldMsgs
  BY DEF HeldMsgs, SoundMsgs, Msgs
<1>2. pending' \in Seq(HeldMsgs)
  BY <1>1, SeqOps DEF Hold, TypeInv, Queues
<1> QED  BY <1>2, KeepType, NoPlanType DEF Hold, Touched, Spe

LEMMA StartTrackingType ==
  ASSUME TypeInv, NEW s \in Sessions, NEW o \in Options, NEW ow \in Owing,
         StartTracking(s, o, ow)
  PROVE  Touched
<1>1. CASE Hold("start", s, o, ow)
  BY <1>1, HoldType
<1>2. CASE StartRefused(s, o, ow)
  BY <1>2, KeepType, NoPlanType DEF StartRefused, Touched, Spe
<1>3. CASE StartAccepted(s, o, ow)
  <2>1. pending' \in Seq(HeldMsgs)
    BY <1>3, KeepType DEF StartAccepted
  <2> DEFINE a == AtLeastMin(o)
             c == Call("startDist", s, a, "distStarted", NoOptions)
  <2>2. a \in Options
    BY AtLeastMinType
  <2>3. CASE /\ SaveSession(s, a) /\ MakeCalls(<<c>>) /\ owed' = ow
    <3>1. c \in SoundCalls
      BY <2>2, CallType, NoOptionsType DEF DistanceOps, Callbacks, TimeOps, Sess
    <3> HIDE DEF a, c
    <3> QED  BY <2>1, <2>2, <2>3, <3>1, SaveType, MakeCallType DEF Touched, Spe
  <2>4. CASE \E t \in TimeOptions(a) :
               /\ SaveSession(s, t)
               /\ FollowPlan(StartMultiplex(s, t))
               /\ ReportIf(StartMultiplex(s, t).now, ow, s)
    <3> HIDE DEF a
    <3>1. PICK t \in TimeOptions(a) :
               /\ SaveSession(s, t)
               /\ FollowPlan(StartMultiplex(s, t))
               /\ ReportIf(StartMultiplex(s, t).now, ow, s)
      BY <2>4
    <3>2. t \in Options
      BY <2>2, TimeOptionsType
    <3>3. Spe
      BY <3>1, <3>2, StartMultiplexType, FollowPlanType
    <3> QED  BY <2>1, <3>1, <3>2, <3>3, SaveType, ReportIfType DEF Touched, Spe
  <2> QED  BY <1>3, <2>3, <2>4 DEF StartAccepted
<1> QED  BY <1>1, <1>2, <1>3 DEF StartTracking

LEMMA TimeToDistanceType ==
  ASSUME TypeInv, NEW s \in Sessions, NEW o \in Options, NEW ow \in Owing,
         TimeToDistance(s, o, ow)
  PROVE  /\ timeSess' \in Tables /\ distSess' \in Tables /\ Spe
         /\ owed' \in Owing
<1> DEFINE p == StopMultiplex(s)
           c == Call("startDist", s, o, "none", NoOptions)
           q == [p EXCEPT !.calls = Append(@, c)]
<1>1. p \in Plans
  BY StopMultiplexType
<1>2. c \in SoundCalls
  BY CallType, NoOptionsType DEF DistanceOps, Callbacks, TimeOps, Sess
<1>3. Append(p.calls, c) \in Seq(SoundCalls)
  <2> HIDE DEF p, c
  <2> QED  BY <1>1, <1>2, SeqOps DEF Plans
<1>4. q \in Plans
  <2> HIDE DEF p, c
  <2> QED  BY <1>1, <1>3 DEF Plans
<1>5. FollowPlan(q) /\ ReportIf(p.now, ow, s)
  BY DEF TimeToDistance
<1>6. Spe
  <2> HIDE DEF q
  <2> QED  BY <1>4, <1>5, FollowPlanType
<1>7. timeSess' \in Tables /\ distSess' \in Tables
  BY TablesType DEF TimeToDistance, TypeInv
<1> QED  BY <1>5, <1>6, <1>7, ReportIfType

LEMMA UpdateAcceptedType ==
  ASSUME TypeInv, NEW s \in Sessions, NEW o \in Options, NEW ow \in Owing,
         UpdateAccepted(s, o, ow)
  PROVE  Touched
<1>1. pending' \in Seq(HeldMsgs)
  BY KeepType DEF UpdateAccepted
<1>2. PICK t \in {AtLeastMin(x) : x \in TimeOptions(o)} :
     \/ /\ s \in TimeSessions /\ t.distance > 0
        /\ TimeToDistance(s, t, ow)
     \/ /\ s \in DistSessions /\ t.distance = 0
        /\ EraseSession(s)
        /\ MakeCalls(<<Call("stopDist", s, NoOptions, "toTime", t)>>)
        /\ owed' = ow
     \/ /\ s \in TimeSessions \ DistSessions /\ t.distance = 0
        /\ SaveSession(s, t)
        /\ FollowPlan(UpdateMultiplex(s, t))
        /\ ReportIf(UpdateMultiplex(s, t).now, ow, s)
     \/ /\ s \notin TimeSessions /\ t.distance > 0
        /\ KeepSessions
        /\ MakeCalls(<<Call("stopDist", s, NoOptions, "distStop", t)>>)
        /\ owed' = ow
  BY DEF UpdateAccepted
<1>3. t \in Options
  BY TimeOptionsType, AtLeastMinType
<1>4. CASE TimeToDistance(s, t, ow)
  BY <1>1, <1>3, <1>4, TimeToDistanceType DEF Touched, Spe
<1>5. CASE /\ s \in TimeSessions
           /\ SaveSession(s, t)
           /\ FollowPlan(UpdateMultiplex(s, t))
           /\ ReportIf(UpdateMultiplex(s, t).now, ow, s)
  <2>1. Spe
    BY <1>3, <1>5, UpdateMultiplexType, FollowPlanType
  <2> QED  BY <1>1, <1>3, <1>5, <2>1, SaveType, ReportIfType DEF Touched, Spe
<1>6. CASE /\ EraseSession(s)
           /\ MakeCalls(<<Call("stopDist", s, NoOptions, "toTime", t)>>)
           /\ owed' = ow
  <2>1. Call("stopDist", s, NoOptions, "toTime", t) \in SoundCalls
    BY <1>3, CallType, NoOptionsType DEF DistanceOps, Callbacks, TimeOps, Sess
  <2>2. Spe
    BY <1>6, <2>1, MakeCallType
  <2> QED  BY <1>1, <1>3, <1>6, <2>2, SaveType DEF Touched, Spe
<1>7. CASE /\ t.distance > 0
           /\ KeepSessions
           /\ MakeCalls(<<Call("stopDist", s, NoOptions, "distStop", t)>>)
           /\ owed' = ow
  <2>1. Call("stopDist", s, NoOptions, "distStop", t) \in SoundCalls
    BY <1>3, <1>7, CallType, NoOptionsType DEF DistanceOps, Callbacks, TimeOps, Sess
  <2>2. Spe
    BY <1>7, <2>1, MakeCallType
  <2> QED  BY <1>1, <1>7, <2>2, KeepType DEF Touched, Spe
<1> QED  BY <1>2, <1>4, <1>5, <1>6, <1>7

LEMMA UpdateTrackingType ==
  ASSUME TypeInv, NEW s \in Sessions, NEW o \in Options, NEW ow \in Owing,
         UpdateTracking(s, o, ow)
  PROVE  Touched
<1>1. CASE Hold("update", s, o, ow)
  BY <1>1, HoldType
<1>2. CASE UpdateRefused(s, o, ow)
  BY <1>2, KeepType, NoPlanType, ReportIfType DEF UpdateRefused, Touched, Spe
<1>3. CASE UpdateAccepted(s, o, ow)
  BY <1>3, UpdateAcceptedType
<1> QED  BY <1>1, <1>2, <1>3 DEF UpdateTracking

LEMMA StopTrackingType ==
  ASSUME TypeInv, NEW s \in Sessions, NEW ow \in Owing, StopTracking(s, ow),
         UNCHANGED pending
  PROVE  Touched
<1>1. pending' \in Seq(HeldMsgs)
  BY KeepType
<1>2. CASE /\ EraseSession(s)
           /\ FollowPlan(StopMultiplex(s))
           /\ ReportIf(StopMultiplex(s).now, ow, s)
  <2>1. Spe
    BY <1>2, StopMultiplexType, FollowPlanType
  <2> QED
    BY <1>1, <1>2, <2>1, SaveType, NoOptionsType, ReportIfType DEF Touched, Spe
<1>3. CASE /\ KeepSessions
           /\ MakeCalls(<<Call("stopDist", s, NoOptions, "distStopped", NoOptions)>>)
           /\ owed' = ow
  <2>1. Call("stopDist", s, NoOptions, "distStopped", NoOptions) \in SoundCalls
    BY CallType, NoOptionsType DEF DistanceOps, Callbacks, TimeOps, Sess
  <2>2. Spe
    BY <1>3, <2>1, MakeCallType
  <2> QED  BY <1>1, <1>3, <2>2, KeepType DEF Touched, Spe
<1>4. CASE KeepSessions /\ NoPlan /\ ReportIf(TRUE, ow, s)
  BY <1>1, <1>4, KeepType, NoPlanType, ReportIfType DEF Touched, Spe
<1> QED  BY <1>2, <1>3, <1>4 DEF StopTracking

LEMMA AnswerType ==
  ASSUME TypeInv, NEW m \in SoundMsgs, Answer(m), UNCHANGED pending
  PROVE  Touched
<1>1. /\ m.sess \in Sessions /\ m.arg \in Options
      /\ m.cb \in {"distStop", "distRestarted"} => m.arg.distance > 0
  BY DEF Answer, SoundMsgs, Msgs
<1>2. pending' \in Seq(HeldMsgs) /\ owed \in Owing
  BY KeepType DEF TypeInv, TypeOK, Owing
<1>3. CASE /\ KeepSessions \/ EraseSession(m.sess) \/ SaveSession(m.sess, m.arg)
           /\ NoPlan
           /\ \E now : ReportIf(now, owed, m.sess)
  BY <1>1, <1>2, <1>3, KeepType, SaveType, NoPlanType, ReportIfType DEF Touched, Spe
<1>4. CASE /\ SaveSession(m.sess, m.arg)
           /\ FollowPlan(StartMultiplex(m.sess, m.arg))
           /\ ReportIf(StartMultiplex(m.sess, m.arg).now, owed, m.sess)
  <2>1. Spe
    BY <1>1, <1>4, StartMultiplexType, FollowPlanType
  <2> QED  BY <1>1, <1>2, <1>4, <2>1, SaveType, ReportIfType DEF Touched, Spe
<1>5. CASE /\ m.cb = "distStop"
           /\ KeepSessions /\ UNCHANGED owed
           /\ \/ MakeCalls(<<Call("startDist", m.sess, m.arg, "distRestarted", m.arg)>>)
              \/ NoPlan
  <2>1. Call("startDist", m.sess, m.arg, "distRestarted", m.arg) \in SoundCalls
    BY <1>1, <1>5, CallType DEF DistanceOps, Callbacks, TimeOps, Sess
  <2>2. Spe
    BY <1>5, <2>1, MakeCallType, NoPlanType
  <2> QED  BY <1>2, <1>5, <2>2, KeepType DEF Touched, Spe
<1>6. CASE m.cb \in {"started", "distStarted", "updated", "stopped", "distStopped",
                     "clientDistStopped", "distRestarted"}
  <2>1. NoPlan
    BY <1>6 DEF Answer
  <2>2. KeepSessions \/ EraseSession(m.sess) \/ SaveSession(m.sess, m.arg)
    BY <1>6 DEF Answer
  <2>3. ReportIf(TRUE, owed, m.sess) \/ ReportIf(m.cb = "distStopped", owed, m.sess)
    BY <1>6 DEF Answer
  <2> QED  BY <1>3, <2>1, <2>2, <2>3
<1> QED  BY <1>4, <1>5, <1>6 DEF Answer

\* A restart calls the modem once for all time based sessions and once for
\* each distance based one.
LEMMA RestartCalls ==
  ASSUME TypeInv, NEW n \in BOOLEAN, NEW q \in InOrder(DistSessions)
  PROVE  RestartTime(n) \in Seq(SoundCalls) /\ RestartDistance(q) \in Seq(SoundCalls)
<1>1. RestartTime(n) \in Seq(SoundCalls)
  <2> DEFINE S == TimeSessions
             o == [Fastest(timeSess, S) EXCEPT !.power = RestartPower(timeSess, S)]
             o2 == [o EXCEPT !.interval = IF n /\ @ > MinInterval THEN MinInterval ELSE @]
  <2>1. CASE S = {}
    BY <2>1, SeqOps DEF RestartTime
  <2>2. CASE S # {}
    <3>1. Fastest(timeSess, S) \in Options
      BY MultiplexTypes
    <3>2. RestartPower(timeSess, S) \in PowerModes
      <4>1. S \subseteq Nat /\ \A s \in S : timeSess[s].power \in PowerModes
        BY SessionsListed DEF TypeInv, Options
      <4> QED  BY <2>2, <4>1, RestartPowerType
    <3>3. o \in Options
      BY <3>1, <3>2 DEF Options
    <3>4. o2 \in Options
      <4> HIDE DEF o
      <4> QED  BY <3>3, IntervalType DEF Options
    <3>5. Call("startTime", 0, o2, "none", NoOptions) \in SoundCalls
      <4> HIDE DEF o2
      <4> QED  BY <3>4, CallType, NoOptionsType
                  DEF TimeOps, Callbacks, Sess, DistanceOps
    <3>6. RestartTime(n) = <<Call("startTime", 0, o2, "none", NoOptions)>>
      BY <2>2 DEF RestartTime
    <3> QED  BY <3>5, <3>6, SeqOps
  <2> QED  BY <2>1, <2>2
<1>2. RestartDistance(q) \in Seq(SoundCalls)
  <2>1. Cardinality(DistSessions) \in Nat /\ DistSessions \subseteq Sessions
    BY SessionsListed, SessionsFinite DEF TypeInv
  <2>2. q \in [1 .. Cardinality(DistSessions) -> DistSessions]
    BY DEF InOrder
  <2>3. \A s \in DistSessions :
          Call("startDist", s, distSess[s], "none", NoOptions) \in SoundCalls
    BY <2>1, SessionsListed, CallType, NoOptionsType
       DEF TypeInv, DistanceOps, Callbacks, Sess, TimeOps
  <2>4. RestartDistance(q) \in [1 .. Cardinality(DistSessions) -> SoundCalls]
    BY <2>2, <2>3 DEF RestartDistance
  <2> QED  BY <2>1, <2>4
<1> QED  BY <1>1, <1>2

LEMMA RestartSpeType ==
  ASSUME TypeInv, NEW before \in Seq(SoundCalls), NEW n \in BOOLEAN,
         RestartSpe(before, n)
  PROVE  /\ timeSess' \in Tables /\ distSess' \in Tables
         /\ Grown
         /\ mode' \in Modes
         /\ speFast' \in BOOLEAN
<1>1. PICK q \in InOrder(DistSessions) :
        calls' = calls \o before \o RestartTime(n) \o RestartDistance(q)
  BY DEF RestartSpe
<1>2. RestartTime(n) \in Seq(SoundCalls)
  BY RestartCalls
<1>3. RestartDistance(q) \in Seq(SoundCalls)
  BY RestartCalls
<1>4. Grown
  <2>1. before \o (RestartTime(n) \o RestartDistance(q)) \in Seq(SoundCalls)
    BY <1>2, <1>3, SeqOps
  <2>2. calls' = calls \o (before \o (RestartTime(n) \o RestartDistance(q)))
    BY <1>1, <1>2, <1>3, SMTT(20) DEF TypeInv, Queues
  <2> QED  BY <2>1, <2>2 DEF Grown
<1>5. timeSess' \in Tables /\ distSess' \in Tables
  BY KeepType DEF RestartSpe
<1>6. mode' \in Modes
  BY DEF RestartSpe, TypeInv, TypeOK
<1>7. speFast' \in BOOLEAN
  BY DEF RestartSpe
<1> QED  BY <1>4, <1>5, <1>6, <1>7

-----------------------------------------------------------------------------
(***************************************************************************)
(* Every step keeps the types.                                             *)
(***************************************************************************)
TypedStep == TypeInv' /\ Grown

LEMMA NotGrown ==
  ASSUME TypeInv, UNCHANGED calls
  PROVE  Grown
<1>1. calls' = calls \o <<>> /\ <<>> \in Seq(SoundCalls)
  BY DEF TypeInv, Queues
<1> QED  BY <1>1 DEF Grown

LEMMA OwedType ==
  ASSUME TypeOK
  PROVE  owed \in Owing /\ \A s \in Sessions : Asked(s) \in Owing
BY DEF TypeOK, Owing, Asked

LEMMA RequestTypes ==
  ASSUME TypeInv
  PROVE  /\ \A c \in Clients : AddClient(c) \/ RemoveClient(c) => TypedStep
         /\ \A s \in Sessions, o \in Opts :
              StartCommand(s, o) \/ UpdateCommand(s, o) => TypedStep
         /\ \A s \in Sessions : StopCommand(s) => TypedStep
<1>1. ASSUME NEW c \in Clients, AddClient(c) PROVE TypedStep
  BY <1>1, RegistrationsAssumption, NotGrown
     DEF TypedStep, AddClient, TypeInv, TypeOK, Queues, ClientStates, modemVars
<1>2. ASSUME NEW c \in Clients, RemoveClient(c) PROVE TypedStep
  BY <1>2, NotGrown
     DEF TypedStep, RemoveClient, TypeInv, TypeOK, Queues, ClientStates, modemVars
<1>3. ASSUME NEW s \in Sessions, NEW o \in Opts,
             StartCommand(s, o) \/ UpdateCommand(s, o)
      PROVE  TypedStep
  <2>1. o \in Options /\ Asked(s) \in Owing
    BY OptsAssumption, OwedType DEF Sess, TypeInv
  <2>2. Touched
    BY <1>3, <2>1, StartTrackingType, UpdateTrackingType
       DEF StartCommand, UpdateCommand
  <2>3. stage' \in [Sessions -> Stages]
    BY <1>3 DEF StartCommand, UpdateCommand, TypeInv, TypeOK, Stages
  <2>4. UNCHANGED <<clients, capsKnown, nHz, removing, msgs, modemVars>>
    BY <1>3 DEF StartCommand, UpdateCommand
  <2> QED
    BY <2>2, <2>3, <2>4, TouchedType
       DEF TypedStep, Touched, Spe, modemVars, TypeInv, TypeOK, Queues
<1>4. ASSUME NEW s \in Sessions, StopCommand(s) PROVE TypedStep
  <2>1. Asked(s) \in Owing
    BY OwedType DEF Sess, TypeInv
  <2>2. Touched
    BY <1>4, <2>1, StopTrackingType DEF StopCommand
  <2>3. stage' \in [Sessions -> Stages]
    BY <1>4 DEF StopCommand, TypeInv, TypeOK, Stages
  <2>4. UNCHANGED <<clients, capsKnown, nHz, removing, msgs, modemVars>>
    BY <1>4 DEF StopCommand
  <2> QED
    BY <2>2, <2>3, <2>4, TouchedType
       DEF TypedStep, Touched, Spe, modemVars, TypeInv, TypeOK, Queues
<1> QED  BY <1>1, <1>2, <1>3, <1>4

\* The calls of a removal, one for each distance based session of the client.
LEMMA RemovalCalls ==
  ASSUME TypeInv, NEW q \in InOrder(OfClient(DistSessions))
  PROVE  [i \in DOMAIN q |->
           Call("stopDist", q[i], NoOptions, "clientDistStopped", NoOptions)]
             \in Seq(SoundCalls)
<1> DEFINE S == OfClient(DistSessions)
           cs == [i \in DOMAIN q |->
                   Call("stopDist", q[i], NoOptions, "clientDistStopped", NoOptions)]
<1>1. S \subseteq Sessions /\ Cardinality(S) \in Nat
  BY SessionsListed, SessionsFinite DEF TypeInv, OfClient
<1>2. q \in [1 .. Cardinality(S) -> S]
  BY DEF InOrder
<1>3. \A s \in S :
        Call("stopDist", s, NoOptions, "clientDistStopped", NoOptions) \in SoundCalls
  BY <1>1, CallType, NoOptionsType DEF DistanceOps, Callbacks, Sess, TimeOps
<1>4. cs \in [1 .. Cardinality(S) -> SoundCalls]
  <2> HIDE DEF S
  <2> QED  BY <1>2, <1>3
<1> QED  BY <1>1, <1>4

LEMMA RemovalTypes ==
  ASSUME TypeInv, FinishRemoval \/ \E s \in Sessions : StopNextOfClient(s)
  PROVE  TypedStep
<1>1. CASE FinishRemoval
  <2>1. PICK q \in InOrder(OfClient(DistSessions)) :
          MakeCalls([i \in DOMAIN q |->
            Call("stopDist", q[i], NoOptions, "clientDistStopped", NoOptions)])
    BY <1>1 DEF FinishRemoval
  <2> DEFINE cs == [i \in DOMAIN q |->
                     Call("stopDist", q[i], NoOptions, "clientDistStopped", NoOptions)]
  <2>2. cs \in Seq(SoundCalls)
    BY RemovalCalls
  <2>7. Spe
    <3> HIDE DEF cs
    <3> QED  BY <2>1, <2>2, MakeCallsType DEF cs
  <2>8. Touched
    BY <1>1, <2>7, OwedType
       DEF FinishRemoval, Touched, Spe, Tables, TypeInv, TypeOK, Queues
  <2>9. clients' \in [Clients -> ClientStates] /\ removing' \in Clients \cup {NoClient}
    BY <1>1 DEF FinishRemoval, TypeInv, TypeOK, ClientStates
  <2> QED
    BY <1>1, <2>8, <2>9, TouchedType
       DEF TypedStep, Touched, Spe, FinishRemoval, modemVars, TypeInv, TypeOK, Queues
<1>2. ASSUME NEW s \in Sessions, StopNextOfClient(s) PROVE TypedStep
  <2>1. Spe
    BY <1>2, StopMultiplexType, FollowPlanType DEF StopNextOfClient, Sess
  <2>2. timeSess' \in Tables /\ distSess' \in Tables
    BY <1>2, SaveType, NoOptionsType DEF StopNextOfClient
  <2>3. Touched
    BY <1>2, <2>1, <2>2, OwedType
       DEF StopNextOfClient, Touched, Spe, TypeInv, TypeOK, Queues
  <2> QED
    BY <1>2, <2>3, TouchedType
       DEF TypedStep, Touched, Spe, StopNextOfClient, modemVars, TypeInv, TypeOK, Queues
<1> QED  BY <1>1, <1>2

LEMMA MessageTypes ==
  ASSUME TypeInv, HandleAnswer \/ HandleReplay
  PROVE  TypedStep
<1>1. Head(msgs) \in SoundMsgs /\ msgs' \in Seq(SoundMsgs)
  BY SeqOps DEF HandleAnswer, HandleReplay, TypeInv, Queues
<1>2. CASE HandleAnswer
  <2>1. Touched
    BY <1>1, <1>2, AnswerType DEF HandleAnswer
  <2> QED
    BY <1>1, <1>2, <2>1, TouchedType
       DEF TypedStep, Touched, Spe, HandleAnswer, modemVars, TypeInv, TypeOK
<1>3. CASE HandleReplay
  <2>1. Head(msgs).sess \in Sessions /\ Head(msgs).arg \in Options /\ owed \in Owing
    BY <1>1, <1>3, OwedType DEF HandleReplay, SoundMsgs, Msgs, TypeInv
  <2>2. Touched
    BY <1>3, <2>1, StartTrackingType, UpdateTrackingType DEF HandleReplay
  <2> QED
    BY <1>1, <1>3, <2>2, TouchedType
       DEF TypedStep, Touched, Spe, HandleReplay, modemVars, TypeInv, TypeOK
<1> QED  BY <1>2, <1>3

LEMMA RestartTypes ==
  ASSUME TypeInv, HandleEngineUp \/ Reconfigure \/ UpdateNHz
  PROVE  TypedStep
<1>1. nHz' \in BOOLEAN
  BY DEF HandleEngineUp, Reconfigure, UpdateNHz, TypeInv, TypeOK
<1>2. CASE HandleEngineUp
  <2>1. \A m \in HeldMsgs : m \in SoundMsgs
    BY DEF HeldMsgs, SoundMsgs
  <2>2. pending \in Seq(SoundMsgs) /\ Tail(msgs) \in Seq(SoundMsgs)
    BY <1>2, <2>1, SeqWiden, SeqOps DEF HandleEngineUp, TypeInv, Queues
  <2>3. msgs' \in Seq(SoundMsgs) /\ pending' \in Seq(HeldMsgs)
    BY <1>2, <2>2, SeqOps DEF HandleEngineUp
  <2>4. Touched
    BY <1>2, <2>3, RestartSpeType, SeqOps, OwedType
       DEF HandleEngineUp, Touched, Spe, TypeInv, TypeOK
  <2> QED
    BY <1>2, <2>3, <2>4, TouchedType
       DEF TypedStep, Touched, Spe, HandleEngineUp, modemVars, TypeInv, TypeOK
<1>3. CASE Reconfigure
  <2> DEFINE stop == Call("stopFix", 0, NoOptions, "none", NoOptions)
             before == IF TimeSessions = {} THEN <<>> ELSE <<stop>>
  <2>1. stop \in SoundCalls
    BY CallType, NoOptionsType DEF TimeOps, Callbacks, Sess, DistanceOps
  <2>2. before \in Seq(SoundCalls)
    <3> HIDE DEF stop
    <3> QED  BY <2>1, SeqOps
  <2>3. RestartSpe(before, nHz)
    BY <1>3 DEF Reconfigure
  <2>4. Touched
    <3> HIDE DEF before
    <3> QED
      BY <1>3, <2>2, <2>3, RestartSpeType, OwedType
         DEF Reconfigure, Touched, Spe, TypeInv, TypeOK, Queues
  <2> QED
    BY <1>3, <2>4, TouchedType
       DEF TypedStep, Touched, Spe, Reconfigure, modemVars, TypeInv, TypeOK, Queues
<1>4. CASE UpdateNHz
  <2>1. Touched
    BY <1>1, <1>4, RestartSpeType, SeqOps, OwedType
       DEF UpdateNHz, Touched, Spe, TypeInv, TypeOK, Queues
  <2> QED
    BY <1>1, <1>4, <2>1, TouchedType
       DEF TypedStep, Touched, Spe, UpdateNHz, modemVars, TypeInv, TypeOK, Queues
<1> QED  BY <1>2, <1>3, <1>4

LEMMA ExecuteType ==
  ASSUME TypeInv, NEW c \in SoundCalls, Execute(c)
  PROVE  engine' \in Options /\ distEngine' \subseteq Sessions
<1>1. c.opts \in Options
  BY DEF SoundCalls, Calls
<1>2. engine' \in Options
  BY <1>1, NoOptionsType DEF Execute, TypeInv, TypeOK
<1>3. distEngine' \subseteq Sessions
  BY DEF Execute, TypeInv, TypeOK, SoundCalls, DistanceOps
<1> QED  BY <1>2, <1>3

LEMMA ModemTypes ==
  ASSUME TypeInv, ModemCall \/ ModemOpen \/ ModemDown
  PROVE  TypeInv'
<1>1. OpenCall \in SoundCalls
  BY CallType, NoOptionsType DEF OpenCall, Callbacks, Sess, TimeOps, DistanceOps
<1>2. calls' \in Seq(SoundCalls)
  BY <1>1, SeqOps DEF ModemCall, ModemOpen, ModemDown, TypeInv, Queues
<1>3. msgs' \in Seq(SoundMsgs)
  <2>1. CASE ModemCall
    <3> DEFINE c == Head(calls)
    <3>1. c \in SoundCalls
      BY <2>1, SeqOps DEF ModemCall, TypeInv, Queues
    <3>2. c.cb # "none" => \A ok \in BOOLEAN :
            [cb |-> c.cb, sess |-> c.sess, arg |-> c.arg, ok |-> ok] \in SoundMsgs
      <4> HIDE DEF c
      <4> QED  BY <3>1 DEF SoundCalls, Calls, SoundMsgs, Msgs
    <3>3. Post(c, TRUE) \/ Post(c, FALSE)
      BY <2>1 DEF ModemCall
    <3> QED
      <4> HIDE DEF c
      <4> QED  BY <3>2, <3>3, SeqOps DEF Post, TypeInv, Queues
  <2>2. CASE ModemOpen
    <3>1. [cb |-> "engineUp", sess |-> 0, arg |-> NoOptions, ok |-> TRUE] \in SoundMsgs
      BY NoOptionsType DEF SoundMsgs, Msgs
    <3> QED  BY <2>2, <3>1, SeqOps DEF ModemOpen, TypeInv, Queues
  <2>3. CASE ModemDown
    BY <2>3 DEF ModemDown, TypeInv, Queues
  <2> QED  BY <2>1, <2>2, <2>3
<1>4. engine' \in Options /\ distEngine' \subseteq Sessions
  <2>1. CASE ModemCall
    <3>1. UNCHANGED <<engine, distEngine>> \/ Execute(Head(calls))
      BY <2>1 DEF ModemCall
    <3>2. Head(calls) \in SoundCalls
      BY <2>1, SeqOps DEF ModemCall, TypeInv, Queues
    <3> QED  BY <3>1, <3>2, ExecuteType DEF TypeInv, TypeOK
  <2>2. CASE ModemOpen \/ ModemDown
    BY <2>2, NoOptionsType DEF ModemOpen, ModemDown, TypeInv, TypeOK
  <2> QED  BY <2>1, <2>2
<1>5. modemUp' \in BOOLEAN
  BY DEF ModemCall, ModemOpen, ModemDown, TypeInv, TypeOK
<1>6. ssrs' \in 0 .. MaxSsr
  <2>1. MaxSsr \in Nat
    BY BoundsAssumption
  <2>2. CASE ModemCall \/ ModemOpen
    BY <2>2 DEF ModemCall, ModemOpen, TypeInv, TypeOK
  <2>3. CASE ModemDown
    <3>1. ssrs \in 0 .. MaxSsr /\ ssrs < MaxSsr /\ ssrs' = ssrs + 1
      BY <2>3 DEF ModemDown, TypeInv, TypeOK
    <3> QED  BY <2>1, <3>1
  <2> QED  BY <2>2, <2>3
<1>7. /\ UNCHANGED <<clients, capsKnown, timeSess, distSess, pending, mode, hubOn,
                     nHz, speFast, removing>>
      /\ UNCHANGED <<stage, owed>>
  BY DEF ModemCall, ModemOpen, ModemDown, adapterVars
<1>8. calls' \in Seq(Calls) /\ msgs' \in Seq(Msgs)
  BY <1>2, <1>3, SeqWiden DEF SoundCalls, SoundMsgs
<1> QED
  BY <1>2, <1>3, <1>4, <1>5, <1>6, <1>7, <1>8 DEF TypeInv, TypeOK, Queues

LEMMA InitTypes ==
  ASSUME Init
  PROVE  TypeInv
<1>1. OpenCall \in SoundCalls
  BY CallType, NoOptionsType DEF OpenCall, TimeOps, DistanceOps, Callbacks, Sess
<1>2. Queues
  BY <1>1, SeqOps DEF Init, Queues
<1>3. calls \in Seq(Calls) /\ msgs \in Seq(Msgs) /\ pending \in Seq(Msgs)
  BY <1>2, SeqWiden DEF Queues, SoundCalls, SoundMsgs, HeldMsgs
<1>4. ssrs \in 0 .. MaxSsr
  <2>1. MaxSsr \in Nat
    BY BoundsAssumption
  <2> QED  BY <2>1 DEF Init
<1>5. mode \in Modes
  BY DEF Init, Modes, PowerModes, INVALID, M5
<1>6. /\ timeSess \in [Sessions -> Options] /\ distSess \in [Sessions -> Options]
      /\ engine \in Options
  BY NoOptionsType DEF Init
<1>7. /\ clients \in [Clients -> ClientStates]
      /\ stage \in [Sessions -> Stages] /\ owed \in [Sessions -> Int]
  BY DEF Init, ClientStates, Stages
<1>8. /\ capsKnown \in BOOLEAN /\ hubOn \in BOOLEAN /\ nHz \in BOOLEAN
      /\ speFast \in BOOLEAN /\ modemUp \in BOOLEAN
      /\ removing \in Clients \cup {NoClient} /\ distEngine \subseteq Sessions
  BY DEF Init
<1> QED
  BY <1>2, <1>3, <1>4, <1>5, <1>6, <1>7, <1>8 DEF TypeInv, TypeOK

LEMMA TypeInvStep ==
  ASSUME TypeInv, [Next]_vars
  PROVE  TypeInv'
<1>1. CASE Request
  BY <1>1, RequestTypes, RestartTypes DEF Request, TypedStep
<1>2. CASE AdapterStep
  BY <1>2, MessageTypes, RestartTypes, RemovalTypes DEF AdapterStep, TypedStep
<1>3. CASE LocApiStep \/ ModemDown
  BY <1>3, ModemTypes DEF LocApiStep
<1>4. CASE UNCHANGED vars
  BY <1>4 DEF vars, adapterVars, modemVars, TypeInv, TypeOK, Queues
<1> QED  BY <1>1, <1>2, <1>3, <1>4 DEF Next


\* Every variable keeps its type in every behaviour: what the clients pass,
\* what the multiplexing computes and what the modem answers fit together.
THEOREM GnssTypeCorrect == Spec => []TypeOK
<1>1. Init => TypeInv
  BY InitTypes
<1>2. TypeInv /\ [Next]_vars => TypeInv'
  BY TypeInvStep
<1>3. TypeInv => TypeOK
  BY DEF TypeInv
<1> QED  BY <1>1, <1>2, <1>3, PTL DEF Spec

-----------------------------------------------------------------------------
(***************************************************************************)
(* No request is answered twice.  Each session has a credit: the answers   *)
(* its client waits for, less the calls and held requests that will still  *)
(* produce one.  The credit covers the answers already on their way.       *)
(***************************************************************************)
\* What still leads to an answer: a call whose answer is reported, such an
\* answer on its way, and a request that is held or replayed.
Reporting == (Callbacks \ {"none", "clientDistStopped"}) \cup {"start", "update"}
Due(s, q) == {i \in DOMAIN q : q[i].sess = s /\ q[i].cb \in Reporting}
DueCount(s, q) == Cardinality(Due(s, q))

\* What the client of session s waits for, less what will still come.
Credit(ow, s) == ow[s] - DueCount(s, calls) - DueCount(s, pending)

Gone(s) == clients[Owner[s]] \in {"removing", "removed"}

OwedInv ==
  /\ TypeInv
  /\ removing \in Clients => clients[removing] = "removing"
  /\ \A s \in Sessions : /\ owed[s] >= 0
                         /\ ~Gone(s) => Credit(owed, s) >= DueCount(s, msgs)

One(s, t) == IF s = t THEN 1 ELSE 0

-----------------------------------------------------------------------------
(***************************************************************************)
(* Counting in queues.                                                     *)
(***************************************************************************)
LEMMA DueFinite ==
  ASSUME NEW S, NEW q \in Seq(S), NEW s
  PROVE  IsFiniteSet(Due(s, q)) /\ DueCount(s, q) \in Nat
<1>1. IsFiniteSet(DOMAIN q)
  <2>1. DOMAIN q = 1 .. Len(q) /\ Len(q) \in Int /\ 1 \in Int
    OBVIOUS
  <2> QED  BY <2>1, FS_Interval
<1> QED  BY <1>1, FS_Subset, FS_CardinalityType DEF Due, DueCount

LEMMA DueThen ==
  ASSUME NEW S, NEW p \in Seq(S), NEW q \in Seq(S), NEW s
  PROVE  DueCount(s, p \o q) = DueCount(s, p) + DueCount(s, q)
<1> DEFINE P == Due(s, p)
           Q == Due(s, q)
           R == {i + Len(p) : i \in Q}
           f == [i \in Q |-> i + Len(p)]
<1>1. Due(s, p \o q) = P \cup R
  <2>1. \A i \in DOMAIN p : i \in DOMAIN (p \o q) /\ (p \o q)[i] = p[i]
    OBVIOUS
  <2>2. \A i \in DOMAIN q :
          i + Len(p) \in DOMAIN (p \o q) /\ (p \o q)[i + Len(p)] = q[i]
    OBVIOUS
  <2>3. \A j \in DOMAIN (p \o q) :
          \/ j \in DOMAIN p
          \/ j - Len(p) \in DOMAIN q /\ j = (j - Len(p)) + Len(p)
    OBVIOUS
  <2>4. P \cup R \subseteq Due(s, p \o q)
    BY <2>1, <2>2 DEF Due
  <2>5. ASSUME NEW j \in Due(s, p \o q) PROVE j \in P \cup R
    <3>1. CASE j \in DOMAIN p
      BY <2>1, <3>1 DEF Due
    <3>2. CASE j - Len(p) \in DOMAIN q /\ j = (j - Len(p)) + Len(p)
      <4>1. j - Len(p) \in Q
        BY <2>2, <2>5, <3>2 DEF Due
      <4> QED  BY <3>2, <4>1
    <3> QED  BY <2>3, <2>5, <3>1, <3>2 DEF Due
  <2> QED  BY <2>4, <2>5
<1>2. P \cap R = {}
  BY DEF Due
<1>3. IsFiniteSet(P) /\ IsFiniteSet(Q)
  BY DueFinite
<1>4. f \in Bijection(Q, R)
  <2>1. \A i \in Q : i \in Nat /\ Len(p) \in Nat
    BY DEF Due
  <2>2. \A i, j \in Q : f[i] = f[j] => i = j
    BY <2>1
  <2>3. f \in [Q -> R] /\ \A r \in R : \E i \in Q : f[i] = r
    OBVIOUS
  <2> HIDE DEF f, Q, R
  <2> QED  BY <2>2, <2>3, Fun_IsBij
<1>5. IsFiniteSet(R) /\ Cardinality(R) = Cardinality(Q)
  BY <1>3, <1>4, FS_Bijection DEF ExistsBijection
<1>6. Cardinality(P \cup R) = Cardinality(P) + Cardinality(R) - Cardinality(P \cap R)
  BY <1>3, <1>5, FS_Union
<1>7. Cardinality(P \cap R) = 0
  BY <1>2, FS_EmptySet
<1>8. Cardinality(P) \in Nat /\ Cardinality(R) \in Nat
  BY <1>3, <1>5, FS_CardinalityType
<1> QED  BY <1>1, <1>5, <1>6, <1>7, <1>8 DEF DueCount

LEMMA DueNone ==
  ASSUME NEW q, NEW s, \A i \in DOMAIN q : q[i].cb \notin Reporting \/ q[i].sess # s
  PROVE  DueCount(s, q) = 0
<1>1. Due(s, q) = {}
  BY DEF Due
<1> QED  BY <1>1, FS_EmptySet DEF DueCount

LEMMA DueEmpty ==
  ASSUME NEW s
  PROVE  DueCount(s, <<>>) = 0
BY DueNone

LEMMA DueOne ==
  ASSUME NEW c, NEW s
  PROVE  /\ DueCount(s, <<c>>) <= One(s, c.sess)
         /\ c.cb \notin Reporting => DueCount(s, <<c>>) = 0
         /\ c.cb \in Reporting => DueCount(s, <<c>>) = One(s, c.sess)
<1>1. DOMAIN <<c>> = {1} /\ <<c>>[1] = c
  OBVIOUS
<1>2. CASE c.cb \in Reporting /\ c.sess = s
  <2>1. Due(s, <<c>>) = {1}
    BY <1>1, <1>2 DEF Due
  <2> QED  BY <1>2, <2>1, FS_Singleton DEF DueCount, One
<1>3. CASE c.cb \notin Reporting \/ c.sess # s
  <2>1. DueCount(s, <<c>>) = 0
    BY <1>1, <1>3, DueNone
  <2> QED  BY <1>3, <2>1 DEF One
<1> QED  BY <1>2, <1>3

LEMMA DueAppend ==
  ASSUME NEW S, NEW q \in Seq(S), NEW c \in S, NEW s
  PROVE  DueCount(s, Append(q, c)) = DueCount(s, q) + DueCount(s, <<c>>)
<1> DEFINE d == <<c>>
<1>1. Append(q, c) = q \o d /\ d \in Seq(S)
  OBVIOUS
<1> HIDE DEF d
<1>2. DueCount(s, q \o d) = DueCount(s, q) + DueCount(s, d)
  BY <1>1, DueThen
<1> QED  BY <1>1, <1>2 DEF d

LEMMA DueTail ==
  ASSUME NEW S, NEW q \in Seq(S), q # <<>>, NEW s
  PROVE  DueCount(s, q) = DueCount(s, <<Head(q)>>) + DueCount(s, Tail(q))
<1> DEFINE d == <<Head(q)>>
           t == Tail(q)
<1>1. q = d \o t /\ d \in Seq(S) /\ t \in Seq(S)
  OBVIOUS
<1> HIDE DEF d, t
<1>2. DueCount(s, d \o t) = DueCount(s, d) + DueCount(s, t)
  BY <1>1, DueThen
<1> QED  BY <1>1, <1>2 DEF d, t

-----------------------------------------------------------------------------
(***************************************************************************)
(* A handler answers its request at once or leaves one thing that will.    *)
(***************************************************************************)
Costs(p, s) ==
  \A x \in Sessions : DueCount(x, p.calls) <= IF p.now THEN 0 ELSE One(x, s)

Spends(ow, s) ==
  \A x \in Sessions : /\ Credit(owed, x)' >= Credit(ow, x) - One(x, s)
                      /\ Gone(x) => owed'[x] = ow[x]

LEMMA CreditType ==
  ASSUME TypeInv, NEW x \in Sessions
  PROVE  /\ DueCount(x, calls) \in Nat /\ DueCount(x, pending) \in Nat
         /\ DueCount(x, msgs) \in Nat
BY DueFinite DEF TypeInv, Queues

LEMMA CallsCredit ==
  ASSUME TypeInv, NEW cs \in Seq(SoundCalls), calls' = calls \o cs, UNCHANGED pending,
         NEW x \in Sessions
  PROVE  /\ Credit(owed, x)' = owed'[x] - (DueCount(x, calls) + DueCount(x, cs))
                               - DueCount(x, pending)
         /\ DueCount(x, cs) \in Nat
BY DueFinite, DueThen DEF Credit, TypeInv, Queues

LEMMA ReportCredit ==
  ASSUME NEW ow \in Owing, NEW s \in Sessions, NEW now \in BOOLEAN,
         ReportIf(now, ow, s), NEW x \in Sessions
  PROVE  /\ owed'[x] \in Int /\ ow[x] \in Int
         /\ owed'[x] >= ow[x] - (IF now THEN One(x, s) ELSE 0)
         /\ Gone(x) => owed'[x] = ow[x]
<1>1. owed' = ow \/ (now /\ Registered(Owner[s]) /\ owed' = [ow EXCEPT ![s] = @ - 1])
  BY DEF ReportIf, Reported
<1>2. Registered(Owner[s]) => ~Gone(s)
  BY DEF Registered, Gone
<1>3. ow[x] \in Int
  BY DEF Owing
<1>4. CASE owed' = ow
  BY <1>3, <1>4 DEF One
<1>5. CASE now /\ Registered(Owner[s]) /\ owed' = [ow EXCEPT ![s] = @ - 1]
  <2>1. owed'[x] = IF x = s THEN ow[x] - 1 ELSE ow[x]
    BY <1>5 DEF Owing
  <2> QED  BY <1>2, <1>3, <1>5, <2>1 DEF One
<1> QED  BY <1>1, <1>4, <1>5

LEMMA PlanSpends ==
  ASSUME TypeInv, NEW s \in Sessions, NEW ow \in Owing, NEW p \in Plans, Costs(p, s),
         NEW cs \in Seq(SoundCalls), calls' = calls \o cs,
         \A x \in Sessions : DueCount(x, cs) = DueCount(x, p.calls),
         ReportIf(p.now, ow, s), UNCHANGED pending
  PROVE  Spends(ow, s)
<1> SUFFICES ASSUME NEW x \in Sessions
             PROVE  /\ Credit(owed, x)' >= Credit(ow, x) - One(x, s)
                    /\ Gone(x) => owed'[x] = ow[x]
  BY DEF Spends
<1>1. /\ owed'[x] \in Int /\ ow[x] \in Int
      /\ owed'[x] >= ow[x] - (IF p.now THEN One(x, s) ELSE 0)
      /\ Gone(x) => owed'[x] = ow[x]
  BY ReportCredit DEF Plans
<1>2. DueCount(x, cs) <= IF p.now THEN 0 ELSE One(x, s)
  BY DEF Costs
<1>3. /\ Credit(owed, x)' = owed'[x] - (DueCount(x, calls) + DueCount(x, cs))
                              - DueCount(x, pending)
      /\ DueCount(x, cs) \in Nat
  BY CallsCredit
<1>4. Credit(owed, x)' >= Credit(ow, x) - One(x, s)
  <2>1. One(x, s) \in Nat
    BY DEF One
  <2>2. Credit(ow, x) = ow[x] - DueCount(x, calls) - DueCount(x, pending)
    BY DEF Credit
  <2>3. DueCount(x, cs) + (ow[x] - owed'[x]) <= One(x, s)
    <3>1. CASE p.now
      <4>1. DueCount(x, cs) <= 0 /\ owed'[x] >= ow[x] - One(x, s)
        BY <1>1, <1>2, <3>1
      <4> QED  BY <1>1, <1>3, <2>1, <4>1
    <3>2. CASE ~p.now
      BY <1>1, <1>2, <1>3, <2>1, <3>2
    <3> QED  BY <3>1, <3>2
  <2>4. DueCount(x, calls) \in Nat /\ DueCount(x, pending) \in Nat
    BY CreditType
  <2> QED  BY <1>1, <1>3, <2>1, <2>2, <2>3, <2>4
<1> QED  BY <1>1, <1>4

LEMMA FollowedSpends ==
  ASSUME TypeInv, NEW s \in Sessions, NEW ow \in Owing, NEW p \in Plans, Costs(p, s),
         FollowPlan(p), ReportIf(p.now, ow, s), UNCHANGED pending
  PROVE  Spends(ow, s)
<1>1. p.calls \in Seq(SoundCalls) /\ calls' = calls \o p.calls
  BY DEF FollowPlan, Plans
<1> QED  BY <1>1, PlanSpends

\* Calls that are made leave the answer to themselves.
LEMMA CallsSpend ==
  ASSUME TypeInv, NEW s \in Sessions, NEW ow \in Owing, NEW cs \in Seq(SoundCalls),
         \A x \in Sessions : DueCount(x, cs) <= One(x, s),
         calls' = calls \o cs, owed' = ow, UNCHANGED pending
  PROVE  Spends(ow, s)
<1> SUFFICES ASSUME NEW x \in Sessions
             PROVE  Credit(owed, x)' >= Credit(ow, x) - One(x, s)
  BY DEF Spends
<1>1. ow[x] \in Int
  BY DEF Owing
<1>2. /\ Credit(owed, x)' = owed'[x] - (DueCount(x, calls) + DueCount(x, cs))
                              - DueCount(x, pending)
      /\ DueCount(x, cs) \in Nat
  BY CallsCredit
<1> QED  BY <1>1, <1>2, CreditType DEF Credit, One

LEMMA CallSpends ==
  ASSUME TypeInv, NEW s \in Sessions, NEW ow \in Owing, NEW c \in SoundCalls,
         c.sess = s, MakeCalls(<<c>>), owed' = ow, UNCHANGED pending
  PROVE  Spends(ow, s)
<1> DEFINE d == <<c>>
<1>1. d \in Seq(SoundCalls) /\ calls' = calls \o d
  BY SeqOps DEF MakeCalls
<1>2. \A x \in Sessions : DueCount(x, d) <= One(x, s)
  BY DueOne
<1> HIDE DEF d
<1> QED  BY <1>1, <1>2, CallsSpend

LEMMA NoPlanSpends ==
  ASSUME TypeInv, NEW s \in Sessions, NEW ow \in Owing, NoPlan, UNCHANGED pending,
         owed' = ow \/ \E now \in BOOLEAN : ReportIf(now, ow, s)
  PROVE  Spends(ow, s)
<1> SUFFICES ASSUME NEW x \in Sessions
             PROVE  /\ Credit(owed, x)' >= Credit(ow, x) - One(x, s)
                    /\ Gone(x) => owed'[x] = ow[x]
  BY DEF Spends
<1>1. /\ owed'[x] \in Int /\ ow[x] \in Int
      /\ owed'[x] >= ow[x] - One(x, s)
      /\ Gone(x) => owed'[x] = ow[x]
  BY ReportCredit DEF Owing, One
<1>2. Credit(owed, x)' = owed'[x] - DueCount(x, calls) - DueCount(x, pending)
  BY DEF Credit, NoPlan
<1> QED  BY <1>1, <1>2, CreditType DEF Credit, One

LEMMA NoCallCosts ==
  ASSUME NEW s
  PROVE  Costs(NoCall, s)
BY DueEmpty DEF NoCall, Plan, Costs

LEMMA StartSpeCosts ==
  ASSUME NEW s, NEW o, NEW cb, NEW arg
  PROVE  Costs(StartSpe(s, o, cb, arg), s)
<1> DEFINE p == StartSpe(s, o, cb, arg)
           call == Call("startTime", s, SpeOptions(o), cb, arg)
           skip == nHz /\ speFast
<1>1. /\ p.calls = IF skip THEN <<>> ELSE <<call>>
      /\ p.now = skip
  BY DEF StartSpe, Plan
<1>2. call.sess = s
  BY DEF Call
<1>3. \A x : DueCount(x, <<call>>) <= One(x, s)
  <2> HIDE DEF call
  <2> QED  BY <1>2, DueOne
<1> HIDE DEF call, skip
<1> QED  BY <1>1, <1>3, DueEmpty DEF Costs

LEMMA StopSpeCosts ==
  ASSUME NEW s
  PROVE  Costs(StopSpe(s), s)
<1> DEFINE p == StopSpe(s)
           call == Call("stopFix", s, NoOptions, "stopped", NoOptions)
<1>1. p.calls = <<call>> /\ ~p.now
  BY DEF StopSpe, Plan
<1>2. call.sess = s
  BY DEF Call
<1>3. \A x : DueCount(x, <<call>>) <= One(x, s)
  <2> HIDE DEF call
  <2> QED  BY <1>2, DueOne
<1> HIDE DEF call
<1> QED  BY <1>1, <1>3 DEF Costs

LEMMA MultiplexCosts ==
  ASSUME NEW s, NEW o
  PROVE  /\ Costs(StartMultiplex(s, o), s)
         /\ Costs(UpdateMultiplex(s, o), s)
         /\ Costs(StopMultiplex(s), s)
<1>1. Costs(StartMultiplex(s, o), s)
  BY NoCallCosts, StartSpeCosts DEF StartMultiplex
<1>2. Costs(UpdateMultiplex(s, o), s)
  BY NoCallCosts, StartSpeCosts DEF UpdateMultiplex
<1>3. Costs(StopMultiplex(s), s)
  BY NoCallCosts, StartSpeCosts, StopSpeCosts DEF StopMultiplex
<1> QED  BY <1>1, <1>2, <1>3

LEMMA HoldSpends ==
  ASSUME TypeInv, NEW s \in Sessions, NEW o \in Options, NEW ow \in Owing,
         NEW kind \in {"start", "update"}, Hold(kind, s, o, ow)
  PROVE  Spends(ow, s)
<1> DEFINE m == [cb |-> kind, sess |-> s, arg |-> o, ok |-> TRUE]
<1>1. m \in HeldMsgs /\ m.sess = s
  BY DEF HeldMsgs, SoundMsgs, Msgs
<1>2. pending' = Append(pending, m) /\ owed' = ow /\ calls' = calls
  BY DEF Hold, NoPlan
<1> HIDE DEF m
<1> SUFFICES ASSUME NEW x \in Sessions
             PROVE  Credit(owed, x)' >= Credit(ow, x) - One(x, s)
  BY <1>2 DEF Spends
<1>3. DueCount(x, pending') = DueCount(x, pending) + DueCount(x, <<m>>)
  BY <1>1, <1>2, DueAppend DEF TypeInv, Queues
<1>4. DueCount(x, <<m>>) <= One(x, s) /\ DueCount(x, <<m>>) \in Nat
  BY <1>1, DueOne DEF One
<1>5. Credit(owed, x)' = ow[x] - DueCount(x, calls) - DueCount(x, pending')
  BY <1>2 DEF Credit
<1> QED  BY <1>3, <1>4, <1>5, CreditType DEF Credit, One, Owing

LEMMA StartTrackingSpends ==
  ASSUME TypeInv, NEW s \in Sessions, NEW o \in Options, NEW ow \in Owing,
         StartTracking(s, o, ow)
  PROVE  Spends(ow, s)
<1>1. CASE Hold("start", s, o, ow)
  BY <1>1, HoldSpends
<1>2. CASE StartRefused(s, o, ow)
  BY <1>2, NoPlanSpends DEF StartRefused
<1>3. CASE StartAccepted(s, o, ow)
  <2> DEFINE a == AtLeastMin(o)
             c == Call("startDist", s, a, "distStarted", NoOptions)
  <2>1. a \in Options /\ UNCHANGED pending
    BY <1>3, AtLeastMinType DEF StartAccepted
  <2>2. CASE MakeCalls(<<c>>) /\ owed' = ow
    <3>1. c \in SoundCalls
      BY <2>1, CallType, NoOptionsType DEF DistanceOps, Callbacks, TimeOps, Sess
    <3>2. c.sess = s
      BY DEF Call
    <3> HIDE DEF c
    <3> QED  BY <2>1, <2>2, <3>1, <3>2, CallSpends
  <2>3. CASE \E t \in TimeOptions(a) : /\ FollowPlan(StartMultiplex(s, t))
                                      /\ ReportIf(StartMultiplex(s, t).now, ow, s)
    <3> HIDE DEF a
    <3>1. PICK t \in TimeOptions(a) : /\ FollowPlan(StartMultiplex(s, t))
                                      /\ ReportIf(StartMultiplex(s, t).now, ow, s)
      BY <2>3
    <3>2. StartMultiplex(s, t) \in Plans
      BY <2>1, TimeOptionsType, StartMultiplexType
    <3> QED  BY <2>1, <3>1, <3>2, MultiplexCosts, FollowedSpends
  <2> QED  BY <1>3, <2>2, <2>3 DEF StartAccepted
<1> QED  BY <1>1, <1>2, <1>3 DEF StartTracking

LEMMA TimeToDistanceSpends ==
  ASSUME TypeInv, NEW s \in Sessions, NEW o \in Options, NEW ow \in Owing,
         TimeToDistance(s, o, ow), UNCHANGED pending
  PROVE  Spends(ow, s)
<1> DEFINE p == StopMultiplex(s)
           c == Call("startDist", s, o, "none", NoOptions)
           d == <<c>>
           cs == Append(p.calls, c)
<1>1. p \in Plans /\ Costs(p, s)
  BY StopMultiplexType, MultiplexCosts
<1>2. c \in SoundCalls /\ c.cb = "none"
  BY CallType, NoOptionsType DEF DistanceOps, Callbacks, TimeOps, Sess, Call
<1>3. calls' = calls \o cs /\ ReportIf(p.now, ow, s)
  <2>1. [p EXCEPT !.calls = Append(@, c)].calls = cs
    <3> HIDE DEF p, c
    <3> QED  BY <1>1 DEF Plans
  <2> QED  BY <2>1 DEF TimeToDistance, FollowPlan
<1> HIDE DEF p, c
<1>4. cs \in Seq(SoundCalls) /\ p.calls \in Seq(SoundCalls)
  BY <1>1, <1>2, SeqOps DEF Plans
<1>5. \A x \in Sessions : DueCount(x, cs) = DueCount(x, p.calls)
  <2> TAKE x \in Sessions
  <2>1. DueCount(x, cs) = DueCount(x, p.calls) + DueCount(x, <<c>>)
    BY <1>2, <1>4, DueAppend
  <2>2. DueCount(x, <<c>>) = 0
    BY <1>2, DueOne DEF Reporting
  <2>3. DueCount(x, p.calls) \in Nat
    BY <1>4, DueFinite
  <2> QED  BY <2>1, <2>2, <2>3
<1> HIDE DEF cs
<1> QED  BY <1>1, <1>3, <1>4, <1>5, PlanSpends

LEMMA UpdateTrackingSpends ==
  ASSUME TypeInv, NEW s \in Sessions, NEW o \in Options, NEW ow \in Owing,
         UpdateTracking(s, o, ow)
  PROVE  Spends(ow, s)
<1>1. CASE Hold("update", s, o, ow)
  BY <1>1, HoldSpends
<1>2. CASE UpdateRefused(s, o, ow)
  BY <1>2, NoPlanSpends DEF UpdateRefused
<1>3. CASE UpdateAccepted(s, o, ow)
  <2>1. PICK t \in {AtLeastMin(x) : x \in TimeOptions(o)} :
          \/ TimeToDistance(s, t, ow)
          \/ /\ s \in TimeSessions
             /\ FollowPlan(UpdateMultiplex(s, t))
             /\ ReportIf(UpdateMultiplex(s, t).now, ow, s)
          \/ /\ MakeCalls(<<Call("stopDist", s, NoOptions, "toTime", t)>>)
             /\ owed' = ow
          \/ /\ t.distance > 0
             /\ MakeCalls(<<Call("stopDist", s, NoOptions, "distStop", t)>>)
             /\ owed' = ow
    BY <1>3 DEF UpdateAccepted
  <2>2. t \in Options /\ UNCHANGED pending
    BY <1>3, TimeOptionsType, AtLeastMinType DEF UpdateAccepted
  <2>3. CASE TimeToDistance(s, t, ow)
    BY <2>2, <2>3, TimeToDistanceSpends
  <2>4. CASE /\ s \in TimeSessions
             /\ FollowPlan(UpdateMultiplex(s, t))
             /\ ReportIf(UpdateMultiplex(s, t).now, ow, s)
    BY <2>2, <2>4, UpdateMultiplexType, MultiplexCosts, FollowedSpends
  <2>5. ASSUME NEW cb \in {"toTime", "distStop"}, cb = "distStop" => t.distance > 0,
               MakeCalls(<<Call("stopDist", s, NoOptions, cb, t)>>), owed' = ow
        PROVE  Spends(ow, s)
    <3> DEFINE c == Call("stopDist", s, NoOptions, cb, t)
    <3>1. c \in SoundCalls
      BY <2>2, <2>5, CallType, NoOptionsType DEF DistanceOps, Callbacks, TimeOps, Sess
    <3>2. c.sess = s
      BY DEF Call
    <3>3. MakeCalls(<<c>>)
      BY <2>5
    <3> HIDE DEF c
    <3> QED  BY <2>2, <2>5, <3>1, <3>2, <3>3, CallSpends
  <2> QED  BY <2>1, <2>3, <2>4, <2>5
<1> QED  BY <1>1, <1>2, <1>3 DEF UpdateTracking

LEMMA StopTrackingSpends ==
  ASSUME TypeInv, NEW s \in Sessions, NEW ow \in Owing, StopTracking(s, ow),
         UNCHANGED pending
  PROVE  Spends(ow, s)
<1>1. CASE FollowPlan(StopMultiplex(s)) /\ ReportIf(StopMultiplex(s).now, ow, s)
  BY <1>1, StopMultiplexType, MultiplexCosts, FollowedSpends
<1>2. CASE /\ MakeCalls(<<Call("stopDist", s, NoOptions, "distStopped", NoOptions)>>)
           /\ owed' = ow
  <2> DEFINE c == Call("stopDist", s, NoOptions, "distStopped", NoOptions)
  <2>1. c \in SoundCalls
    BY CallType, NoOptionsType DEF DistanceOps, Callbacks, TimeOps, Sess
  <2>2. c.sess = s
    BY DEF Call
  <2>3. MakeCalls(<<c>>) /\ owed' = ow
    BY <1>2
  <2> HIDE DEF c
  <2> QED  BY <2>1, <2>2, <2>3, CallSpends
<1>3. CASE NoPlan /\ ReportIf(TRUE, ow, s)
  BY <1>3, NoPlanSpends
<1> QED  BY <1>1, <1>2, <1>3 DEF StopTracking

-----------------------------------------------------------------------------
(***************************************************************************)
(* Steps.                                                                  *)
(***************************************************************************)
Covered(s) == owed[s] >= 0 /\ (~Gone(s) => Credit(owed, s) >= DueCount(s, msgs))

\* A handler that spends no more than its request or message brought.
LEMMA SpentCovered ==
  ASSUME OwedInv, TypeInv', NEW s \in Sessions, NEW ow \in Owing, Spends(ow, s),
         clients' = clients, NEW x \in Sessions, ow[x] >= owed[x],
         ~Gone(x) => ow[x] - One(x, s) - DueCount(x, msgs')
                       >= owed[x] - DueCount(x, msgs)
  PROVE  Covered(x)'
<1>1. /\ owed[x] \in Int /\ ow[x] \in Int /\ owed[x] >= 0 /\ owed'[x] \in Int
      /\ One(x, s) \in Nat
  BY DEF OwedInv, TypeInv, TypeOK, Owing, One
<1>2. /\ DueCount(x, calls) \in Nat /\ DueCount(x, pending) \in Nat
      /\ DueCount(x, msgs) \in Nat
      /\ DueCount(x, calls') \in Nat /\ DueCount(x, pending') \in Nat
      /\ DueCount(x, msgs') \in Nat
  BY DueFinite DEF OwedInv, TypeInv, Queues
<1>3. Gone(x)' = Gone(x)
  BY DEF Gone
<1>4. CASE Gone(x)
  BY <1>1, <1>3, <1>4 DEF Spends, Covered
<1>5. CASE ~Gone(x)
  <2>1. Credit(owed, x)' >= Credit(ow, x) - One(x, s)
    BY DEF Spends
  <2>2. /\ Credit(ow, x) = ow[x] - DueCount(x, calls) - DueCount(x, pending)
        /\ Credit(owed, x) = owed[x] - DueCount(x, calls) - DueCount(x, pending)
        /\ Credit(owed, x)' = owed'[x] - DueCount(x, calls') - DueCount(x, pending')
    BY DEF Credit
  <2>3. Credit(owed, x) >= DueCount(x, msgs)
    BY <1>5 DEF OwedInv
  <2>4. Credit(owed, x)' >= DueCount(x, msgs')
    BY <1>1, <1>2, <1>5, <2>1, <2>2, <2>3
  <2>5. owed'[x] >= 0
    BY <1>1, <1>2, <2>2, <2>4
  <2> QED  BY <2>4, <2>5 DEF Covered
<1> QED  BY <1>4, <1>5

\* All that is due for session x.
Total(x) == DueCount(x, calls) + DueCount(x, pending) + DueCount(x, msgs)

LEMMA SameCovered ==
  ASSUME OwedInv, TypeInv', NEW x \in Sessions, owed'[x] = owed[x],
         Gone(x) => Gone(x)', ~Gone(x)' => Total(x)' <= Total(x)
  PROVE  Covered(x)'
<1>1. owed[x] \in Int /\ owed[x] >= 0
  BY DEF OwedInv, TypeInv, TypeOK
<1>2. /\ DueCount(x, calls) \in Nat /\ DueCount(x, pending) \in Nat
      /\ DueCount(x, msgs) \in Nat
      /\ DueCount(x, calls') \in Nat /\ DueCount(x, pending') \in Nat
      /\ DueCount(x, msgs') \in Nat
  BY DueFinite DEF OwedInv, TypeInv, Queues
<1>3. CASE Gone(x)'
  BY <1>1, <1>3 DEF Covered
<1>4. CASE ~Gone(x)'
  <2>1. /\ Credit(owed, x) = owed[x] - DueCount(x, calls) - DueCount(x, pending)
        /\ Credit(owed, x)' = owed'[x] - DueCount(x, calls') - DueCount(x, pending')
        /\ Total(x)' = DueCount(x, calls') + DueCount(x, pending') + DueCount(x, msgs')
        /\ Total(x) = DueCount(x, calls) + DueCount(x, pending) + DueCount(x, msgs)
    BY DEF Credit, Total
  <2>2. Credit(owed, x) >= DueCount(x, msgs)
    BY <1>4 DEF OwedInv
  <2>3. Total(x)' <= Total(x)
    BY <1>4
  <2>4. Credit(owed, x)' >= DueCount(x, msgs')
    BY <1>1, <1>2, <2>1, <2>2, <2>3
  <2> QED  BY <1>1, <2>4 DEF Covered
<1> QED  BY <1>3, <1>4

\* Calls whose answers are not reported change nothing that is due.
LEMMA SilentCalls ==
  ASSUME TypeInv, NEW cs \in Seq(SoundCalls), calls' = calls \o cs,
         \A i \in DOMAIN cs : cs[i].cb \notin Reporting, NEW x \in Sessions
  PROVE  DueCount(x, calls') = DueCount(x, calls)
<1>1. DueCount(x, calls') = DueCount(x, calls) + DueCount(x, cs)
  BY DueThen DEF TypeInv, Queues
<1>2. DueCount(x, cs) = 0
  BY DueNone
<1> QED  BY <1>1, <1>2, CreditType

LEMMA RestartSilent ==
  ASSUME TypeInv, NEW before \in Seq(SoundCalls), NEW n \in BOOLEAN,
         \A i \in DOMAIN before : before[i].cb = "none",
         RestartSpe(before, n), NEW x \in Sessions
  PROVE  DueCount(x, calls') = DueCount(x, calls)
<1>1. PICK q \in InOrder(DistSessions) :
        calls' = calls \o before \o RestartTime(n) \o RestartDistance(q)
  BY DEF RestartSpe
<1> DEFINE S == TimeSessions
           o == [Fastest(timeSess, S) EXCEPT !.power = RestartPower(timeSess, S)]
           o2 == [o EXCEPT !.interval = IF n /\ @ > MinInterval THEN MinInterval ELSE @]
           call == Call("startTime", 0, o2, "none", NoOptions)
           rt == RestartTime(n)
           rd == RestartDistance(q)
<1>2. rt \in Seq(SoundCalls) /\ rd \in Seq(SoundCalls)
  BY <1>1, RestartCalls
<1>3. \A i \in DOMAIN rt : rt[i].cb = "none"
  <2>1. call.cb = "none"
    BY DEF Call
  <2>2. rt = <<>> \/ rt = <<call>>
    BY DEF RestartTime
  <2> HIDE DEF call, rt
  <2> QED  BY <2>1, <2>2
<1>4. \A i \in DOMAIN rd : rd[i].cb = "none"
  BY DEF RestartDistance, Call
<1>5. "none" \notin Reporting
  BY DEF Reporting
<1> HIDE DEF rt, rd
<1> DEFINE a == before \o rt
           b == (before \o rt) \o rd
<1>6. a \in Seq(SoundCalls) /\ \A i \in DOMAIN a : a[i].cb = "none"
  BY <1>2, <1>3
<1>7. b \in Seq(SoundCalls) /\ \A i \in DOMAIN b : b[i].cb = "none"
  <2> HIDE DEF a
  <2>1. a \o rd \in Seq(SoundCalls) /\ \A i \in DOMAIN (a \o rd) : (a \o rd)[i].cb = "none"
    BY <1>2, <1>4, <1>6
  <2> QED  BY <2>1 DEF a
<1>8. calls' = calls \o b
  BY <1>1, <1>2, SMTT(20) DEF rt, rd, TypeInv, Queues
<1> HIDE DEF a, b
<1> QED  BY <1>5, <1>7, <1>8, SilentCalls

AllCovered == \A s \in Sessions : Covered(s)

LEMMA CommandCovered ==
  ASSUME OwedInv, TypeInv', NEW s \in Sessions, Spends(Asked(s), s), MayAsk(s),
         UNCHANGED <<clients, msgs>>
  PROVE  AllCovered'
<1> SUFFICES ASSUME NEW x \in Sessions PROVE Covered(x)'
  BY DEF AllCovered
<1>1. owed \in Owing /\ Asked(s) \in Owing
  BY OwedType DEF OwedInv, TypeInv
<1>2. owed[x] \in Int /\ Asked(s)[x] = owed[x] + One(x, s)
  BY <1>1 DEF Asked, Owing, One
<1>3. DueCount(x, msgs) \in Nat /\ One(x, s) \in Nat
  BY CreditType DEF OwedInv, One
<1>4. /\ Asked(s)[x] >= owed[x]
      /\ Asked(s)[x] - One(x, s) - DueCount(x, msgs') >= owed[x] - DueCount(x, msgs)
  BY <1>2, <1>3
<1> QED  BY <1>1, <1>4, SpentCovered

\* The handled message was itself due.
LEMMA HandledCovered ==
  ASSUME OwedInv, TypeInv', msgs # <<>>, Head(msgs).cb \in Reporting,
         Head(msgs).sess \in Sessions, Spends(owed, Head(msgs).sess),
         clients' = clients, msgs' = Tail(msgs)
  PROVE  AllCovered'
<1> SUFFICES ASSUME NEW x \in Sessions PROVE Covered(x)'
  BY DEF AllCovered
<1> DEFINE s == Head(msgs).sess
<1>1. owed \in Owing /\ owed[x] \in Int
  BY OwedType DEF OwedInv, TypeInv, Owing
<1>2. DueCount(x, msgs) = DueCount(x, <<Head(msgs)>>) + DueCount(x, msgs')
  BY DueTail DEF OwedInv, TypeInv, Queues
<1>3. DueCount(x, <<Head(msgs)>>) = One(x, s)
  BY DueOne
<1>4. DueCount(x, msgs') \in Nat /\ One(x, s) \in Nat
  BY DueFinite DEF TypeInv, Queues, One
<1>5. owed[x] - One(x, s) - DueCount(x, msgs') >= owed[x] - DueCount(x, msgs)
  BY <1>1, <1>2, <1>3, <1>4
<1> HIDE DEF s
<1> QED  BY <1>1, <1>5, SpentCovered DEF s

LEMMA AnswerCovered ==
  ASSUME OwedInv, TypeInv', HandleAnswer
  PROVE  AllCovered'
<1> DEFINE m == Head(msgs)
           s == m.sess
<1>1. TypeInv /\ m \in SoundMsgs /\ owed \in Owing
  BY SeqOps, OwedType DEF OwedInv, TypeInv, Queues, HandleAnswer
<1>2. /\ s \in Sessions /\ m.arg \in Options /\ m.cb \in Callbacks /\ m.cb # "none"
      /\ m.cb \in {"distStop", "distRestarted"} => m.arg.distance > 0
  <2>1. Answer(m)
    BY DEF HandleAnswer
  <2> HIDE DEF m
  <2> QED  BY <1>1, <2>1 DEF Answer, SoundMsgs, Msgs, Callbacks
<1>3. /\ msgs # <<>> /\ msgs' = Tail(msgs)
      /\ UNCHANGED <<clients, pending>> /\ Answer(m)
  BY DEF HandleAnswer
<1>4. CASE m.cb # "clientDistStopped"
  <2>1. SUFFICES Spends(owed, s)
    BY <1>2, <1>3, <1>4, HandledCovered DEF Reporting
  <2>2. CASE NoPlan /\ (UNCHANGED owed \/ \E now \in BOOLEAN : ReportIf(now, owed, s))
    BY <1>1, <1>2, <1>3, <2>2, NoPlanSpends
  <2>3. CASE /\ m.cb = "toTime" /\ FollowPlan(StartMultiplex(s, m.arg))
             /\ ReportIf(StartMultiplex(s, m.arg).now, owed, s)
    BY <1>1, <1>2, <1>3, <2>3, StartMultiplexType, MultiplexCosts, FollowedSpends
  <2>4. CASE /\ m.cb = "distStop" /\ UNCHANGED owed
             /\ MakeCalls(<<Call("startDist", s, m.arg, "distRestarted", m.arg)>>)
    <3> DEFINE c == Call("startDist", s, m.arg, "distRestarted", m.arg)
    <3>1. c \in SoundCalls
      BY <1>2, <2>4, CallType DEF DistanceOps, Callbacks, TimeOps, Sess
    <3>2. c.sess = s
      BY DEF Call
    <3>3. MakeCalls(<<c>>) /\ owed' = owed
      BY <2>4
    <3> HIDE DEF c
    <3> QED  BY <1>1, <1>2, <1>3, <3>1, <3>2, <3>3, CallSpends
  <2>5. CASE m.cb \notin {"toTime", "distStop"}
    <3>1. NoPlan /\ (ReportIf(TRUE, owed, s) \/ ReportIf(m.cb = "distStopped", owed, s))
      BY <1>3, <1>4, <2>5 DEF Answer
    <3> QED  BY <2>2, <3>1
  <2> QED  BY <1>3, <2>2, <2>3, <2>4, <2>5 DEF Answer
<1>5. CASE m.cb = "clientDistStopped"
  <2> SUFFICES ASSUME NEW x \in Sessions PROVE Covered(x)'
    BY DEF AllCovered
  <2>1. UNCHANGED <<owed, calls>>
    BY <1>3, <1>5 DEF Answer, NoPlan, ReportIf
  <2>2. DueCount(x, msgs') <= DueCount(x, msgs)
    <3>1. DueCount(x, msgs) = DueCount(x, <<m>>) + DueCount(x, msgs')
      BY <1>1, <1>3, DueTail DEF TypeInv, Queues
    <3>2. DueCount(x, <<m>>) = 0
      <4> HIDE DEF m
      <4> QED  BY <1>5, DueOne DEF Reporting
    <3> QED  BY <1>1, <3>1, <3>2, CreditType, DueFinite DEF TypeInv, Queues
  <2>3. Total(x)' <= Total(x)
    <3>1. /\ DueCount(x, calls) \in Nat /\ DueCount(x, pending) \in Nat
          /\ DueCount(x, msgs) \in Nat /\ DueCount(x, msgs') \in Nat
      BY DueFinite DEF OwedInv, TypeInv, Queues
    <3> QED  BY <1>3, <2>1, <2>2, <3>1 DEF Total
  <2> QED  BY <1>3, <2>1, <2>3, SameCovered DEF Gone
<1> QED  BY <1>4, <1>5

\* A restart of the sessions by the adapter leaves all that is due.
LEMMA RestartTotal ==
  ASSUME TypeInv, TypeInv', HandleEngineUp \/ Reconfigure \/ UpdateNHz,
         NEW x \in Sessions
  PROVE  Total(x)' = Total(x) /\ Total(x) \in Nat /\ UNCHANGED <<owed, clients>>
<1>1. nHz \in BOOLEAN /\ nHz' \in BOOLEAN
  BY DEF TypeInv, TypeOK
<1>2. UNCHANGED <<owed, clients>>
  BY DEF HandleEngineUp, Reconfigure, UpdateNHz
<1>3. DueCount(x, calls') = DueCount(x, calls)
  <2>1. CASE HandleEngineUp \/ UpdateNHz
    <3> DEFINE none == <<>>
    <3>1. PICK n \in BOOLEAN : RestartSpe(none, n)
      BY <1>1, <2>1 DEF HandleEngineUp, UpdateNHz
    <3>2. none \in Seq(SoundCalls) /\ \A i \in DOMAIN none : none[i].cb = "none"
      OBVIOUS
    <3> HIDE DEF none
    <3> QED  BY <1>1, <3>1, <3>2, RestartSilent
  <2>2. CASE Reconfigure
    <3> DEFINE stop == Call("stopFix", 0, NoOptions, "none", NoOptions)
               before == IF TimeSessions = {} THEN <<>> ELSE <<stop>>
    <3>1. stop \in SoundCalls /\ stop.cb = "none"
      BY CallType, NoOptionsType DEF TimeOps, Callbacks, Sess, DistanceOps, Call
    <3>2. before \in Seq(SoundCalls) /\ \A i \in DOMAIN before : before[i].cb = "none"
      <4> HIDE DEF stop
      <4> QED  BY <3>1
    <3>3. RestartSpe(before, nHz)
      BY <2>2 DEF Reconfigure
    <3> HIDE DEF before
    <3> QED  BY <1>1, <3>2, <3>3, RestartSilent
  <2> QED  BY <2>1, <2>2
<1>4. /\ DueCount(x, calls) \in Nat /\ DueCount(x, pending) \in Nat
      /\ DueCount(x, msgs) \in Nat
  BY <1>1, CreditType
<1>5. CASE HandleEngineUp
  <2> DEFINE t == Tail(msgs)
  <2>1. /\ msgs # <<>> /\ Head(msgs).cb = "engineUp" /\ msgs' = t \o pending
        /\ pending' = <<>>
    BY <1>5 DEF HandleEngineUp
  <2>2. DueCount(x, msgs) = DueCount(x, <<Head(msgs)>>) + DueCount(x, t)
    BY <1>1, <2>1, DueTail DEF TypeInv, Queues
  <2>3. DueCount(x, <<Head(msgs)>>) = 0
    BY <2>1, DueOne DEF Reporting, Callbacks
  <2>4. t \in Seq(SoundMsgs) /\ pending \in Seq(SoundMsgs)
    BY <1>1, <2>1, SeqOps, SeqWiden DEF TypeInv, Queues, HeldMsgs
  <2>5. DueCount(x, msgs') = DueCount(x, t) + DueCount(x, pending)
    <3> HIDE DEF t
    <3> QED  BY <2>1, <2>4, DueThen
  <2>6. DueCount(x, t) \in Nat
    BY <2>4, DueFinite
  <2>7. Total(x)' = Total(x)
    BY <1>3, <1>4, <2>1, <2>2, <2>3, <2>5, <2>6, DueEmpty DEF Total
  <2> QED  BY <1>2, <1>4, <2>7 DEF Total
<1>6. CASE Reconfigure \/ UpdateNHz
  <2>1. Total(x)' = Total(x)
    BY <1>3, <1>6 DEF Total, Reconfigure, UpdateNHz
  <2> QED  BY <1>2, <1>4, <2>1 DEF Total
<1> QED  BY <1>5, <1>6

LEMMA RestartCovered ==
  ASSUME OwedInv, TypeInv', HandleEngineUp \/ Reconfigure \/ UpdateNHz
  PROVE  AllCovered'
<1> SUFFICES ASSUME NEW x \in Sessions PROVE Covered(x)'
  BY DEF AllCovered
<1>1. Total(x)' = Total(x) /\ Total(x) \in Nat /\ UNCHANGED <<owed, clients>>
  BY RestartTotal DEF OwedInv
<1> QED  BY <1>1, SameCovered DEF Gone

LEMMA RemovalCovered ==
  ASSUME OwedInv, TypeInv',
         \/ \E c \in Clients : AddClient(c) \/ RemoveClient(c)
         \/ \E s \in Sessions : StopNextOfClient(s)
         \/ FinishRemoval
  PROVE  AllCovered'
<1> SUFFICES ASSUME NEW x \in Sessions PROVE Covered(x)'
  BY DEF AllCovered
<1>1. TypeInv /\ Owner[x] \in Clients /\ clients \in [Clients -> ClientStates]
  BY OwnerAssumption DEF OwedInv, TypeInv, TypeOK
<1>2. Total(x) \in Nat
  BY <1>1, CreditType DEF Total
<1>3. ASSUME NEW c \in Clients, AddClient(c) PROVE Covered(x)'
  <2>1. UNCHANGED <<owed, calls, pending, msgs>>
    BY <1>3 DEF AddClient
  <2>2. Gone(x) => Gone(x)'
    BY <1>1, <1>3 DEF AddClient, Gone
  <2> QED  BY <1>2, <2>1, <2>2, SameCovered DEF Total
<1>4. ASSUME NEW c \in Clients, RemoveClient(c) PROVE Covered(x)'
  <2>1. UNCHANGED <<calls, pending, msgs>>
    BY <1>4 DEF RemoveClient
  <2>2. CASE Owner[x] = c
    <3>1. Gone(x)' /\ owed'[x] = 0
      BY <1>1, <1>4, <2>2 DEF RemoveClient, Gone
    <3> QED  BY <3>1 DEF Covered
  <2>3. CASE Owner[x] # c
    <3>1. owed'[x] = owed[x] /\ (Gone(x) => Gone(x)')
      BY <1>1, <1>4, <2>3 DEF RemoveClient, Gone
    <3> QED  BY <1>2, <2>1, <3>1, SameCovered DEF Total
  <2> QED  BY <2>2, <2>3
<1>5. ASSUME NEW s \in Sessions, StopNextOfClient(s) PROVE Covered(x)'
  <2> DEFINE p == StopMultiplex(s)
  <2>1. /\ UNCHANGED <<owed, pending, msgs, clients>>
        /\ calls' = calls \o p.calls
    BY <1>5 DEF StopNextOfClient, FollowPlan
  <2>2. Gone(s)
    BY <1>5, OwnerAssumption DEF StopNextOfClient, OfClient, Idle, OwedInv, Gone
  <2>3. CASE x = s
    BY <2>1, <2>2, <2>3, SameCovered DEF Gone
  <2>4. CASE x # s
    <3>1. p \in Plans /\ Costs(p, s)
      BY <1>1, StopMultiplexType, MultiplexCosts
    <3>2. p.calls \in Seq(SoundCalls)
      BY <3>1 DEF Plans
    <3>3. DueCount(x, p.calls) <= 0 /\ DueCount(x, p.calls) \in Nat
      <4> HIDE DEF p
      <4> QED  BY <2>4, <3>1, <3>2, DueFinite DEF Costs, One
    <3>4. DueCount(x, calls') = DueCount(x, calls) + DueCount(x, p.calls)
      <4> HIDE DEF p
      <4> QED  BY <1>1, <2>1, <3>2, DueThen DEF TypeInv, Queues
    <3>5. Total(x)' = Total(x)
      <4> HIDE DEF p
      <4> QED  BY <1>1, <2>1, <3>3, <3>4, CreditType DEF Total
    <3> QED  BY <1>2, <2>1, <3>5, SameCovered DEF Gone
  <2> QED  BY <2>3, <2>4
<1>6. CASE FinishRemoval
  <2>1. PICK q \in InOrder(OfClient(DistSessions)) :
          MakeCalls([i \in DOMAIN q |->
            Call("stopDist", q[i], NoOptions, "clientDistStopped", NoOptions)])
    BY <1>6 DEF FinishRemoval
  <2> DEFINE cs == [i \in DOMAIN q |->
                     Call("stopDist", q[i], NoOptions, "clientDistStopped", NoOptions)]
  <2>2. cs \in Seq(SoundCalls)
    BY <1>1, RemovalCalls
  <2>3. \A i \in DOMAIN cs : cs[i].cb \notin Reporting
    BY DEF Call, Reporting
  <2>4. DueCount(x, calls') = DueCount(x, calls)
    <3>1. calls' = calls \o cs
      BY <2>1 DEF MakeCalls
    <3> HIDE DEF cs
    <3> QED  BY <1>1, <2>2, <2>3, <3>1, SilentCalls
  <2>5. UNCHANGED <<owed, pending, msgs>> /\ (Gone(x) => Gone(x)')
    BY <1>1, <1>6 DEF FinishRemoval, Gone
  <2> QED  BY <1>2, <2>4, <2>5, SameCovered DEF Total
<1> QED  BY <1>3, <1>4, <1>5, <1>6

\* The modem turns a call into its answer and leaves all that is due; only what
\* a call to open itself carries is never answered.
LEMMA ModemTotal ==
  ASSUME TypeInv, TypeInv', ModemCall \/ ModemOpen \/ ModemDown, NEW x \in Sessions
  PROVE  /\ Total(x)' <= Total(x) /\ Total(x) \in Nat
         /\ (ModemOpen => Head(calls).cb = "none") => Total(x)' = Total(x)
         /\ UNCHANGED <<owed, clients>>
<1>1. TypeInv /\ UNCHANGED <<owed, clients, pending>>
  BY DEF ModemCall, ModemOpen, ModemDown, adapterVars
<1>2. /\ DueCount(x, calls) \in Nat /\ DueCount(x, pending) \in Nat
      /\ DueCount(x, msgs) \in Nat
  BY <1>1, CreditType
<1>3. Total(x) \in Nat
  BY <1>2 DEF Total
<1> DEFINE c == Head(calls)
<1>4. ASSUME calls # <<>>
      PROVE  /\ c \in SoundCalls /\ Tail(calls) \in Seq(SoundCalls)
             /\ DueCount(x, calls) = DueCount(x, <<c>>) + DueCount(x, Tail(calls))
             /\ DueCount(x, <<c>>) \in Nat /\ DueCount(x, Tail(calls)) \in Nat
  <2>1. c \in SoundCalls /\ Tail(calls) \in Seq(SoundCalls)
    BY <1>1, <1>4, SeqOps DEF TypeInv, Queues
  <2>2. DueCount(x, calls) = DueCount(x, <<c>>) + DueCount(x, Tail(calls))
    BY <1>1, <1>4, DueTail DEF TypeInv, Queues
  <2>3. DueCount(x, <<c>>) \in Nat
    <3> HIDE DEF c
    <3> QED  BY DueOne DEF One
  <2>4. DueCount(x, Tail(calls)) \in Nat
    BY <2>1, DueFinite
  <2> QED  BY <2>1, <2>2, <2>3, <2>4
<1>5. ASSUME ModemCall PROVE Total(x)' = Total(x)
  <2>1. calls # <<>> /\ calls' = Tail(calls)
    BY <1>5 DEF ModemCall
  <2>2. PICK ok \in BOOLEAN : Post(c, ok)
    BY <1>5 DEF ModemCall
  <2> DEFINE m == [cb |-> c.cb, sess |-> c.sess, arg |-> c.arg, ok |-> ok]
  <2>3. CASE c.cb = "none"
    <3>1. DueCount(x, <<c>>) = 0
      <4> HIDE DEF c
      <4> QED  BY <2>3, DueOne DEF Reporting
    <3> QED  BY <1>1, <1>2, <1>4, <2>1, <2>2, <2>3, <3>1 DEF Post, Total
  <2>4. CASE c.cb # "none"
    <3>1. m \in SoundMsgs /\ msgs' = Append(msgs, m)
      <4>1. c \in SoundCalls
        BY <1>4, <2>1
      <4>2. msgs' = Append(msgs, m)
        BY <2>2, <2>4 DEF Post
      <4> HIDE DEF c
      <4> QED  BY <2>4, <4>1, <4>2 DEF SoundCalls, Calls, SoundMsgs, Msgs
    <3>2. DueCount(x, msgs') = DueCount(x, msgs) + DueCount(x, <<m>>)
      <4> HIDE DEF m
      <4> QED  BY <1>1, <3>1, DueAppend DEF TypeInv, Queues
    <3>3. DueCount(x, <<m>>) = DueCount(x, <<c>>)
      <4>1. m.cb = c.cb /\ m.sess = c.sess
        OBVIOUS
      <4> HIDE DEF m, c
      <4> QED  BY <4>1, DueOne
    <3> HIDE DEF c, m
    <3> QED  BY <1>1, <1>2, <1>4, <2>1, <3>2, <3>3 DEF Total
  <2> QED  BY <2>3, <2>4
<1>6. ASSUME ModemOpen
      PROVE  /\ Total(x)' <= Total(x)
             /\ c.cb = "none" => Total(x)' = Total(x)
  <2> DEFINE up == [cb |-> "engineUp", sess |-> 0, arg |-> NoOptions, ok |-> TRUE]
  <2>1. /\ calls # <<>> /\ calls' = Tail(calls) /\ msgs' = Append(msgs, up)
    BY <1>6 DEF ModemOpen
  <2>2. up \in SoundMsgs
    BY NoOptionsType DEF SoundMsgs, Msgs
  <2>3. up.cb \notin Reporting
    BY DEF Reporting, Callbacks
  <2>4. DueCount(x, msgs') = DueCount(x, msgs)
    <3> HIDE DEF up
    <3>1. DueCount(x, Append(msgs, up)) = DueCount(x, msgs) + DueCount(x, <<up>>)
      BY <1>1, <2>2, DueAppend DEF TypeInv, Queues
    <3>2. DueCount(x, <<up>>) = 0
      BY <2>3, DueOne
    <3> QED  BY <1>2, <2>1, <3>1, <3>2
  <2>5. c.cb = "none" => DueCount(x, <<c>>) = 0
    <3> HIDE DEF c
    <3> QED  BY DueOne DEF Reporting
  <2> HIDE DEF c
  <2> QED  BY <1>1, <1>2, <1>4, <2>1, <2>4, <2>5 DEF Total
<1>7. ASSUME ModemDown PROVE Total(x)' = Total(x)
  <2>1. OpenCall \in SoundCalls /\ OpenCall.cb = "none"
    BY CallType, NoOptionsType
       DEF OpenCall, Callbacks, Sess, TimeOps, DistanceOps, Call
  <2>2. calls' = Append(calls, OpenCall) /\ UNCHANGED msgs
    BY <1>7 DEF ModemDown
  <2>3. DueCount(x, calls') = DueCount(x, calls)
    <3>1. DueCount(x, Append(calls, OpenCall))
            = DueCount(x, calls) + DueCount(x, <<OpenCall>>)
      BY <1>1, <2>1, DueAppend DEF TypeInv, Queues
    <3>2. OpenCall.cb \notin Reporting
      BY <2>1 DEF Reporting
    <3>3. DueCount(x, <<OpenCall>>) = 0
      BY <3>2, DueOne
    <3> QED  BY <1>2, <2>2, <3>1, <3>3
  <2> QED  BY <1>1, <1>2, <2>2, <2>3 DEF Total
<1> QED  BY <1>1, <1>3, <1>5, <1>6, <1>7

LEMMA ModemCovered ==
  ASSUME OwedInv, TypeInv', ModemCall \/ ModemOpen \/ ModemDown
  PROVE  AllCovered'
<1> SUFFICES ASSUME NEW x \in Sessions PROVE Covered(x)'
  BY DEF AllCovered
<1>1. Total(x)' <= Total(x) /\ Total(x) \in Nat /\ UNCHANGED <<owed, clients>>
  BY ModemTotal DEF OwedInv
<1> QED  BY <1>1, SameCovered DEF Gone

LEMMA CommandsCovered ==
  ASSUME OwedInv, TypeInv', NEW s \in Sessions,
         \/ \E o \in Opts : StartCommand(s, o) \/ UpdateCommand(s, o)
         \/ StopCommand(s)
  PROVE  AllCovered'
<1>1. TypeInv /\ Asked(s) \in Owing
  BY OwedType DEF OwedInv, TypeInv
<1>2. MayAsk(s) /\ UNCHANGED <<clients, msgs>>
  BY DEF StartCommand, UpdateCommand, StopCommand
<1>3. Spends(Asked(s), s)
  <2>1. ASSUME NEW o \in Opts, StartCommand(s, o) PROVE Spends(Asked(s), s)
    BY <1>1, <2>1, OptsAssumption, StartTrackingSpends DEF StartCommand
  <2>2. ASSUME NEW o \in Opts, UpdateCommand(s, o) PROVE Spends(Asked(s), s)
    BY <1>1, <2>2, OptsAssumption, UpdateTrackingSpends DEF UpdateCommand
  <2>3. CASE StopCommand(s)
    BY <1>1, <2>3, StopTrackingSpends DEF StopCommand
  <2> QED  BY <2>1, <2>2, <2>3
<1> QED  BY <1>2, <1>3, CommandCovered

LEMMA ReplayCovered ==
  ASSUME OwedInv, TypeInv', HandleReplay
  PROVE  AllCovered'
<1> DEFINE m == Head(msgs)
<1>1. TypeInv /\ m \in SoundMsgs /\ owed \in Owing
  BY SeqOps, OwedType DEF OwedInv, TypeInv, Queues, HandleReplay
<1>2. /\ m.cb \in {"start", "update"}
      /\ msgs # <<>> /\ msgs' = Tail(msgs) /\ clients' = clients
      /\ StartTracking(m.sess, m.arg, owed) \/ UpdateTracking(m.sess, m.arg, owed)
  BY DEF HandleReplay
<1> HIDE DEF m
<1>3. m.sess \in Sessions /\ m.arg \in Options
  BY <1>1, <1>2 DEF SoundMsgs, Msgs
<1>4. Spends(owed, m.sess)
  BY <1>1, <1>2, <1>3, StartTrackingSpends, UpdateTrackingSpends
<1>5. m.cb \in Reporting
  BY <1>2 DEF Reporting
<1> QED  BY <1>2, <1>3, <1>4, <1>5, HandledCovered DEF m

\* The client of the running loop stays the one that is being removed.
LEMMA RemovingStep ==
  ASSUME OwedInv, [Next]_vars
  PROVE  removing' \in Clients => clients'[removing'] = "removing"
<1>1. clients \in [Clients -> ClientStates]
  BY DEF OwedInv, TypeInv, TypeOK
<1>2. CASE UNCHANGED <<clients, removing>>
  BY <1>2 DEF OwedInv
<1>3. ASSUME NEW c \in Clients, AddClient(c)
      PROVE  removing' \in Clients => clients'[removing'] = "removing"
  BY <1>3, ClientsAssumption DEF AddClient, Idle
<1>4. ASSUME NEW c \in Clients, RemoveClient(c)
      PROVE  removing' \in Clients => clients'[removing'] = "removing"
  BY <1>1, <1>4 DEF RemoveClient
<1>5. CASE FinishRemoval
  BY <1>5, ClientsAssumption DEF FinishRemoval
<1>6. CASE Request
  BY <1>2, <1>3, <1>4, <1>6
     DEF Request, StartCommand, UpdateCommand, StopCommand, Reconfigure, UpdateNHz
<1>7. CASE AdapterStep
  BY <1>2, <1>5, <1>7
     DEF AdapterStep, HandleAnswer, HandleReplay, HandleEngineUp, StopNextOfClient
<1>8. CASE LocApiStep \/ ModemDown
  BY <1>2, <1>8 DEF LocApiStep, ModemCall, ModemOpen, ModemDown, adapterVars
<1>9. CASE UNCHANGED vars
  BY <1>2, <1>9 DEF vars, adapterVars
<1> QED  BY <1>6, <1>7, <1>8, <1>9 DEF Next

LEMMA OwedInit ==
  ASSUME Init
  PROVE  OwedInv
<1>1. TypeInv
  BY InitTypes
<1>2. removing \notin Clients
  BY ClientsAssumption DEF Init
<1>3. ASSUME NEW x \in Sessions PROVE owed[x] = 0 /\ Credit(owed, x) = DueCount(x, msgs)
  <2>1. owed[x] = 0 /\ msgs = <<>> /\ pending = <<>> /\ calls = <<OpenCall>>
    BY DEF Init
  <2>2. OpenCall.cb \notin Reporting
    BY DEF OpenCall, Call, Reporting
  <2>3. DueCount(x, calls) = 0
    BY <2>1, <2>2, DueOne
  <2>4. DueCount(x, msgs) = 0 /\ DueCount(x, pending) = 0
    BY <2>1, DueEmpty
  <2> QED  BY <2>1, <2>3, <2>4 DEF Credit
<1>4. ASSUME NEW x \in Sessions
      PROVE  owed[x] >= 0 /\ Credit(owed, x) >= DueCount(x, msgs)
  BY <1>1, <1>3, CreditType
<1> QED  BY <1>1, <1>2, <1>4 DEF OwedInv

LEMMA OwedStep ==
  ASSUME OwedInv, [Next]_vars
  PROVE  OwedInv'
<1>1. TypeInv'
  BY TypeInvStep DEF OwedInv
<1>2. AllCovered'
  <2>1. CASE Request
    BY <1>1, <2>1, CommandsCovered, RemovalCovered, RestartCovered DEF Request
  <2>2. CASE AdapterStep
    BY <1>1, <2>2, AnswerCovered, ReplayCovered, RestartCovered, RemovalCovered
       DEF AdapterStep
  <2>3. CASE LocApiStep \/ ModemDown
    BY <1>1, <2>3, ModemCovered DEF LocApiStep
  <2>4. CASE UNCHANGED vars
    BY <2>4 DEF vars, adapterVars, modemVars, OwedInv, AllCovered, Covered, Credit, Gone
  <2> QED  BY <2>1, <2>2, <2>3, <2>4 DEF Next
<1>3. removing' \in Clients => clients'[removing'] = "removing"
  BY RemovingStep
<1> QED  BY <1>1, <1>2, <1>3 DEF OwedInv, AllCovered, Covered

\* No request is answered twice: whatever clients ask in whatever order, and
\* however often the modem refuses, restarts or is reconfigured, the answers a
\* client gets for a session never exceed its start, update and stop requests.
THEOREM GnssNeverTwice == Spec => []NeverTwice
<1>1. Init => OwedInv
  BY OwedInit
<1>2. OwedInv /\ [Next]_vars => OwedInv'
  BY OwedStep
<1>3. OwedInv => NeverTwice
  BY DEF OwedInv, NeverTwice
<1> QED  BY <1>1, <1>2, <1>3, PTL DEF Spec

-----------------------------------------------------------------------------
(***************************************************************************)
(* The time based sessions are served, for all sessions, clients, options  *)
(* and bounds.                                                             *)
(*                                                                         *)
(* The mode told to the engine hub serves every session as long as the     *)
(* modem refuses nothing and does not restart.  The invariant is not       *)
(* inductive alone.  A refused update would bring old options back, so no  *)
(* such answer may be under way; that needs the modem to be up whenever it *)
(* is called, which holds because the queue of calls starts with the open. *)
(*                                                                         *)
(* The modem serves every session once nothing is under way, also through  *)
(* its restarts, N Hz and reconfigurations, as long as it refuses nothing  *)
(* while it is up.                                                         *)
(*                                                                         *)
(* Clients that track by time only get more: what the hub is told is true, *)
(* the modem is switched off behind them, and every request is answered.   *)
(***************************************************************************)
UpdatesSucceed == {m \in SoundMsgs : m.cb = "updated" => m.ok}
ModemReady == modemUp \/ (calls # <<>> /\ Head(calls).op = "open")

ModeInv ==
  /\ TypeInv
  /\ ModeServes
  /\ msgs \in Seq(UpdatesSucceed)
  /\ ModemReady

\* The interval md serves the time based sessions of S.
Serves(md, S) == \A t \in S : md <= timeSess[t].interval

-----------------------------------------------------------------------------
(***************************************************************************)
(* What the multiplexing guarantees.                                       *)
(***************************************************************************)
LEMMA IntervalsNatural ==
  ASSUME TypeInv
  PROVE  /\ \A t \in TimeSessions : timeSess[t].interval \in Nat
         /\ mode.interval \in Nat
BY SessionsListed DEF TypeInv, TypeOK, Options, Modes

\* Options lowered to o serve o and everyone the search looked at.
LEMMA LoweredServes ==
  ASSUME TypeInv, NEW S, S \subseteq TimeSessions, S # {}, NEW o \in Options
  PROVE  /\ Lowered(S, o).interval \in Nat
         /\ Lowered(S, o).interval <= o.interval
         /\ Serves(Lowered(S, o).interval, S)
<1>1. PICK f \in S : /\ Fastest(timeSess, S) = timeSess[f]
                     /\ \A t \in S : timeSess[f].interval <= timeSess[t].interval
  BY SessionsListed, IntervalsNatural, FastestIsLeast DEF TypeInv
<1>2. timeSess[f] \in Options /\ \A t \in S : timeSess[t].interval \in Nat
  BY SessionsListed, IntervalsNatural DEF TypeInv
<1>3. Lowered(S, o).interval =
        IF o.interval < timeSess[f].interval THEN o.interval ELSE timeSess[f].interval
  BY <1>1, <1>2 DEF Lowered, Options
<1> QED  BY <1>1, <1>2, <1>3 DEF Serves, Options

\* Where nothing is asked of the modem, a listed session asks for no less.
LEMMA NotAskedFastest ==
  ASSUME TypeInv, NEW S, S \subseteq TimeSessions, S # {}, NEW o \in Options,
         ~Asks(S, o)
  PROVE  \E f \in S : timeSess[f].interval <= o.interval
<1>1. PICK f \in S : Fastest(timeSess, S) = timeSess[f]
  BY SessionsListed, IntervalsNatural, FastestIsLeast DEF TypeInv
<1> QED  BY <1>1, IntervalsNatural DEF Asks, Options

LEMMA NotAskedServes ==
  ASSUME TypeInv, NEW S, S \subseteq TimeSessions, S # {}, NEW o \in Options,
         ~Asks(S, o), NEW md \in Nat, Serves(md, S)
  PROVE  md <= o.interval
BY NotAskedFastest, IntervalsNatural DEF Serves, Options

LEMMA StartSpeMode ==
  ASSUME NEW s, NEW o, NEW cb, NEW arg
  PROVE  StartSpe(s, o, cb, arg).mode.interval = o.interval
BY DEF StartSpe, Plan

LEMMA StartMultiplexServes ==
  ASSUME TypeInv, ModeServes, NEW s \in Sessions, NEW o \in Options
  PROVE  /\ StartMultiplex(s, o).mode.interval <= o.interval
         /\ Serves(StartMultiplex(s, o).mode.interval, TimeSessions)
<1>1. CASE TimeSessions = {}
  BY <1>1, StartSpeMode DEF StartMultiplex, Serves, Options
<1>2. CASE TimeSessions # {} /\ Asks(TimeSessions, o)
  BY <1>2, StartSpeMode, LoweredServes DEF StartMultiplex
<1>3. CASE TimeSessions # {} /\ ~Asks(TimeSessions, o)
  <2>1. StartMultiplex(s, o).mode = mode
    BY <1>3 DEF StartMultiplex, NoCall, Plan
  <2> QED
    BY <1>3, <2>1, IntervalsNatural, NotAskedServes DEF ModeServes, Serves
<1> QED  BY <1>1, <1>2, <1>3

LEMMA UpdateMultiplexServes ==
  ASSUME TypeInv, ModeServes, NEW s \in TimeSessions, NEW o \in Options
  PROVE  /\ UpdateMultiplex(s, o).mode.interval <= o.interval
         /\ Serves(UpdateMultiplex(s, o).mode.interval, TimeSessions \ {s})
<1> DEFINE others == TimeSessions \ {s}
           same == timeSess[s].interval = o.interval /\ timeSess[s].power = o.power
<1>1. CASE same
  <2>1. UpdateMultiplex(s, o).mode = mode
    BY <1>1 DEF UpdateMultiplex, NoCall, Plan
  <2> QED  BY <1>1, <2>1 DEF ModeServes, Serves
<1>2. CASE ~same /\ others = {}
  BY <1>2, StartSpeMode DEF UpdateMultiplex, Serves, Options
<1>3. CASE ~same /\ others # {} /\ Asks(others, o)
  BY <1>3, StartSpeMode, LoweredServes DEF UpdateMultiplex
<1>4. CASE ~same /\ others # {} /\ ~Asks(others, o)
  <2>1. UpdateMultiplex(s, o).mode = mode
    BY <1>4 DEF UpdateMultiplex, NoCall, Plan
  <2> QED
    BY <1>4, <2>1, IntervalsNatural, NotAskedServes DEF ModeServes, Serves
<1> QED  BY <1>1, <1>2, <1>3, <1>4

LEMMA StopMultiplexServes ==
  ASSUME TypeInv, ModeServes, NEW s \in Sessions
  PROVE  Serves(StopMultiplex(s).mode.interval, TimeSessions \ {s})
<1> DEFINE others == TimeSessions \ {s}
           base == Fastest(timeSess, others)
           o == [base EXCEPT !.power = MuxPower(timeSess, others)]
<1>1. CASE others = {}
  BY <1>1 DEF Serves
<1>2. CASE others # {} /\ Asks(others, timeSess[s])
  <2>1. PICK f \in others : /\ base = timeSess[f]
                            /\ \A t \in others : base.interval <= timeSess[t].interval
    BY <1>2, SessionsListed, IntervalsNatural, FastestIsLeast DEF TypeInv
  <2>2. base \in Options
    BY MultiplexTypes
  <2>3. o.interval = base.interval
    <3> HIDE DEF base
    <3> QED  BY <2>2 DEF Options
  <2>4. StopMultiplex(s).mode.interval = o.interval
    <3>1. StopMultiplex(s) = StartSpe(s, o, "started", NoOptions)
      BY <1>2 DEF StopMultiplex
    <3> HIDE DEF o
    <3> QED  BY <3>1, StartSpeMode
  <2> QED  BY <2>1, <2>3, <2>4 DEF Serves
<1>3. CASE others # {} /\ ~Asks(others, timeSess[s])
  <2>1. StopMultiplex(s).mode = mode
    BY <1>3 DEF StopMultiplex, NoCall, Plan
  <2> QED  BY <2>1 DEF ModeServes, Serves
<1> QED  BY <1>1, <1>2, <1>3

-----------------------------------------------------------------------------
(***************************************************************************)
(* The tables after a step.                                                *)
(***************************************************************************)
LEMMA KeptServes ==
  ASSUME ModeServes, UNCHANGED <<timeSess, mode>>
  PROVE  ModeServes'
BY DEF ModeServes, TimeSessions, Listed

LEMMA ErasedServes ==
  ASSUME TypeInv, NEW s \in Sessions, timeSess' = TimeErased(s),
         Serves(mode'.interval, TimeSessions \ {s})
  PROVE  ModeServes'
<1>1. TimeSessions' = TimeSessions \ {s}
  BY DEF TypeInv, TypeOK, TimeErased, TimeSessions, Listed, NoOptions
<1>2. \A t \in TimeSessions \ {s} : timeSess'[t] = timeSess[t]
  BY DEF TypeInv, TypeOK, TimeErased, TimeSessions, Listed
<1> QED  BY <1>1, <1>2 DEF ModeServes, Serves

LEMMA PutServes ==
  ASSUME TypeInv, NEW s \in Sessions, NEW o \in Options,
         timeSess' = [timeSess EXCEPT ![s] = o], mode'.interval <= o.interval,
         Serves(mode'.interval, TimeSessions \ {s})
  PROVE  ModeServes'
<1>1. /\ timeSess'[s] = o
      /\ \A t \in TimeSessions' \ {s} :
           t \in TimeSessions /\ timeSess'[t] = timeSess[t]
  BY DEF TypeInv, TypeOK, TimeSessions, Listed
<1> QED  BY <1>1 DEF ModeServes, Serves

\* Saving a session keeps a mode that serves it and all others.
LEMMA SavedServes ==
  ASSUME TypeInv, NEW s \in Sessions, NEW o \in Options, SaveSession(s, o),
         mode'.interval <= o.interval, Serves(mode'.interval, TimeSessions)
  PROVE  ModeServes'
<1>1. CASE IsDistance(o)
  <2>1. timeSess' = timeSess
    BY <1>1 DEF SaveSession, TimeSaved
  <2> QED  BY <2>1 DEF ModeServes, Serves, TimeSessions, Listed
<1>2. CASE ~IsDistance(o)
  BY <1>2, PutServes DEF SaveSession, TimeSaved, Serves
<1> QED  BY <1>1, <1>2

-----------------------------------------------------------------------------
(***************************************************************************)
(* Handlers.                                                               *)
(***************************************************************************)
LEMMA FollowedMode ==
  ASSUME NEW p, FollowPlan(p)
  PROVE  mode' = p.mode
BY DEF FollowPlan

LEMMA QuietServes ==
  ASSUME ModeServes, KeepSessions, NoPlan \/ \E cs : MakeCalls(cs)
  PROVE  ModeServes'
BY KeptServes DEF KeepSessions, NoPlan, MakeCalls

LEMMA SessionErasedServes ==
  ASSUME TypeInv, ModeServes, NEW s \in Sessions, EraseSession(s), UNCHANGED mode
  PROVE  ModeServes'
BY ErasedServes DEF EraseSession, ModeServes, Serves

LEMMA StartedServes ==
  ASSUME TypeInv, ModeServes, NEW s \in Sessions, NEW o \in Options,
         SaveSession(s, o), FollowPlan(StartMultiplex(s, o))
  PROVE  ModeServes'
BY StartMultiplexServes, FollowedMode, SavedServes

LEMMA StoppedServes ==
  ASSUME TypeInv, ModeServes, NEW s \in Sessions,
         EraseSession(s), FollowPlan(StopMultiplex(s))
  PROVE  ModeServes'
BY StopMultiplexServes, FollowedMode, ErasedServes DEF EraseSession

LEMMA StartTrackingServes ==
  ASSUME TypeInv, ModeServes, NEW s \in Sessions, NEW o \in Options, NEW ow,
         StartTracking(s, o, ow)
  PROVE  ModeServes'
<1>1. CASE Hold("start", s, o, ow) \/ StartRefused(s, o, ow)
  BY <1>1, QuietServes DEF Hold, StartRefused
<1>2. CASE StartAccepted(s, o, ow)
  <2> DEFINE a == AtLeastMin(o)
  <2>1. a \in Options /\ a.distance = o.distance
    BY AtLeastMinType
  <2>2. CASE /\ IsDistance(o) /\ SaveSession(s, a)
             /\ UNCHANGED mode
    <3>1. timeSess' = timeSess
      <4> HIDE DEF a
      <4> QED  BY <2>1, <2>2 DEF IsDistance, SaveSession, TimeSaved
    <3> QED  BY <2>2, <3>1, KeptServes
  <2>3. CASE \E t \in TimeOptions(a) : /\ SaveSession(s, t)
                                      /\ FollowPlan(StartMultiplex(s, t))
    <3> HIDE DEF a
    <3> QED  BY <2>1, <2>3, TimeOptionsType, StartedServes
  <2> QED  BY <1>2, <2>2, <2>3 DEF StartAccepted, MakeCalls
<1> QED  BY <1>1, <1>2 DEF StartTracking

LEMMA UpdateTrackingServes ==
  ASSUME DistanceSupported, TypeInv, ModeServes,
         NEW s \in Sessions, NEW o \in Options, NEW ow, UpdateTracking(s, o, ow)
  PROVE  ModeServes'
<1>1. CASE Hold("update", s, o, ow) \/ UpdateRefused(s, o, ow)
  BY <1>1, QuietServes DEF Hold, UpdateRefused
<1>2. CASE UpdateAccepted(s, o, ow)
  <2>1. PICK t \in {AtLeastMin(x) : x \in TimeOptions(o)} :
          \/ t.distance > 0 /\ TimeToDistance(s, t, ow)
          \/ /\ s \in TimeSessions
             /\ SaveSession(s, t) /\ FollowPlan(UpdateMultiplex(s, t))
             /\ t.distance = 0
          \/ EraseSession(s) /\ \E cs : MakeCalls(cs)
          \/ KeepSessions /\ \E cs : MakeCalls(cs)
    BY <1>2 DEF UpdateAccepted
  <2>2. t \in Options
    BY TimeOptionsType, AtLeastMinType
  <2>3. CASE t.distance > 0 /\ TimeToDistance(s, t, ow)
    <3>1. timeSess' = TimeErased(s)
      BY <2>3 DEF TimeToDistance, IsDistance
    <3>2. mode' = StopMultiplex(s).mode
      BY <2>3, StopMultiplexType DEF TimeToDistance, FollowPlan, Plans
    <3> QED  BY <3>1, <3>2, StopMultiplexServes, ErasedServes
  <2>4. CASE /\ s \in TimeSessions
             /\ SaveSession(s, t) /\ FollowPlan(UpdateMultiplex(s, t))
             /\ t.distance = 0
    <3>1. timeSess' = [timeSess EXCEPT ![s] = t]
      BY <2>4 DEF SaveSession, TimeSaved, IsDistance
    <3> DEFINE md == UpdateMultiplex(s, t).mode.interval
    <3>2. md <= t.interval /\ Serves(md, TimeSessions \ {s})
      BY <2>2, <2>4, UpdateMultiplexServes
    <3>3. mode'.interval = md
      BY <2>4, FollowedMode
    <3> QED
      <4> HIDE DEF md
      <4> QED  BY <2>2, <3>1, <3>2, <3>3, PutServes
  <2>5. CASE EraseSession(s) /\ \E cs : MakeCalls(cs)
    BY <2>5, SessionErasedServes DEF MakeCalls
  <2>6. CASE KeepSessions /\ \E cs : MakeCalls(cs)
    BY <2>6, QuietServes
  <2> QED  BY <2>1, <2>3, <2>4, <2>5, <2>6
<1> QED  BY <1>1, <1>2 DEF UpdateTracking

LEMMA StopTrackingServes ==
  ASSUME TypeInv, ModeServes, NEW s \in Sessions, NEW ow, StopTracking(s, ow)
  PROVE  ModeServes'
BY StoppedServes, QuietServes DEF StopTracking

\* Only the answer to an update can bring options back that the mode does not
\* serve, and only when it reports a failure.
LEMMA AnswerServes ==
  ASSUME DistanceSupported, TypeInv, ModeServes, NEW m \in UpdatesSucceed, Answer(m)
  PROVE  ModeServes'
<1>1. /\ m.sess \in Sessions /\ m.arg \in Options
      /\ m.cb = "updated" => m.ok
      /\ m.cb = "distRestarted" => m.arg.distance > 0
  BY DEF Answer, UpdatesSucceed, SoundMsgs, Msgs
<1>2. CASE KeepSessions /\ (NoPlan \/ \E cs : MakeCalls(cs))
  BY <1>2, QuietServes
<1>3. CASE EraseSession(m.sess) /\ NoPlan
  BY <1>1, <1>3, SessionErasedServes DEF NoPlan
<1>4. CASE /\ SaveSession(m.sess, m.arg)
           /\ FollowPlan(StartMultiplex(m.sess, m.arg))
  BY <1>1, <1>4, StartedServes
<1>5. CASE /\ m.cb = "distRestarted" /\ SaveSession(m.sess, m.arg)
           /\ NoPlan
  <2>1. timeSess' = timeSess /\ mode' = mode
    BY <1>1, <1>5 DEF SaveSession, TimeSaved, IsDistance, NoPlan
  <2> QED  BY <2>1, KeptServes
<1> QED  BY <1>1, <1>2, <1>3, <1>4, <1>5 DEF Answer

-----------------------------------------------------------------------------
(***************************************************************************)
(* Steps.                                                                  *)
(***************************************************************************)
LEMMA AdapterServes ==
  ASSUME DistanceSupported, ModeInv, Request \/ AdapterStep
  PROVE  ModeServes'
<1> USE DEF ModeInv
<1>1. ASSUME NEW c \in Clients, AddClient(c) \/ RemoveClient(c) PROVE ModeServes'
  BY <1>1, KeptServes DEF AddClient, RemoveClient
<1>2. ASSUME NEW s \in Sessions, NEW o \in Opts,
             StartCommand(s, o) \/ UpdateCommand(s, o)
      PROVE  ModeServes'
  BY <1>2, OptsAssumption, StartTrackingServes, UpdateTrackingServes
     DEF StartCommand, UpdateCommand
<1>3. ASSUME NEW s \in Sessions, StopCommand(s) PROVE ModeServes'
  BY <1>3, StopTrackingServes DEF StopCommand
<1>4. CASE Reconfigure \/ UpdateNHz \/ HandleEngineUp
  BY <1>4, KeptServes
     DEF Reconfigure, UpdateNHz, HandleEngineUp, RestartSpe, KeepSessions
<1>5. CASE HandleAnswer
  <2>1. Head(msgs) \in UpdatesSucceed
    BY <1>5, SeqOps DEF HandleAnswer
  <2> QED  BY <1>5, <2>1, AnswerServes DEF HandleAnswer
<1>6. CASE HandleReplay
  <2>1. Head(msgs) \in SoundMsgs
    BY <1>6, SeqOps DEF HandleReplay, TypeInv, Queues
  <2>2. Head(msgs).sess \in Sessions /\ Head(msgs).arg \in Options
    BY <1>6, <2>1 DEF HandleReplay, SoundMsgs, Msgs
  <2> QED
    BY <1>6, <2>2, StartTrackingServes, UpdateTrackingServes DEF HandleReplay
<1>7. ASSUME NEW s \in Sessions, StopNextOfClient(s) PROVE ModeServes'
  BY <1>7, StoppedServes DEF StopNextOfClient
<1>8. CASE FinishRemoval
  <2>1. timeSess' = timeSess /\ mode' = mode
    BY <1>8 DEF FinishRemoval, MakeCalls
  <2> QED  BY <2>1, KeptServes
<1> QED
  BY <1>1, <1>2, <1>3, <1>4, <1>5, <1>6, <1>7, <1>8 DEF Request, AdapterStep

\* The adapter leaves the modem alone and posts only what was held.
LEMMA AdapterReady ==
  ASSUME ModeInv, Request \/ AdapterStep
  PROVE  TypeInv' /\ msgs' \in Seq(UpdatesSucceed) /\ ModemReady'
<1>1. TypeInv' /\ Grown
  BY RequestTypes, RestartTypes, MessageTypes, RemovalTypes
     DEF ModeInv, Request, AdapterStep, TypedStep
<1>2. msgs' \in Seq(UpdatesSucceed)
  <2>1. CASE HandleEngineUp
    <3>1. \A m \in HeldMsgs : m \in UpdatesSucceed
      BY DEF HeldMsgs, UpdatesSucceed
    <3>2. pending \in Seq(UpdatesSucceed) /\ Tail(msgs) \in Seq(UpdatesSucceed)
      BY <2>1, <3>1, SeqWiden, SeqOps DEF HandleEngineUp, ModeInv, TypeInv, Queues
    <3> QED  BY <2>1, <3>2, SeqOps DEF HandleEngineUp
  <2>2. CASE HandleAnswer \/ HandleReplay
    BY <2>2, SeqOps DEF HandleAnswer, HandleReplay, ModeInv
  <2>3. CASE UNCHANGED msgs
    BY <2>3 DEF ModeInv
  <2> QED
    BY <2>1, <2>2, <2>3
       DEF Request, AdapterStep, AddClient, RemoveClient, StartCommand, UpdateCommand,
           StopCommand, Reconfigure, UpdateNHz, StopNextOfClient, FinishRemoval
<1>3. modemUp' = modemUp
  BY DEF Request, AdapterStep, AddClient, RemoveClient, StartCommand, UpdateCommand,
         StopCommand, Reconfigure, UpdateNHz, StopNextOfClient, FinishRemoval,
         HandleEngineUp, HandleAnswer, HandleReplay, modemVars
<1>4. ModemReady'
  <2>1. PICK cs \in Seq(SoundCalls) : calls' = calls \o cs
    BY <1>1 DEF Grown
  <2>2. calls # <<>> => calls' # <<>> /\ Head(calls') = Head(calls)
    BY <2>1 DEF ModeInv, TypeInv, Queues
  <2> QED  BY <1>3, <2>2 DEF ModeInv, ModemReady
<1> QED  BY <1>1, <1>2, <1>4

\* A modem that is up and refuses nothing answers every update with success.
LEMMA ModemReadyKept ==
  ASSUME ~MayFail, MaxSsr = 0, DistanceSupported, ModeInv,
         ModemCall \/ ModemOpen \/ ModemDown
  PROVE  ModeInv'
<1>1. TypeInv'
  BY ModemTypes DEF ModeInv
<1>2. ModeServes'
  BY KeptServes DEF ModeInv, ModemCall, ModemOpen, ModemDown, adapterVars
<1>3. ~ModemDown
  BY DEF ModemDown, ModeInv, TypeInv, TypeOK
<1>4. ModemReady'
  <2>1. CASE ModemCall
    BY <2>1 DEF ModemCall, ModeInv, ModemReady
  <2>2. CASE ModemOpen
    BY <2>2 DEF ModemOpen, ModemReady
  <2> QED  BY <1>3, <2>1, <2>2
<1>5. msgs' \in Seq(UpdatesSucceed)
  <2>1. CASE ModemCall
    <3> DEFINE c == Head(calls)
    <3>1. c \in SoundCalls /\ Possible(c)
      BY <2>1, SeqOps DEF ModemCall, ModeInv, TypeInv, Queues, ModemReady, Possible
    <3>2. Post(c, TRUE)
      BY <2>1, <3>1 DEF ModemCall
    <3>3. c.cb # "none" =>
            [cb |-> c.cb, sess |-> c.sess, arg |-> c.arg, ok |-> TRUE] \in UpdatesSucceed
      <4> HIDE DEF c
      <4> QED  BY <3>1 DEF SoundCalls, Calls, UpdatesSucceed, SoundMsgs, Msgs
    <3> HIDE DEF c
    <3> QED  BY <3>2, <3>3, SeqOps DEF Post, ModeInv
  <2>2. CASE ModemOpen
    <3>1. [cb |-> "engineUp", sess |-> 0, arg |-> NoOptions, ok |-> TRUE]
            \in UpdatesSucceed
      BY NoOptionsType DEF UpdatesSucceed, SoundMsgs, Msgs
    <3> QED  BY <2>2, <3>1, SeqOps DEF ModemOpen, ModeInv
  <2> QED  BY <1>3, <2>1, <2>2
<1> QED  BY <1>1, <1>2, <1>4, <1>5 DEF ModeInv

\* Whatever the clients ask and in whatever order answers, restarts by the
\* adapter and removals of clients come: the engine hub is always told an
\* interval at most as long as that of every time based session.
THEOREM GnssModeServes ==
  ASSUME ~MayFail, MaxSsr = 0, DistanceSupported
  PROVE  Spec => []ModeServes
<1>1. Init => ModeInv
  <2> SUFFICES ASSUME Init PROVE ModeInv
    OBVIOUS
  <2>1. TypeInv
    BY InitTypes
  <2>2. ModeServes
    BY DEF Init, ModeServes, TimeSessions, Listed, NoOptions
  <2>3. ModemReady
    BY DEF Init, ModemReady, OpenCall, Call
  <2>4. msgs \in Seq(UpdatesSucceed)
    BY SeqOps DEF Init
  <2> QED  BY <2>1, <2>2, <2>3, <2>4 DEF ModeInv
<1>2. ModeInv /\ [Next]_vars => ModeInv'
  <2> SUFFICES ASSUME ModeInv, [Next]_vars PROVE ModeInv'
    OBVIOUS
  <2>1. CASE Request \/ AdapterStep
    BY <2>1, AdapterServes, AdapterReady DEF ModeInv
  <2>2. CASE LocApiStep \/ ModemDown
    BY <2>2, ModemReadyKept DEF LocApiStep
  <2>3. CASE UNCHANGED vars
    <3>1. TypeInv'
      BY <2>3 DEF ModeInv, vars, adapterVars, modemVars, TypeInv, TypeOK, Queues
    <3> QED
      BY <2>3, <3>1, KeptServes DEF ModeInv, vars, adapterVars, modemVars, ModemReady
  <2> QED  BY <2>1, <2>2, <2>3 DEF Next
<1>3. ModeInv => ModeServes
  BY DEF ModeInv
<1> QED  BY <1>1, <1>2, <1>3, PTL DEF Spec

-----------------------------------------------------------------------------
(***************************************************************************)
(* The modem itself.                                                       *)
(***************************************************************************)
\* The options a call leaves in the modem, and the last call that sets them.
Effect(c) == IF c.op = "startTime" THEN c.opts ELSE NoOptions
LastTime(cs, i) ==
  /\ i \in DOMAIN cs /\ cs[i].op \in TimeOps
  /\ \A j \in DOMAIN cs : j > i => cs[j].op \notin TimeOps

\* What the modem will run once it has executed cs.
Final(cs, e) ==
  IF \E i \in DOMAIN cs : LastTime(cs, i)
  THEN Effect(cs[CHOOSE i \in DOMAIN cs : LastTime(cs, i)]) ELSE e
Foreseen == Final(calls, engine)

Runs(e, interval) == e.size # 0 /\ e.interval <= interval
Fits(e) ==
  /\ \A t \in TimeSessions : Runs(e, timeSess[t].interval)
  /\ speFast => Runs(e, MinInterval)

\* The modem is up, and the adapter knows it.
Settling == modemUp /\ \A k \in DOMAIN msgs : msgs[k].cb # "engineUp"

Raised(o) == o.size # 0 /\ MinInterval <= o.interval
RaisedCalls == {c \in SoundCalls : c.cb \in {"toTime", "updated"} => Raised(c.arg)}
RaisedMsgs == {m \in SoundMsgs : m.cb \in {"toTime", "updated"} => Raised(m.arg)}
HeldGood == {m \in HeldMsgs : m.ok}

RaisedTable == \A t \in TimeSessions : MinInterval <= timeSess[t].interval
Raising == RaisedTable /\ calls \in Seq(RaisedCalls) /\ msgs \in Seq(RaisedMsgs)

\* A failure is followed by the restart that makes up for it.
FailuresFirst ==
  \A j \in DOMAIN msgs : ~msgs[j].ok =>
    ~modemUp \/ \E k \in DOMAIN msgs : k > j /\ msgs[k].cb = "engineUp"

Reopens == modemUp \/ \E i \in DOMAIN calls : calls[i].op = "open"

EngineInv ==
  /\ TypeInv /\ Raising /\ pending \in Seq(HeldGood)
  /\ speFast => nHz
  /\ Reopens /\ FailuresFirst
  /\ Settling => Fits(Foreseen)

-----------------------------------------------------------------------------
(***************************************************************************)
(* What a queue of calls leaves behind.                                    *)
(***************************************************************************)
LEMMA LastTimeExists ==
  ASSUME NEW S, NEW cs \in Seq(S), NEW i \in DOMAIN cs, cs[i].op \in TimeOps
  PROVE  \E j \in DOMAIN cs : LastTime(cs, j)
<1> DEFINE T == {j \in DOMAIN cs : cs[j].op \in TimeOps}
           D == {Len(cs) - j : j \in T}
<1>1. D \subseteq Nat /\ D # {}
  OBVIOUS
<1>2. PICK d \in D : \A x \in D : d <= x
  <2> HIDE DEF D
  <2> QED  BY <1>1, LeastNatural
<1>3. PICK j \in T : d = Len(cs) - j
  OBVIOUS
<1>4. ASSUME NEW k \in DOMAIN cs, k > j PROVE cs[k].op \notin TimeOps
  <2>1. SUFFICES ASSUME k \in T PROVE FALSE
    OBVIOUS
  <2>2. d <= Len(cs) - k
    BY <1>2, <2>1
  <2> QED  BY <1>3, <1>4, <2>2
<1> QED  BY <1>3, <1>4 DEF LastTime

LEMMA FinalIs ==
  ASSUME NEW S, NEW cs \in Seq(S), NEW e, NEW i, LastTime(cs, i)
  PROVE  Final(cs, e) = Effect(cs[i])
<1>1. i \in DOMAIN cs /\ \A j \in DOMAIN cs : j > i => ~LastTime(cs, j)
  BY DEF LastTime
<1>2. \A j \in DOMAIN cs : LastTime(cs, j) => j = i
  <2> SUFFICES ASSUME NEW j \in DOMAIN cs, LastTime(cs, j) PROVE j = i
    OBVIOUS
  <2>1. ~(i > j) /\ ~(j > i)
    BY <1>1 DEF LastTime
  <2>2. i \in Nat /\ j \in Nat
    BY <1>1
  <2> QED  BY <2>1, <2>2
<1> DEFINE l == CHOOSE j \in DOMAIN cs : LastTime(cs, j)
<1>3. l = i
  <2>1. l \in DOMAIN cs /\ LastTime(cs, l)
    BY <1>1
  <2> QED  BY <1>2, <2>1
<1>4. Final(cs, e) = Effect(cs[l])
  BY <1>1 DEF Final
<1> QED  BY <1>3, <1>4

\* Calls that leave the time based session alone.
LEMMA FinalSame ==
  ASSUME NEW S, NEW cs \in Seq(S), NEW e, \A i \in DOMAIN cs : cs[i].op \notin TimeOps
  PROVE  Final(cs, e) = e
BY DEF Final, LastTime

LEMMA FinalNone ==
  ASSUME NEW e
  PROVE  Final(<<>>, e) = e
BY DEF Final, LastTime

LEMMA FinalOne ==
  ASSUME NEW c, NEW e
  PROVE  Final(<<c>>, e) = IF c.op \in TimeOps THEN Effect(c) ELSE e
<1>1. <<c>> \in Seq({c}) /\ DOMAIN <<c>> = {1} /\ <<c>>[1] = c
  OBVIOUS
<1>2. CASE c.op \in TimeOps
  <2>1. LastTime(<<c>>, 1)
    BY <1>1, <1>2 DEF LastTime
  <2> QED  BY <1>1, <1>2, <2>1, FinalIs
<1>3. CASE c.op \notin TimeOps
  BY <1>1, <1>3, FinalSame
<1> QED  BY <1>2, <1>3

\* The calls of q follow those of p.
LEMMA FinalThen ==
  ASSUME NEW S, NEW p \in Seq(S), NEW q \in Seq(S), NEW e
  PROVE  Final(p \o q, e) = Final(q, Final(p, e))
<1>1. p \o q \in Seq(S)
  OBVIOUS
<1>2. CASE \E i \in DOMAIN q : q[i].op \in TimeOps
  <2>1. PICK i \in DOMAIN q : LastTime(q, i)
    BY <1>2, LastTimeExists
  <2>2. /\ Len(p) + i \in DOMAIN (p \o q)
        /\ (p \o q)[Len(p) + i] = q[i]
        /\ \A j \in DOMAIN (p \o q) :
             j > Len(p) + i => j - Len(p) \in DOMAIN q /\ (p \o q)[j] = q[j - Len(p)]
    BY <2>1
  <2>3. LastTime(p \o q, Len(p) + i)
    BY <2>1, <2>2 DEF LastTime
  <2>4. Final(p \o q, e) = Effect((p \o q)[Len(p) + i])
    BY <1>1, <2>3, FinalIs
  <2>5. Final(q, Final(p, e)) = Effect(q[i])
    BY <2>1, FinalIs
  <2> QED  BY <2>2, <2>4, <2>5
<1>3. CASE \A i \in DOMAIN q : q[i].op \notin TimeOps
  <2>1. Final(q, Final(p, e)) = Final(p, e)
    BY <1>3, FinalSame
  <2>2. /\ \A j \in DOMAIN p : j \in DOMAIN (p \o q) /\ (p \o q)[j] = p[j]
        /\ \A j \in DOMAIN (p \o q) :
             j \notin DOMAIN p => (p \o q)[j].op \notin TimeOps
    <3>1. \A j \in DOMAIN (p \o q) : j \notin DOMAIN p =>
            j - Len(p) \in DOMAIN q /\ (p \o q)[j] = q[j - Len(p)]
      OBVIOUS
    <3> QED  BY <1>3, <3>1
  <2>3. CASE \E i \in DOMAIN p : p[i].op \in TimeOps
    <3>1. PICK i \in DOMAIN p : LastTime(p, i)
      BY <2>3, LastTimeExists
    <3>2. LastTime(p \o q, i)
      BY <2>2, <3>1 DEF LastTime
    <3>3. Final(p \o q, e) = Effect((p \o q)[i])
      BY <1>1, <3>2, FinalIs
    <3>4. Final(p, e) = Effect(p[i])
      BY <3>1, FinalIs
    <3> QED  BY <2>1, <2>2, <3>3, <3>4
  <2>4. CASE \A i \in DOMAIN p : p[i].op \notin TimeOps
    <3>1. \A j \in DOMAIN (p \o q) : (p \o q)[j].op \notin TimeOps
      BY <2>2, <2>4
    <3> QED  BY <1>1, <2>1, <2>4, <3>1, FinalSame
  <2> QED  BY <2>3, <2>4
<1> QED  BY <1>2, <1>3

-----------------------------------------------------------------------------
(***************************************************************************)
(* What a plan leaves in the modem: it serves the sessions of S that it    *)
(* leaves alone, and the options O that are to be saved.                   *)
(***************************************************************************)
Outcome(p) == Final(p.calls, Foreseen)

PlanFits(p, S, O) ==
  /\ p.calls \in Seq(RaisedCalls)
  /\ p.speFast => nHz
  /\ Fits(Foreseen) =>
       /\ \A t \in S : Runs(Outcome(p), timeSess[t].interval)
       /\ \A o \in O : Runs(Outcome(p), o.interval)
       /\ p.speFast => Runs(Outcome(p), MinInterval)

\* The time based sessions after a step: those of S, and some saved with O.
After(S, O) ==
  \A t \in TimeSessions' : \/ t \in S /\ timeSess'[t] = timeSess[t]
                           \/ timeSess'[t] \in O

\* What every handler keeps.
Kept ==
  /\ RaisedTable' /\ calls' \in Seq(RaisedCalls)
  /\ speFast' => nHz'
  /\ Fits(Foreseen) => Fits(Foreseen)'

Fine == TypeInv /\ Raising /\ (speFast => nHz)

LEMMA RunsLess ==
  ASSUME NEW e \in Options, NEW i \in Nat, NEW j \in Nat, Runs(e, i), i <= j
  PROVE  Runs(e, j)
BY DEF Runs, Options

LEMMA FinalType ==
  ASSUME NEW cs \in Seq(SoundCalls), NEW e \in Options
  PROVE  Final(cs, e) \in Options
<1>1. CASE \E i \in DOMAIN cs : cs[i].op \in TimeOps
  <2>1. PICK i \in DOMAIN cs : LastTime(cs, i)
    BY <1>1, LastTimeExists
  <2>2. cs[i] \in SoundCalls /\ Final(cs, e) = Effect(cs[i])
    BY <2>1, FinalIs
  <2> QED  BY <2>2, NoOptionsType DEF Effect, SoundCalls, Calls
<1>2. CASE \A i \in DOMAIN cs : cs[i].op \notin TimeOps
  BY <1>2, FinalSame
<1> QED  BY <1>1, <1>2

LEMMA ForeseenType ==
  ASSUME TypeInv
  PROVE  Foreseen \in Options
BY FinalType DEF Foreseen, TypeInv, TypeOK, Queues

\* A session of the table, in the terms of the lemmas below.
LEMMA ListedRaised ==
  ASSUME Fine, NEW t \in TimeSessions
  PROVE  /\ t \in Sessions /\ timeSess[t] \in Options
         /\ Raised(timeSess[t]) /\ timeSess[t].interval \in Nat
BY SessionsListed
   DEF Fine, TypeInv, Raising, RaisedTable, Raised, TimeSessions, Listed, Options

LEMMA PlanFollowed ==
  ASSUME Fine, NEW p, NEW S, NEW O, S \subseteq TimeSessions,
         \A o \in O : Raised(o), PlanFits(p, S, O), After(S, O),
         calls' = calls \o p.calls, speFast' = p.speFast, nHz' = nHz,
         engine' = engine
  PROVE  Kept
<1>1. RaisedTable'
  BY DEF After, RaisedTable, Raised, Fine, Raising
<1>2. calls' \in Seq(RaisedCalls)
  BY SeqOps DEF PlanFits, Fine, Raising
<1>3. Foreseen' = Outcome(p)
  <2>1. p.calls \in Seq(RaisedCalls) /\ calls \in Seq(RaisedCalls)
    BY DEF PlanFits, Fine, Raising
  <2> QED  BY <2>1, FinalThen DEF Foreseen, Outcome
<1>4. Fits(Foreseen) => Fits(Foreseen)'
  BY <1>3 DEF PlanFits, After, Fits
<1> QED  BY <1>1, <1>2, <1>4 DEF Kept, PlanFits

LEMMA NoCallFits ==
  ASSUME Fine, NEW S, NEW O, S \subseteq TimeSessions, O \subseteq Options,
         \A o \in O : \E t \in TimeSessions : timeSess[t].interval <= o.interval
  PROVE  PlanFits(NoCall, S, O)
<1>1. NoCall.calls = <<>> /\ NoCall.speFast = speFast
  BY DEF NoCall, Plan
<1>2. Outcome(NoCall) = Foreseen
  BY <1>1, FinalNone DEF Outcome
<1>3. ASSUME Fits(Foreseen), NEW o \in O PROVE Runs(Foreseen, o.interval)
  <2>1. PICK t \in TimeSessions : timeSess[t].interval <= o.interval
    OBVIOUS
  <2>2. o.interval \in Nat /\ timeSess[t].interval \in Nat /\ Foreseen \in Options
    BY ListedRaised, ForeseenType DEF Options, Fine
  <2> QED  BY <1>3, <2>1, <2>2, RunsLess DEF Fits
<1> QED  BY <1>1, <1>2, <1>3, SeqOps DEF PlanFits, Fits, Fine

\* The call for options o, or the session that already runs fast enough.
LEMMA StartSpeFits ==
  ASSUME Fine, NEW s \in Sessions, NEW o \in Options, Raised(o),
         NEW cb \in {"started", "updated"}, NEW arg \in Options,
         cb = "updated" => Raised(arg),
         NEW S, S \subseteq TimeSessions, NEW O, O \subseteq Options,
         \A t \in S : o.interval <= timeSess[t].interval,
         \A x \in O : o.interval <= x.interval
  PROVE  PlanFits(StartSpe(s, o, cb, arg), S, O)
<1> DEFINE p == StartSpe(s, o, cb, arg)
           call == Call("startTime", s, SpeOptions(o), cb, arg)
           skip == nHz /\ speFast
<1>1. /\ p.calls = IF skip THEN <<>> ELSE <<call>>
      /\ p.speFast = (speFast \/ RaisedForNHz(o))
  BY DEF StartSpe, Plan
<1>2. call \in RaisedCalls
  <2>1. call \in SoundCalls
    BY CallType, SpeOptionsType DEF TimeOps, Callbacks, DistanceOps, Sess
  <2>2. call.cb = cb /\ call.arg = arg
    BY DEF Call
  <2> HIDE DEF call
  <2> QED  BY <2>1, <2>2 DEF RaisedCalls
<1>3. p.calls \in Seq(RaisedCalls)
  <2> HIDE DEF call
  <2> QED  BY <1>1, <1>2, SeqOps
<1>4. p.speFast => nHz
  BY <1>1 DEF Fine, RaisedForNHz
<1>5. ASSUME Fits(Foreseen)
      PROVE  /\ Outcome(p) \in Options
             /\ Runs(Outcome(p), o.interval)
             /\ p.speFast => Runs(Outcome(p), MinInterval)
  <2>1. o.interval \in Nat /\ MinInterval \in Nat /\ MinInterval <= o.interval
    BY IntervalType DEF Options, Raised
  <2>2. CASE skip
    <3>1. Outcome(p) = Foreseen
      BY <1>1, <2>2, FinalNone DEF Outcome
    <3> QED  BY <1>5, <2>1, <2>2, <3>1, ForeseenType, RunsLess DEF Fits, Fine
  <2>3. CASE ~skip
    <3>1. Outcome(p) = SpeOptions(o)
      <4>1. Final(<<call>>, Foreseen) = IF call.op \in TimeOps THEN Effect(call) ELSE Foreseen
        BY FinalOne
      <4>2. call.op = "startTime" /\ call.opts = SpeOptions(o)
        BY DEF Call
      <4> HIDE DEF call
      <4> QED  BY <1>1, <2>3, <4>1, <4>2 DEF Outcome, Effect, TimeOps
    <3>2. /\ SpeOptions(o).size = o.size
          /\ SpeOptions(o).interval = IF RaisedForNHz(o) THEN MinInterval ELSE o.interval
      BY DEF SpeOptions, Options
    <3>3. p.speFast => RaisedForNHz(o)
      BY <1>1, <2>3 DEF Fine
    <3> QED
      BY <2>1, <3>1, <3>2, <3>3, SpeOptionsType DEF Runs, Raised, RaisedForNHz
  <2> QED  BY <2>2, <2>3
<1>6. ASSUME Fits(Foreseen)
      PROVE  /\ \A t \in S : Runs(Outcome(p), timeSess[t].interval)
             /\ \A x \in O : Runs(Outcome(p), x.interval)
  <2> HIDE DEF p
  <2>1. /\ \A t \in S : timeSess[t].interval \in Nat
        /\ \A x \in O : x.interval \in Nat
        /\ o.interval \in Nat
    BY ListedRaised DEF Options
  <2> QED  BY <1>5, <1>6, <2>1, RunsLess
<1> QED  BY <1>3, <1>4, <1>5, <1>6 DEF PlanFits

\* Lowered options are those of a listed session, not below the minimum.
LEMMA LoweredRaised ==
  ASSUME Fine, NEW S, S \subseteq TimeSessions, S # {}, NEW o \in Options, Raised(o)
  PROVE  Lowered(S, o) \in Options /\ Raised(Lowered(S, o))
<1>1. PICK f \in S : Fastest(timeSess, S) = timeSess[f]
  BY SessionsListed, IntervalsNatural, FastestIsLeast DEF TypeInv, Fine
<1>2. Lowered(S, o).size = timeSess[f].size
  BY <1>1, ListedRaised DEF Lowered, Options
<1>3. Lowered(S, o).interval =
        IF o.interval < timeSess[f].interval THEN o.interval ELSE timeSess[f].interval
  BY <1>1, ListedRaised DEF Lowered, Options
<1> QED  BY <1>2, <1>3, LoweredType, ListedRaised DEF Raised, Fine

LEMMA StartMultiplexFits ==
  ASSUME Fine, NEW s \in Sessions, NEW o \in Options, Raised(o)
  PROVE  PlanFits(StartMultiplex(s, o), TimeSessions, {o})
<1> USE DEF Fine
<1>1. CASE TimeSessions = {}
  <2>1. PlanFits(StartSpe(s, o, "started", NoOptions), TimeSessions, {o})
    BY <1>1, StartSpeFits, NoOptionsType DEF Options
  <2> QED  BY <1>1, <2>1 DEF StartMultiplex
<1>2. CASE TimeSessions # {} /\ Asks(TimeSessions, o)
  <2> DEFINE l == Lowered(TimeSessions, o)
  <2>1. l \in Options /\ Raised(l)
    BY <1>2, LoweredRaised
  <2>2. l.interval <= o.interval /\ \A t \in TimeSessions : l.interval <= timeSess[t].interval
    BY <1>2, LoweredServes DEF Serves
  <2>3. PlanFits(StartSpe(s, l, "started", NoOptions), TimeSessions, {o})
    <3> HIDE DEF l
    <3> QED  BY <2>1, <2>2, StartSpeFits, NoOptionsType
  <2> QED  BY <1>2, <2>3 DEF StartMultiplex
<1>3. CASE TimeSessions # {} /\ ~Asks(TimeSessions, o)
  <2>1. \E t \in TimeSessions : timeSess[t].interval <= o.interval
    BY <1>3, NotAskedFastest
  <2> QED  BY <1>3, <2>1, NoCallFits DEF StartMultiplex
<1> QED  BY <1>1, <1>2, <1>3

LEMMA UpdateMultiplexFits ==
  ASSUME Fine, NEW s \in TimeSessions, NEW o \in Options, Raised(o)
  PROVE  PlanFits(UpdateMultiplex(s, o), TimeSessions \ {s}, {o})
<1> USE DEF Fine
<1> DEFINE others == TimeSessions \ {s}
           old == timeSess[s]
           same == old.interval = o.interval /\ old.power = o.power
<1>1. s \in Sessions /\ old \in Options /\ Raised(old)
  BY ListedRaised
<1>2. CASE same
  BY <1>1, <1>2, NoCallFits DEF UpdateMultiplex, Options
<1>3. CASE ~same /\ others = {}
  <2>1. PlanFits(StartSpe(s, o, "updated", old), others, {o})
    <3> HIDE DEF old
    <3> QED  BY <1>1, <1>3, StartSpeFits DEF Options
  <2> QED  BY <1>3, <2>1 DEF UpdateMultiplex
<1>4. CASE ~same /\ others # {} /\ Asks(others, o)
  <2> DEFINE l == Lowered(others, o)
  <2>1. l \in Options /\ Raised(l)
    BY <1>4, LoweredRaised
  <2>2. l.interval <= o.interval /\ \A t \in others : l.interval <= timeSess[t].interval
    BY <1>4, LoweredServes DEF Serves
  <2>3. PlanFits(StartSpe(s, l, "updated", old), others, {o})
    <3> HIDE DEF l, old
    <3> QED  BY <1>1, <2>1, <2>2, StartSpeFits
  <2> QED  BY <1>4, <2>3 DEF UpdateMultiplex
<1>5. CASE ~same /\ others # {} /\ ~Asks(others, o)
  <2>1. \E t \in others : timeSess[t].interval <= o.interval
    BY <1>5, NotAskedFastest
  <2> QED  BY <1>5, <2>1, NoCallFits DEF UpdateMultiplex
<1> QED  BY <1>2, <1>3, <1>4, <1>5

LEMMA StopMultiplexFits ==
  ASSUME Fine, NEW s \in Sessions
  PROVE  PlanFits(StopMultiplex(s), TimeSessions \ {s}, {})
<1> USE DEF Fine
<1> DEFINE others == TimeSessions \ {s}
           base == Fastest(timeSess, others)
           o == [base EXCEPT !.power = MuxPower(timeSess, others)]
<1>1. CASE others = {}
  <2>1. StopSpe(s).calls \in Seq(RaisedCalls)
    <3> DEFINE c == Call("stopFix", s, NoOptions, "stopped", NoOptions)
    <3>1. c \in SoundCalls /\ c.cb = "stopped"
      BY CallType, NoOptionsType DEF TimeOps, Callbacks, DistanceOps, Sess, Call
    <3>2. StopSpe(s).calls = <<c>>
      BY DEF StopSpe, Plan
    <3> HIDE DEF c
    <3> QED  BY <3>1, <3>2, SeqOps DEF RaisedCalls
  <2>2. ~StopSpe(s).speFast
    BY DEF StopSpe, Plan
  <2> QED  BY <1>1, <2>1, <2>2 DEF StopMultiplex, PlanFits
<1>2. CASE others # {} /\ Asks(others, timeSess[s])
  <2>1. PICK f \in others : /\ base = timeSess[f]
                            /\ \A t \in others : timeSess[f].interval <= timeSess[t].interval
    BY <1>2, SessionsListed, IntervalsNatural, FastestIsLeast DEF TypeInv
  <2>2. MuxPower(timeSess, others) \in PowerModes
    BY MultiplexTypes
  <2>3. base \in Options /\ Raised(base)
    BY <2>1, ListedRaised
  <2>4. /\ o \in Options /\ Raised(o)
        /\ \A t \in others : o.interval <= timeSess[t].interval
    <3>1. \A t \in others : base.interval <= timeSess[t].interval
      BY <2>1
    <3> HIDE DEF base
    <3> QED  BY <2>2, <2>3, <3>1 DEF Options, Raised
  <2>5. PlanFits(StartSpe(s, o, "started", NoOptions), others, {})
    <3> HIDE DEF o
    <3> QED  BY <2>4, StartSpeFits, NoOptionsType
  <2> QED  BY <1>2, <2>5 DEF StopMultiplex
<1>3. CASE others # {} /\ ~Asks(others, timeSess[s])
  BY <1>3, NoCallFits DEF StopMultiplex
<1> QED  BY <1>1, <1>2, <1>3

-----------------------------------------------------------------------------
(***************************************************************************)
(* Handlers.                                                               *)
(***************************************************************************)
Elsewhere == nHz' = nHz /\ engine' = engine

LEMMA TablesAfter ==
  ASSUME TypeInv, NEW s \in Sessions, NEW o \in Options
  PROVE  /\ timeSess' = timeSess => After(TimeSessions, {})
         /\ timeSess' = TimeErased(s) => After(TimeSessions \ {s}, {})
         /\ timeSess' = [timeSess EXCEPT ![s] = o] => After(TimeSessions \ {s}, {o})
         /\ timeSess' = TimeErased(s) => After(TimeSessions, {})
         /\ SaveSession(s, o) => After(TimeSessions, {o})
<1> USE DEF TypeInv, TypeOK, After, TimeSessions, Listed, NoOptions
<1>1. timeSess' = timeSess => After(TimeSessions, {o}) /\ After(TimeSessions, {})
  OBVIOUS
<1>2. timeSess' = [timeSess EXCEPT ![s] = o] =>
        After(TimeSessions, {o}) /\ After(TimeSessions \ {s}, {o})
  OBVIOUS
<1>3. timeSess' = TimeErased(s) =>
        After(TimeSessions, {}) /\ After(TimeSessions \ {s}, {})
  BY DEF TimeErased
<1>4. SaveSession(s, o) =>
        timeSess' = timeSess \/ timeSess' = [timeSess EXCEPT ![s] = o]
  BY DEF SaveSession, TimeSaved
<1> QED  BY <1>1, <1>2, <1>3, <1>4

\* Calls that leave the time based session alone.
DistanceCalls == {c \in RaisedCalls : c.op \notin TimeOps}

LEMMA QuietKept ==
  ASSUME Fine, Elsewhere, After(TimeSessions, {}), NEW cs \in Seq(DistanceCalls),
         calls' = calls \o cs, speFast' = speFast
  PROVE  Kept
<1> DEFINE p == [calls |-> cs, speFast |-> speFast]
<1>1. cs \in Seq(RaisedCalls)
  BY SeqWiden DEF DistanceCalls
<1>2. Outcome(p) = Foreseen
  <2>1. \A i \in DOMAIN cs : cs[i].op \notin TimeOps
    BY DEF DistanceCalls
  <2> QED  BY <2>1, FinalSame DEF Outcome
<1>3. PlanFits(p, TimeSessions, {})
  BY <1>1, <1>2 DEF PlanFits, Fits, Fine
<1> QED  BY <1>3, PlanFollowed DEF Elsewhere

LEMMA NoPlanKept ==
  ASSUME Fine, Elsewhere, After(TimeSessions, {}), NoPlan
  PROVE  Kept
<1>1. calls' = calls \o <<>> /\ <<>> \in Seq(DistanceCalls)
  BY SeqOps DEF NoPlan, Fine, TypeInv, Queues
<1> QED  BY <1>1, QuietKept DEF NoPlan

LEMMA MakeCallKept ==
  ASSUME Fine, Elsewhere, After(TimeSessions, {}), NEW op \in DistanceOps,
         NEW s \in Sessions, NEW o \in Options, NEW cb \in Callbacks \ {"updated"},
         NEW arg \in Options, cb = "toTime" => Raised(arg),
         cb \in {"distStop", "distRestarted"} => arg.distance > 0,
         MakeCalls(<<Call(op, s, o, cb, arg)>>)
  PROVE  Kept
<1> DEFINE c == Call(op, s, o, cb, arg)
<1>1. c \in SoundCalls
  BY CallType DEF Sess
<1>2. c \in DistanceCalls
  <2>1. c.op = op /\ c.cb = cb /\ c.arg = arg
    BY DEF Call
  <2> HIDE DEF c
  <2> QED  BY <1>1, <2>1 DEF DistanceCalls, RaisedCalls, DistanceOps, TimeOps
<1>3. <<c>> \in Seq(DistanceCalls)
  <2> HIDE DEF c
  <2> QED  BY <1>2, SeqOps
<1>4. calls' = calls \o <<c>> /\ speFast' = speFast
  BY DEF MakeCalls
<1> HIDE DEF c
<1> QED  BY <1>3, <1>4, QuietKept

\* Options as a handler saves them.
LEMMA RaisedOptions ==
  ASSUME NEW o \in Options, o.size # 0
  PROVE  /\ Raised(AtLeastMin(o))
         /\ \A t \in TimeOptions(AtLeastMin(o)) : Raised(t)
         /\ \A t \in {AtLeastMin(x) : x \in TimeOptions(o)} : Raised(t)
<1>1. ASSUME NEW x \in Options, x.size # 0 PROVE Raised(AtLeastMin(x))
  BY <1>1, IntervalType DEF AtLeastMin, Options, Raised
<1>2. Raised(AtLeastMin(o)) /\ AtLeastMin(o) \in Options
  BY <1>1, AtLeastMinType
<1>3. ASSUME NEW t \in TimeOptions(AtLeastMin(o)) PROVE Raised(t)
  <2>1. t.interval = AtLeastMin(o).interval /\ t.size = AtLeastMin(o).size
    <3> DEFINE a == AtLeastMin(o)
    <3>1. a \in Options /\ t \in TimeOptions(a)
      BY <1>2
    <3> HIDE DEF a
    <3>2. t.interval = a.interval /\ t.size = a.size
      BY <3>1 DEF TimeOptions, Options
    <3> QED  BY <3>2 DEF a
  <2> QED  BY <1>2, <2>1 DEF Raised
<1> QED  BY <1>1, <1>2, <1>3, TimeOptionsType

LEMMA StartedKept ==
  ASSUME Fine, Elsewhere, NEW s \in Sessions, NEW o \in Options, Raised(o),
         SaveSession(s, o), FollowPlan(StartMultiplex(s, o))
  PROVE  Kept
<1>1. After(TimeSessions, {o})
  BY TablesAfter DEF Fine
<1>2. PlanFits(StartMultiplex(s, o), TimeSessions, {o})
  BY StartMultiplexFits
<1> QED  BY <1>1, <1>2, PlanFollowed DEF FollowPlan, Elsewhere

LEMMA StoppedKept ==
  ASSUME Fine, Elsewhere, NEW s \in Sessions,
         EraseSession(s), FollowPlan(StopMultiplex(s))
  PROVE  Kept
<1>1. After(TimeSessions \ {s}, {})
  BY TablesAfter, NoOptionsType DEF EraseSession, Fine
<1>2. PlanFits(StopMultiplex(s), TimeSessions \ {s}, {})
  BY StopMultiplexFits
<1> QED  BY <1>1, <1>2, PlanFollowed DEF FollowPlan, Elsewhere

LEMMA StartTrackingKept ==
  ASSUME DistanceSupported, Fine, Elsewhere, NEW s \in Sessions, NEW o \in Options,
         NEW ow, StartTracking(s, o, ow)
  PROVE  Kept
<1>1. CASE Hold("start", s, o, ow) \/ StartRefused(s, o, ow)
  BY <1>1, TablesAfter, NoPlanKept DEF Hold, StartRefused, KeepSessions, Fine
<1>2. CASE StartAccepted(s, o, ow)
  <2> DEFINE a == AtLeastMin(o)
             c == Call("startDist", s, a, "distStarted", NoOptions)
  <2>1. /\ o.size # 0 /\ a \in Options /\ a.distance = o.distance
        /\ \A t \in TimeOptions(a) : Raised(t)
    BY <1>2, AtLeastMinType, RaisedOptions DEF StartAccepted
  <2>2. CASE IsDistance(o) /\ SaveSession(s, a) /\ MakeCalls(<<c>>)
    <3>1. timeSess' = timeSess
      <4> HIDE DEF a
      <4> QED  BY <2>1, <2>2 DEF IsDistance, SaveSession, TimeSaved
    <3>2. After(TimeSessions, {})
      BY <2>1, <3>1, TablesAfter DEF Fine
    <3> HIDE DEF a
    <3> QED
      BY <2>1, <2>2, <3>2, MakeCallKept, NoOptionsType DEF DistanceOps, Callbacks
  <2>3. CASE \E t \in TimeOptions(a) : /\ SaveSession(s, t)
                                      /\ FollowPlan(StartMultiplex(s, t))
    <3> HIDE DEF a
    <3> QED  BY <2>1, <2>3, TimeOptionsType, StartedKept
  <2> QED  BY <1>2, <2>2, <2>3 DEF StartAccepted
<1> QED  BY <1>1, <1>2 DEF StartTracking

LEMMA TimeToDistanceKept ==
  ASSUME DistanceSupported, Fine, Elsewhere, NEW s \in Sessions, NEW o \in Options,
         o.distance > 0, NEW ow, TimeToDistance(s, o, ow)
  PROVE  Kept
<1> DEFINE p == StopMultiplex(s)
           c == Call("startDist", s, o, "none", NoOptions)
           q == [p EXCEPT !.calls = Append(@, c)]
<1>1. After(TimeSessions \ {s}, {})
  BY TablesAfter DEF TimeToDistance, IsDistance, Fine
<1>2. p \in Plans /\ PlanFits(p, TimeSessions \ {s}, {})
  BY StopMultiplexType, StopMultiplexFits DEF Fine
<1>3. c \in RaisedCalls /\ c.op \notin TimeOps
  <2>1. c \in SoundCalls
    BY CallType, NoOptionsType DEF DistanceOps, Callbacks, TimeOps, Sess
  <2>2. c.op = "startDist" /\ c.cb = "none"
    BY DEF Call
  <2> HIDE DEF c
  <2> QED  BY <2>1, <2>2 DEF RaisedCalls, TimeOps
<1>4. /\ q.calls = p.calls \o <<c>> /\ q.speFast = p.speFast
      /\ q.calls \in Seq(RaisedCalls)
  <2>1. p.calls \in Seq(RaisedCalls)
    BY <1>2 DEF PlanFits
  <2> HIDE DEF p, c
  <2> QED  BY <1>2, <1>3, <2>1 DEF Plans
<1>5. Outcome(q) = Outcome(p)
  <2> HIDE DEF c
  <2> DEFINE d == <<c>>
  <2>1. p.calls \in Seq(RaisedCalls) /\ d \in Seq(RaisedCalls)
    BY <1>2, <1>3 DEF PlanFits
  <2>2. Final(p.calls \o d, Foreseen) = Final(d, Final(p.calls, Foreseen))
    <3> HIDE DEF p, d
    <3> QED  BY <2>1, FinalThen
  <2>3. Final(<<c>>, Final(p.calls, Foreseen)) = Final(p.calls, Foreseen)
    BY <1>3, FinalOne
  <2> QED  BY <1>4, <2>2, <2>3 DEF Outcome
<1>6. PlanFits(q, TimeSessions \ {s}, {})
  BY <1>2, <1>4, <1>5 DEF PlanFits
<1>7. FollowPlan(q)
  BY DEF TimeToDistance
<1> HIDE DEF q
<1> QED  BY <1>1, <1>6, <1>7, PlanFollowed DEF FollowPlan, Elsewhere

LEMMA UpdateTrackingKept ==
  ASSUME DistanceSupported, Fine, Elsewhere, NEW s \in Sessions, NEW o \in Options,
         NEW ow, UpdateTracking(s, o, ow)
  PROVE  Kept
<1>1. CASE Hold("update", s, o, ow) \/ UpdateRefused(s, o, ow)
  BY <1>1, TablesAfter, NoPlanKept DEF Hold, UpdateRefused, KeepSessions, Fine
<1>2. CASE UpdateAccepted(s, o, ow)
  <2>1. PICK t \in {AtLeastMin(x) : x \in TimeOptions(o)} :
          \/ t.distance > 0 /\ TimeToDistance(s, t, ow)
          \/ /\ s \in TimeSessions
             /\ SaveSession(s, t) /\ FollowPlan(UpdateMultiplex(s, t))
             /\ t.distance = 0
          \/ /\ EraseSession(s)
             /\ MakeCalls(<<Call("stopDist", s, NoOptions, "toTime", t)>>)
          \/ /\ t.distance > 0 /\ KeepSessions
             /\ MakeCalls(<<Call("stopDist", s, NoOptions, "distStop", t)>>)
    BY <1>2 DEF UpdateAccepted
  <2>2. t \in Options /\ Raised(t)
    BY <1>2, TimeOptionsType, AtLeastMinType, RaisedOptions DEF UpdateAccepted
  <2>3. CASE t.distance > 0 /\ TimeToDistance(s, t, ow)
    BY <2>2, <2>3, TimeToDistanceKept
  <2>4. CASE /\ s \in TimeSessions
             /\ SaveSession(s, t) /\ FollowPlan(UpdateMultiplex(s, t))
             /\ t.distance = 0
    <3>1. timeSess' = [timeSess EXCEPT ![s] = t]
      BY <2>4 DEF SaveSession, TimeSaved, IsDistance
    <3>2. After(TimeSessions \ {s}, {t})
      BY <2>2, <3>1, TablesAfter DEF Fine
    <3>3. PlanFits(UpdateMultiplex(s, t), TimeSessions \ {s}, {t})
      BY <2>2, <2>4, UpdateMultiplexFits
    <3> QED  BY <2>2, <2>4, <3>2, <3>3, PlanFollowed DEF FollowPlan, Elsewhere
  <2>5. CASE /\ EraseSession(s)
             /\ MakeCalls(<<Call("stopDist", s, NoOptions, "toTime", t)>>)
    <3>1. After(TimeSessions, {})
      BY <2>5, TablesAfter, NoOptionsType DEF EraseSession, Fine
    <3> QED
      BY <2>2, <2>5, <3>1, MakeCallKept, NoOptionsType DEF DistanceOps, Callbacks
  <2>6. CASE /\ t.distance > 0 /\ KeepSessions
             /\ MakeCalls(<<Call("stopDist", s, NoOptions, "distStop", t)>>)
    <3>1. After(TimeSessions, {})
      BY <2>6, TablesAfter, NoOptionsType DEF KeepSessions, Fine
    <3> QED
      BY <2>2, <2>6, <3>1, MakeCallKept, NoOptionsType DEF DistanceOps, Callbacks
  <2> QED  BY <2>1, <2>3, <2>4, <2>5, <2>6
<1> QED  BY <1>1, <1>2 DEF UpdateTracking

LEMMA StopTrackingKept ==
  ASSUME Fine, Elsewhere, NEW s \in Sessions, NEW ow, StopTracking(s, ow)
  PROVE  Kept
<1>1. CASE EraseSession(s) /\ FollowPlan(StopMultiplex(s))
  BY <1>1, StoppedKept
<1>2. CASE /\ KeepSessions
           /\ MakeCalls(<<Call("stopDist", s, NoOptions, "distStopped", NoOptions)>>)
  <2>1. After(TimeSessions, {})
    BY <1>2, TablesAfter, NoOptionsType DEF KeepSessions, Fine
  <2> QED  BY <1>2, <2>1, MakeCallKept, NoOptionsType DEF DistanceOps, Callbacks
<1>3. CASE KeepSessions /\ NoPlan
  BY <1>3, TablesAfter, NoPlanKept, NoOptionsType DEF KeepSessions, Fine
<1> QED  BY <1>1, <1>2, <1>3 DEF StopTracking

\* Only a refused update brings options back that the modem does not serve.
LEMMA AnswerKept ==
  ASSUME DistanceSupported, Fine, Elsewhere, NEW m \in RaisedMsgs, Answer(m)
  PROVE  /\ RaisedTable' /\ calls' \in Seq(RaisedCalls)
         /\ speFast' => nHz'
         /\ m.ok => Kept
<1>1. /\ m.sess \in Sessions /\ m.arg \in Options
      /\ m.cb \in {"toTime", "updated"} => Raised(m.arg)
      /\ m.cb \in {"distStop", "distRestarted"} => m.arg.distance > 0
  BY DEF Answer, RaisedMsgs, SoundMsgs, Msgs
<1>2. SUFFICES \/ Kept
               \/ /\ ~m.ok /\ RaisedTable' /\ calls' \in Seq(RaisedCalls)
                  /\ speFast' => nHz'
  BY DEF Kept
<1>3. CASE KeepSessions /\ NoPlan
  BY <1>1, <1>3, TablesAfter, NoPlanKept DEF KeepSessions, Fine
<1>4. CASE EraseSession(m.sess) /\ NoPlan
  BY <1>1, <1>4, TablesAfter, NoPlanKept DEF EraseSession, Fine
<1>5. CASE /\ m.cb = "updated" /\ ~m.ok /\ SaveSession(m.sess, m.arg) /\ NoPlan
  <2>1. After(TimeSessions, {m.arg})
    BY <1>1, <1>5, TablesAfter DEF Fine
  <2>2. RaisedTable'
    BY <1>1, <1>5, <2>1 DEF RaisedTable, After, Raised, Fine, Raising
  <2> QED  BY <1>5, <2>2 DEF NoPlan, Elsewhere, Fine, Raising
<1>6. CASE /\ m.cb = "toTime" /\ SaveSession(m.sess, m.arg)
           /\ FollowPlan(StartMultiplex(m.sess, m.arg))
  BY <1>1, <1>6, StartedKept
<1>7. CASE /\ m.cb = "distStop" /\ KeepSessions
           /\ MakeCalls(<<Call("startDist", m.sess, m.arg, "distRestarted", m.arg)>>)
  <2>1. After(TimeSessions, {})
    BY <1>1, <1>7, TablesAfter DEF KeepSessions, Fine
  <2> QED  BY <1>1, <1>7, <2>1, MakeCallKept DEF DistanceOps, Callbacks
<1>8. CASE /\ m.cb = "distRestarted" /\ SaveSession(m.sess, m.arg) /\ NoPlan
  <2>1. timeSess' = timeSess
    BY <1>1, <1>8 DEF SaveSession, TimeSaved, IsDistance
  <2> QED  BY <1>1, <1>8, <2>1, TablesAfter, NoPlanKept DEF Fine
<1> QED  BY <1>3, <1>4, <1>5, <1>6, <1>7, <1>8 DEF Answer

\* A restart leaves options in the modem that serve every listed session,
\* whatever it did before.
LEMMA RestartFits ==
  ASSUME Fine, NEW before \in Seq(RaisedCalls), RestartSpe(before, nHz'),
         nHz' \in BOOLEAN, engine' = engine
  PROVE  Kept /\ Fits(Foreseen)'
<1> DEFINE S == TimeSessions
           n == nHz'
           base == Fastest(timeSess, S)
           o == [base EXCEPT !.power = RestartPower(timeSess, S)]
           o2 == [o EXCEPT !.interval = IF n /\ @ > MinInterval THEN MinInterval ELSE @]
           call == Call("startTime", 0, o2, "none", NoOptions)
           rt == RestartTime(n)
<1>1. /\ timeSess' = timeSess /\ TimeSessions' = TimeSessions
      /\ speFast' = (n /\ S # {} /\ base.interval > MinInterval)
  BY DEF RestartSpe, KeepSessions, TimeSessions, Listed
<1>2. PICK q \in InOrder(DistSessions) :
        calls' = calls \o before \o rt \o RestartDistance(q)
  BY DEF RestartSpe
<1>3. /\ RestartDistance(q) \in Seq(RaisedCalls)
      /\ \A i \in DOMAIN RestartDistance(q) : RestartDistance(q)[i].op \notin TimeOps
  <2>1. Cardinality(DistSessions) \in Nat /\ DistSessions \subseteq Sessions
    BY SessionsListed, SessionsFinite DEF TypeInv, Fine
  <2>2. q \in [1 .. Cardinality(DistSessions) -> DistSessions]
    BY <1>2 DEF InOrder
  <2>3. ASSUME NEW s \in DistSessions
        PROVE  Call("startDist", s, distSess[s], "none", NoOptions) \in DistanceCalls
    <3> DEFINE c == Call("startDist", s, distSess[s], "none", NoOptions)
    <3>1. c \in SoundCalls
      BY <2>1, SessionsListed, CallType, NoOptionsType
         DEF TypeInv, Fine, DistanceOps, Callbacks, Sess, TimeOps
    <3>2. c.op = "startDist" /\ c.cb = "none"
      BY DEF Call
    <3>3. c \in DistanceCalls
      <4> HIDE DEF c
      <4> QED  BY <3>1, <3>2 DEF DistanceCalls, RaisedCalls, TimeOps
    <3> QED  BY <3>3
  <2>4. \A i \in DOMAIN q :
          RestartDistance(q)[i] \in RaisedCalls /\ RestartDistance(q)[i].op \notin TimeOps
    BY <2>2, <2>3 DEF RestartDistance, DistanceCalls
  <2>5. RestartDistance(q) \in [1 .. Cardinality(DistSessions) -> RaisedCalls]
    BY <2>2, <2>4 DEF RestartDistance
  <2>6. DOMAIN RestartDistance(q) = DOMAIN q
    BY DEF RestartDistance
  <2> QED  BY <2>1, <2>4, <2>5, <2>6
<1>4. CASE S = {}
  <2>1. rt = <<>>
    BY <1>4 DEF RestartTime
  <2>2. calls' \in Seq(RaisedCalls)
    BY <1>2, <1>3, <2>1, SeqOps DEF Fine, Raising
  <2> QED  BY <1>1, <1>4, <2>2 DEF Kept, Fits, RaisedTable
<1>5. CASE S # {}
  <2>1. PICK f \in S : /\ base = timeSess[f]
                       /\ \A t \in S : timeSess[f].interval <= timeSess[t].interval
    BY <1>5, SessionsListed, IntervalsNatural, FastestIsLeast DEF TypeInv, Fine
  <2>2. base \in Options /\ Raised(base)
    BY <2>1, ListedRaised
  <2>3. RestartPower(timeSess, S) \in PowerModes
    <3>1. S \subseteq Nat /\ \A s \in S : timeSess[s].power \in PowerModes
      BY SessionsListed DEF TypeInv, Fine, Options
    <3> QED  BY <1>5, <3>1, RestartPowerType
  <2>4. /\ o \in Options /\ o.size = base.size /\ o.interval = base.interval
    <3> HIDE DEF base
    <3> QED  BY <2>2, <2>3 DEF Options
  <2>5. /\ o2 \in Options /\ o2.size # 0
        /\ o2.interval = IF n /\ base.interval > MinInterval
                         THEN MinInterval ELSE base.interval
    <3> HIDE DEF o, base
    <3> QED  BY <2>2, <2>4, IntervalType DEF Options, Raised
  <2>6. call \in RaisedCalls /\ call.op = "startTime" /\ call.opts = o2
    <3>1. call \in SoundCalls
      <4> HIDE DEF o2
      <4> QED  BY <2>5, CallType, NoOptionsType DEF TimeOps, Callbacks, Sess, DistanceOps
    <3>2. call.op = "startTime" /\ call.cb = "none" /\ call.opts = o2
      BY DEF Call
    <3> HIDE DEF call
    <3> QED  BY <3>1, <3>2 DEF RaisedCalls
  <2>7. rt = <<call>>
    BY <1>5 DEF RestartTime
  <2>8. rt \in Seq(RaisedCalls) /\ calls \o before \in Seq(RaisedCalls)
    <3> HIDE DEF call, rt
    <3> QED  BY <2>6, <2>7, SeqOps DEF Fine, Raising
  <2>9. calls' \in Seq(RaisedCalls)
    <3> HIDE DEF rt
    <3> QED  BY <1>2, <1>3, <2>8, SeqOps
  <2>10. Foreseen' = o2
    <3> DEFINE first == calls \o before
               upto == first \o rt
               tail == RestartDistance(q)
    <3>1. /\ first \in Seq(RaisedCalls) /\ rt \in Seq(RaisedCalls)
          /\ upto \in Seq(RaisedCalls) /\ tail \in Seq(RaisedCalls)
      BY <1>3, <2>8, SeqOps
    <3>2. Final(upto \o tail, engine) = Final(tail, Final(upto, engine))
      <4> HIDE DEF upto, tail
      <4> QED  BY <3>1, FinalThen
    <3>3. Final(tail, Final(upto, engine)) = Final(upto, engine)
      BY <1>3, FinalSame
    <3>4. Final(first \o rt, engine) = Final(rt, Final(first, engine))
      <4> HIDE DEF first, rt
      <4> QED  BY <3>1, FinalThen
    <3>5. Final(rt, Final(first, engine)) = o2
      <4>1. Final(<<call>>, Final(first, engine)) = Effect(call)
        <5> HIDE DEF call
        <5> QED  BY <2>6, FinalOne DEF TimeOps
      <4>2. Effect(call) = o2
        <5> HIDE DEF call
        <5> QED  BY <2>6 DEF Effect
      <4> QED  BY <2>7, <4>1, <4>2
    <3>6. calls' = upto \o tail
      BY <1>2
    <3> HIDE DEF first, rt, tail, o2
    <3> QED  BY <3>2, <3>3, <3>4, <3>5, <3>6 DEF Foreseen
  <2>11. \A t \in S : Runs(o2, timeSess[t].interval)
    <3>1. o2.interval <= base.interval
      <4> HIDE DEF o2, base
      <4> QED  BY <2>2, <2>5, IntervalType DEF Options
    <3>2. \A t \in S : base.interval <= timeSess[t].interval
      BY <2>1
    <3>3. base.interval \in Nat /\ o2.interval \in Nat
      <4> HIDE DEF o2, base
      <4> QED  BY <2>2, <2>5 DEF Options
    <3>4. \A t \in S : timeSess[t].interval \in Nat
      BY ListedRaised
    <3> HIDE DEF o2, base
    <3> QED  BY <2>5, <3>1, <3>2, <3>3, <3>4 DEF Runs
  <2>12. ASSUME speFast' PROVE n /\ Runs(o2, MinInterval)
    <3>1. n /\ base.interval > MinInterval
      BY <1>1, <2>12
    <3>2. o2.size # 0 /\ o2.interval = MinInterval
      <4> HIDE DEF o2, base
      <4> QED  BY <2>5, <3>1
    <3> HIDE DEF o2
    <3> QED  BY <3>1, <3>2, IntervalType DEF Runs
  <2> HIDE DEF o2
  <2> QED  BY <1>1, <2>9, <2>10, <2>11, <2>12 DEF Kept, Fits, RaisedTable, Fine, Raising
<1> QED  BY <1>4, <1>5

-----------------------------------------------------------------------------
(***************************************************************************)
(* Steps.                                                                  *)
(***************************************************************************)
\* What an adapter step does to the queue of messages: the handled message
\* leaves, and what comes instead is good.
LEMMA MessagesLeft ==
  ASSUME EngineInv, UNCHANGED modemUp, NEW q \in Seq(HeldGood),
         msgs' = msgs \/ (msgs # <<>> /\ msgs' = Tail(msgs) \o q)
  PROVE  /\ msgs' \in Seq(RaisedMsgs) /\ FailuresFirst'
         /\ Settling' /\ (msgs' = msgs \/ Head(msgs).cb # "engineUp") => Settling
<1> USE DEF EngineInv, Raising
<1>1. CASE msgs' = msgs
  BY <1>1 DEF FailuresFirst, Settling
<1>2. CASE msgs # <<>> /\ msgs' = Tail(msgs) \o q
  <2>1. q \in Seq(RaisedMsgs) /\ \A i \in DOMAIN q : q[i].ok
    BY SeqWiden DEF HeldGood, HeldMsgs, RaisedMsgs
  <2>2. msgs' \in Seq(RaisedMsgs) /\ Len(msgs) \in Nat /\ Len(msgs) > 0
    BY <1>2, <2>1, SeqOps
  <2>3. /\ \A j \in DOMAIN msgs :
             j > 1 => j - 1 \in DOMAIN msgs' /\ msgs'[j - 1] = msgs[j]
        /\ \A j \in DOMAIN msgs' :
             \/ j + 1 \in DOMAIN msgs /\ msgs'[j] = msgs[j + 1]
             \/ j - (Len(msgs) - 1) \in DOMAIN q /\ msgs'[j] = q[j - (Len(msgs) - 1)]
    BY <1>2, <2>1, <2>2
  <2>4. FailuresFirst'
    <3> SUFFICES ASSUME NEW j \in DOMAIN msgs', ~msgs'[j].ok, modemUp
                 PROVE  \E k \in DOMAIN msgs' : k > j /\ msgs'[k].cb = "engineUp"
      BY DEF FailuresFirst
    <3>1. j + 1 \in DOMAIN msgs /\ ~msgs[j + 1].ok
      BY <2>1, <2>3
    <3>2. PICK k \in DOMAIN msgs : k > j + 1 /\ msgs[k].cb = "engineUp"
      BY <3>1 DEF FailuresFirst
    <3>3. k \in Nat /\ j \in Nat /\ j > 0
      BY <2>2, <3>2
    <3>4. k - 1 \in DOMAIN msgs' /\ msgs'[k - 1] = msgs[k] /\ k - 1 > j
      BY <2>3, <3>2, <3>3
    <3> QED  BY <3>2, <3>4
  <2>5. ASSUME Settling', Head(msgs).cb # "engineUp" PROVE Settling
    <3> SUFFICES ASSUME NEW j \in DOMAIN msgs PROVE msgs[j].cb # "engineUp"
      BY <2>5 DEF Settling
    <3>1. CASE j = 1
      BY <2>5, <3>1
    <3>2. CASE j # 1
      <4>1. j \in Nat /\ j > 1
        BY <3>2
      <4>2. j - 1 \in DOMAIN msgs' /\ msgs'[j - 1] = msgs[j]
        BY <2>3, <4>1
      <4> QED  BY <2>5, <4>2 DEF Settling
    <3> QED  BY <3>1, <3>2
  <2>6. CASE Head(msgs).cb = "engineUp"
    <3> SUFFICES ASSUME msgs' = msgs, Settling' PROVE Settling
      BY <2>2, <2>4, <2>6
    <3> QED  BY DEF Settling
  <2> QED  BY <2>2, <2>4, <2>5, <2>6
<1> QED  BY <1>1, <1>2

\* No failure is under way when the modem has settled.
LEMMA SettledSucceeds ==
  ASSUME EngineInv, Settling, NEW j \in DOMAIN msgs
  PROVE  msgs[j].ok
BY DEF EngineInv, Settling, FailuresFirst

LEMMA AdapterLeavesModem ==
  ASSUME Request \/ AdapterStep
  PROVE  UNCHANGED modemVars
BY DEF Request, AdapterStep, AddClient, RemoveClient, StartCommand, UpdateCommand,
       StopCommand, Reconfigure, UpdateNHz, StopNextOfClient, FinishRemoval,
       HandleEngineUp, HandleAnswer, HandleReplay

LEMMA AdapterReopens ==
  ASSUME EngineInv, Request \/ AdapterStep
  PROVE  TypeInv' /\ Reopens'
<1>1. TypeInv' /\ Grown
  BY RequestTypes, RestartTypes, MessageTypes, RemovalTypes
     DEF EngineInv, Request, AdapterStep, TypedStep
<1>2. modemUp' = modemUp
  BY AdapterLeavesModem DEF modemVars
<1>3. PICK cs \in Seq(SoundCalls) : calls' = calls \o cs
  BY <1>1 DEF Grown
<1>4. \A i \in DOMAIN calls : i \in DOMAIN calls' /\ calls'[i] = calls[i]
  BY <1>3 DEF EngineInv, TypeInv, Queues
<1> QED  BY <1>1, <1>2, <1>4 DEF EngineInv, Reopens

\* What a step that touches no message but keeps the rest keeps.
LEMMA KeptEngine ==
  ASSUME EngineInv, TypeInv', Reopens', Kept, UNCHANGED modemUp,
         UNCHANGED msgs, pending' \in Seq(HeldGood)
  PROVE  EngineInv'
<1>1. FailuresFirst' /\ (Settling' => Settling)
  BY DEF EngineInv, FailuresFirst, Settling
<1> QED  BY <1>1 DEF EngineInv, Kept, Raising

LEMMA HeldKept ==
  ASSUME EngineInv, NEW s \in Sessions, NEW o \in Options, NEW ow,
         NEW kind \in {"start", "update"},
         Hold(kind, s, o, ow) \/ UNCHANGED pending
  PROVE  pending' \in Seq(HeldGood)
<1>1. CASE Hold(kind, s, o, ow)
  <2>1. [cb |-> kind, sess |-> s, arg |-> o, ok |-> TRUE] \in HeldGood
    BY DEF HeldGood, HeldMsgs, SoundMsgs, Msgs
  <2> QED  BY <1>1, <2>1, SeqOps DEF Hold, EngineInv
<1>2. CASE UNCHANGED pending
  BY <1>2 DEF EngineInv
<1> QED  BY <1>1, <1>2

LEMMA RequestEngine ==
  ASSUME DistanceSupported, EngineInv, Request
  PROVE  EngineInv'
<1>1. /\ TypeInv' /\ Reopens' /\ Fine /\ TypeInv
      /\ UNCHANGED <<modemUp, engine>>
  BY AdapterReopens, AdapterLeavesModem DEF EngineInv, Fine, modemVars
<1>2. SUFFICES Kept /\ UNCHANGED msgs /\ pending' \in Seq(HeldGood)
  BY <1>1, KeptEngine
<1>3. UNCHANGED msgs
  BY DEF Request, AddClient, RemoveClient, StartCommand, UpdateCommand, StopCommand,
         Reconfigure, UpdateNHz
<1>4. pending \in Seq(HeldGood)
  BY DEF EngineInv
<1>5. ASSUME NEW c \in Clients, AddClient(c) \/ RemoveClient(c)
      PROVE  Kept /\ pending' \in Seq(HeldGood)
  BY <1>1, <1>4, <1>5 DEF AddClient, RemoveClient, Kept, Fine, Raising, RaisedTable,
     Fits, Foreseen, TimeSessions, Listed
<1>6. ASSUME NEW s \in Sessions, NEW o \in Opts, StartCommand(s, o)
      PROVE  Kept /\ pending' \in Seq(HeldGood)
  <2>1. StartTracking(s, o, Asked(s)) /\ Elsewhere /\ o \in Options
    BY <1>1, <1>6, OptsAssumption DEF StartCommand, Elsewhere
  <2>2. Hold("start", s, o, Asked(s)) \/ UNCHANGED pending
    BY <2>1 DEF StartTracking, StartRefused, StartAccepted
  <2> QED  BY <1>1, <2>1, <2>2, HeldKept, StartTrackingKept
<1>7. ASSUME NEW s \in Sessions, NEW o \in Opts, UpdateCommand(s, o)
      PROVE  Kept /\ pending' \in Seq(HeldGood)
  <2>1. UpdateTracking(s, o, Asked(s)) /\ Elsewhere /\ o \in Options
    BY <1>1, <1>7, OptsAssumption DEF UpdateCommand, Elsewhere
  <2>2. Hold("update", s, o, Asked(s)) \/ UNCHANGED pending
    BY <2>1 DEF UpdateTracking, UpdateRefused, UpdateAccepted
  <2> QED  BY <1>1, <2>1, <2>2, HeldKept, UpdateTrackingKept
<1>8. ASSUME NEW s \in Sessions, StopCommand(s)
      PROVE  Kept /\ pending' \in Seq(HeldGood)
  BY <1>1, <1>4, <1>8, StopTrackingKept DEF StopCommand, Elsewhere
<1>9. CASE Reconfigure
  <2> DEFINE stop == Call("stopFix", 0, NoOptions, "none", NoOptions)
             before == IF TimeSessions = {} THEN <<>> ELSE <<stop>>
  <2>1. stop \in RaisedCalls
    <3>1. stop \in SoundCalls
      BY CallType, NoOptionsType DEF TimeOps, Callbacks, Sess, DistanceOps
    <3>2. stop.cb = "none"
      BY DEF Call
    <3> HIDE DEF stop
    <3> QED  BY <3>1, <3>2 DEF RaisedCalls
  <2>2. before \in Seq(RaisedCalls)
    <3> HIDE DEF stop
    <3> QED  BY <2>1, SeqOps
  <2>3. RestartSpe(before, nHz') /\ nHz' \in BOOLEAN
    BY <1>1, <1>9 DEF Reconfigure, TypeInv, TypeOK
  <2>4. Kept
    <3> HIDE DEF before
    <3> QED  BY <1>1, <2>2, <2>3, RestartFits
  <2> QED  BY <1>4, <1>9, <2>4 DEF Reconfigure
<1>10. CASE UpdateNHz
  BY <1>1, <1>4, <1>10, RestartFits, SeqOps DEF UpdateNHz, TypeInv, TypeOK
<1> QED  BY <1>3, <1>5, <1>6, <1>7, <1>8, <1>9, <1>10 DEF Request

LEMMA AdapterEngine ==
  ASSUME DistanceSupported, EngineInv, AdapterStep
  PROVE  EngineInv'
<1>1. /\ TypeInv' /\ Reopens' /\ Fine /\ TypeInv
      /\ UNCHANGED <<modemUp, engine>>
  BY AdapterReopens, AdapterLeavesModem DEF EngineInv, Fine, modemVars
<1>2. pending \in Seq(HeldGood) /\ <<>> \in Seq(HeldGood)
  BY SeqOps DEF EngineInv
<1>3. msgs # <<>> => /\ Tail(msgs) = Tail(msgs) \o <<>> /\ Head(msgs) \in RaisedMsgs
                     /\ Head(msgs) = msgs[1] /\ 1 \in DOMAIN msgs
  BY DEF EngineInv, Raising
<1>4. CASE HandleAnswer
  <2> DEFINE m == Head(msgs)
  <2>1. Answer(m) /\ m \in RaisedMsgs /\ Elsewhere /\ m.cb # "engineUp"
    BY <1>1, <1>3, <1>4 DEF HandleAnswer, Elsewhere, Answer
  <2>2. /\ msgs' \in Seq(RaisedMsgs) /\ FailuresFirst' /\ (Settling' => Settling)
    BY <1>1, <1>2, <1>3, <1>4, <2>1, MessagesLeft DEF HandleAnswer
  <2>3. /\ RaisedTable' /\ calls' \in Seq(RaisedCalls) /\ (speFast' => nHz')
        /\ m.ok => Kept
    BY <1>1, <2>1, AnswerKept
  <2>4. Settling => m.ok
    BY <1>3, <1>4, SettledSucceeds DEF HandleAnswer
  <2>5. Settling' => Fits(Foreseen)'
    BY <2>2, <2>3, <2>4 DEF Kept, EngineInv
  <2> QED
    BY <1>1, <1>2, <1>4, <2>2, <2>3, <2>5 DEF HandleAnswer, EngineInv, Raising
<1>5. CASE HandleReplay
  <2> DEFINE m == Head(msgs)
  <2>1. m \in RaisedMsgs /\ m.cb \in {"start", "update"} /\ msgs # <<>>
    BY <1>3, <1>5 DEF HandleReplay
  <2>2. m.sess \in Sessions /\ m.arg \in Options
    <3> HIDE DEF m
    <3> QED  BY <2>1 DEF RaisedMsgs, SoundMsgs, Msgs
  <2>3. StartTracking(m.sess, m.arg, owed) \/ UpdateTracking(m.sess, m.arg, owed)
    BY <1>5 DEF HandleReplay
  <2>4. Kept
    BY <1>1, <1>5, <2>2, <2>3, StartTrackingKept, UpdateTrackingKept
       DEF HandleReplay, Elsewhere
  <2>5. pending' \in Seq(HeldGood)
    <3>1. \/ \E kind \in {"start", "update"} : Hold(kind, m.sess, m.arg, owed)
          \/ UNCHANGED pending
      BY <2>3 DEF StartTracking, StartRefused, StartAccepted, UpdateTracking,
                  UpdateRefused, UpdateAccepted
    <3> HIDE DEF m
    <3> QED  BY <2>2, <3>1, HeldKept
  <2>6. /\ msgs' \in Seq(RaisedMsgs) /\ FailuresFirst' /\ (Settling' => Settling)
    BY <1>1, <1>2, <1>3, <1>5, <2>1, MessagesLeft DEF HandleReplay
  <2> QED  BY <1>1, <2>4, <2>5, <2>6 DEF EngineInv, Kept, Raising
<1>6. CASE HandleEngineUp
  <2>1. Kept /\ Fits(Foreseen)'
    BY <1>1, <1>6, RestartFits, SeqOps DEF HandleEngineUp, TypeInv, TypeOK
  <2>2. msgs' \in Seq(RaisedMsgs) /\ FailuresFirst'
    BY <1>1, <1>2, <1>6, MessagesLeft DEF HandleEngineUp
  <2> QED  BY <1>1, <1>2, <1>6, <2>1, <2>2 DEF HandleEngineUp, EngineInv, Kept, Raising
<1>7. ASSUME NEW s \in Sessions, StopNextOfClient(s) PROVE EngineInv'
  BY <1>1, <1>2, <1>7, StoppedKept, KeptEngine DEF StopNextOfClient, Elsewhere
<1>8. CASE FinishRemoval
  <2>1. PICK q \in InOrder(OfClient(DistSessions)) :
          MakeCalls([i \in DOMAIN q |->
            Call("stopDist", q[i], NoOptions, "clientDistStopped", NoOptions)])
    BY <1>8 DEF FinishRemoval
  <2> DEFINE S == OfClient(DistSessions)
             cs == [i \in DOMAIN q |->
                     Call("stopDist", q[i], NoOptions, "clientDistStopped", NoOptions)]
  <2>2. S \subseteq Sessions /\ Cardinality(S) \in Nat
    BY <1>1, SessionsListed, SessionsFinite DEF TypeInv, OfClient
  <2>3. q \in [1 .. Cardinality(S) -> S]
    BY DEF InOrder
  <2>4. ASSUME NEW s \in S
        PROVE  Call("stopDist", s, NoOptions, "clientDistStopped", NoOptions)
                 \in DistanceCalls
    <3> DEFINE c == Call("stopDist", s, NoOptions, "clientDistStopped", NoOptions)
    <3>1. c \in SoundCalls
      BY <2>2, CallType, NoOptionsType DEF DistanceOps, Callbacks, Sess, TimeOps
    <3>2. c.op = "stopDist" /\ c.cb = "clientDistStopped"
      BY DEF Call
    <3>3. c \in DistanceCalls
      <4> HIDE DEF c
      <4> QED  BY <3>1, <3>2 DEF DistanceCalls, RaisedCalls, TimeOps
    <3> QED  BY <3>3
  <2>5. cs \in [1 .. Cardinality(S) -> DistanceCalls]
    <3> HIDE DEF S
    <3> QED  BY <2>3, <2>4
  <2>6. cs \in Seq(DistanceCalls) /\ calls' = calls \o cs /\ speFast' = speFast
    BY <2>1, <2>2, <2>5 DEF MakeCalls
  <2>7. After(TimeSessions, {})
    BY <1>8 DEF FinishRemoval, After, TimeSessions, Listed
  <2>8. Kept
    <3> HIDE DEF cs
    <3> QED  BY <1>1, <1>8, <2>6, <2>7, QuietKept DEF FinishRemoval, Elsewhere
  <2> QED  BY <1>1, <1>2, <1>8, <2>8, KeptEngine DEF FinishRemoval
<1> QED  BY <1>4, <1>5, <1>6, <1>7, <1>8 DEF AdapterStep

\* The modem, once up, executes every call, and what it will run is foreseen.
LEMMA ModemCallEngine ==
  ASSUME ~MayFail, DistanceSupported, EngineInv, ModemCall
  PROVE  EngineInv'
<1> DEFINE c == Head(calls)
           rest == Tail(calls)
           ok == modemUp
           m == [cb |-> c.cb, sess |-> c.sess, arg |-> c.arg, ok |-> ok]
<1>1. TypeInv' /\ TypeInv /\ Raising /\ modemUp \in BOOLEAN /\ calls # <<>>
  BY ModemTypes DEF EngineInv, TypeInv, TypeOK, ModemCall
<1>2. c \in RaisedCalls /\ rest \in Seq(RaisedCalls)
  BY <1>1, SeqOps DEF Raising
<1>3. Post(c, ok) /\ (IF ok THEN Execute(c) ELSE UNCHANGED <<engine, distEngine>>)
  BY <1>1 DEF ModemCall, Possible
<1>4. c.cb # "none" => m \in RaisedMsgs
  <2>1. c.cb # "none" => m \in SoundMsgs
    <3> HIDE DEF c
    <3> QED  BY <1>1, <1>2 DEF RaisedCalls, SoundCalls, Calls, SoundMsgs, Msgs
  <2> HIDE DEF c
  <2> QED  BY <1>2, <2>1 DEF RaisedCalls, RaisedMsgs
<1>5. msgs' = msgs \/ (c.cb # "none" /\ msgs' = Append(msgs, m))
  BY <1>3 DEF Post
<1>6. msgs' \in Seq(RaisedMsgs)
  <2> HIDE DEF c, m
  <2> QED  BY <1>1, <1>4, <1>5, SeqOps DEF Raising
<1>7. /\ \A j \in DOMAIN msgs : j \in DOMAIN msgs' /\ msgs'[j] = msgs[j]
      /\ \A j \in DOMAIN msgs' : j \in DOMAIN msgs \/ msgs'[j] = m
  <2> HIDE DEF m
  <2> QED  BY <1>1, <1>5 DEF Raising
<1>8. FailuresFirst'
  <2>1. SUFFICES ASSUME modemUp, NEW j \in DOMAIN msgs', ~msgs'[j].ok
                 PROVE  \E k \in DOMAIN msgs' : k > j /\ msgs'[k].cb = "engineUp"
    BY DEF FailuresFirst, ModemCall
  <2>2. j \in DOMAIN msgs /\ ~msgs[j].ok
    BY <1>7, <2>1
  <2>3. PICK k \in DOMAIN msgs : k > j /\ msgs[k].cb = "engineUp"
    BY <2>1, <2>2 DEF EngineInv, FailuresFirst
  <2> QED  BY <1>7, <2>3
<1>9. Settling' => modemUp /\ Settling
  BY <1>7 DEF Settling, ModemCall
<1>10. Reopens'
  <2>1. CASE modemUp
    BY <2>1 DEF Reopens, ModemCall
  <2>2. CASE ~modemUp
    <3>1. PICK i \in DOMAIN calls : calls[i].op = "open"
      BY <2>2 DEF EngineInv, Reopens
    <3>2. i # 1
      BY <1>1, <3>1 DEF ModemCall
    <3>3. i - 1 \in DOMAIN rest /\ rest[i - 1] = calls[i]
      BY <1>1, <3>1, <3>2 DEF Raising
    <3> QED  BY <3>1, <3>3 DEF Reopens, ModemCall
  <2> QED  BY <2>1, <2>2
<1>11. ASSUME modemUp PROVE Foreseen' = Foreseen
  <2> DEFINE first == <<c>>
  <2>1. engine' = Final(first, engine)
    <3>1. Final(first, engine) = IF c.op \in TimeOps THEN Effect(c) ELSE engine
      BY FinalOne
    <3>2. Execute(c)
      BY <1>3, <1>11
    <3>3. c.op \in TimeOps \cup DistanceOps
      <4>1. c.op # "open"
        BY DEF ModemCall
      <4> HIDE DEF c
      <4> QED  BY <1>2, <4>1 DEF RaisedCalls, SoundCalls, Calls
    <3> HIDE DEF c, first
    <3> QED  BY <3>1, <3>2, <3>3 DEF Execute, Effect, TimeOps, DistanceOps
  <2>2. calls = first \o rest /\ first \in Seq(RaisedCalls)
    <3>1. calls = <<c>> \o rest
      BY <1>1 DEF Raising
    <3>2. <<c>> \in Seq(RaisedCalls)
      <4> HIDE DEF c
      <4> QED  BY <1>2, SeqOps
    <3> QED  BY <3>1, <3>2
  <2>3. Final(first \o rest, engine) = Final(rest, Final(first, engine))
    <3> HIDE DEF first, rest
    <3> QED  BY <1>2, <2>2, FinalThen
  <2>4. calls' = rest
    BY DEF ModemCall
  <2> HIDE DEF first, rest
  <2> QED  BY <2>1, <2>2, <2>3, <2>4 DEF Foreseen
<1>12. UNCHANGED <<timeSess, speFast, nHz, pending>>
  BY DEF ModemCall, adapterVars
<1>13. RaisedTable' /\ calls' \in Seq(RaisedCalls)
  BY <1>1, <1>2, <1>12 DEF Raising, RaisedTable, TimeSessions, Listed, ModemCall
<1>14. Settling' => Fits(Foreseen)'
  BY <1>9, <1>11, <1>12 DEF EngineInv, Fits, TimeSessions, Listed
<1> QED
  BY <1>1, <1>6, <1>8, <1>10, <1>12, <1>13, <1>14 DEF EngineInv, Raising

\* While the modem is down, or has just come up, nothing has settled.
LEMMA ModemRestartEngine ==
  ASSUME EngineInv, ModemOpen \/ ModemDown
  PROVE  EngineInv'
<1>1. TypeInv' /\ TypeInv /\ Raising
  BY ModemTypes DEF EngineInv
<1>2. UNCHANGED <<timeSess, speFast, nHz, pending>>
  BY DEF ModemOpen, ModemDown, adapterVars
<1>3. RaisedTable'
  BY <1>1, <1>2 DEF Raising, RaisedTable, TimeSessions, Listed
<1>4. CASE ModemOpen
  <2> DEFINE up == [cb |-> "engineUp", sess |-> 0, arg |-> NoOptions, ok |-> TRUE]
  <2>1. up \in RaisedMsgs
    BY NoOptionsType DEF RaisedMsgs, SoundMsgs, Msgs
  <2>2. /\ msgs' = Append(msgs, up) /\ modemUp' = TRUE /\ calls' = Tail(calls)
        /\ calls # <<>>
    BY <1>4 DEF ModemOpen
  <2>3. msgs' \in Seq(RaisedMsgs) /\ calls' \in Seq(RaisedCalls)
    <3> HIDE DEF up
    <3> QED  BY <1>1, <2>1, <2>2, SeqOps DEF Raising
  <2>4. /\ Len(msgs) + 1 \in DOMAIN msgs' /\ msgs'[Len(msgs) + 1].cb = "engineUp"
        /\ \A j \in DOMAIN msgs' : j < Len(msgs) + 1 \/ msgs'[j] = up
    BY <1>1, <2>2 DEF Raising
  <2>5. FailuresFirst' /\ ~Settling'
    BY <2>4 DEF FailuresFirst, Settling
  <2> QED
    BY <1>1, <1>2, <1>3, <2>2, <2>3, <2>5 DEF EngineInv, Raising, Reopens
<1>5. CASE ModemDown
  <2>1. OpenCall \in RaisedCalls /\ OpenCall.op = "open"
    <3>1. OpenCall \in SoundCalls
      BY CallType, NoOptionsType DEF OpenCall, Callbacks, Sess, TimeOps, DistanceOps
    <3> QED  BY <3>1 DEF RaisedCalls, OpenCall, Call
  <2>2. calls' = Append(calls, OpenCall) /\ ~modemUp' /\ msgs' = msgs
    BY <1>5 DEF ModemDown
  <2>3. calls' \in Seq(RaisedCalls)
    BY <1>1, <2>1, <2>2, SeqOps DEF Raising
  <2>4. Len(calls) + 1 \in DOMAIN calls' /\ calls'[Len(calls) + 1] = OpenCall
    BY <1>1, <2>2 DEF Raising
  <2> QED
    BY <1>1, <1>2, <1>3, <2>1, <2>2, <2>3, <2>4
       DEF EngineInv, Raising, Reopens, FailuresFirst, Settling
<1> QED  BY <1>4, <1>5

LEMMA InitEngine ==
  ASSUME Init
  PROVE  EngineInv
<1>1. TypeInv
  BY InitTypes
<1>2. OpenCall \in RaisedCalls /\ OpenCall.op = "open"
  <2>1. OpenCall \in SoundCalls
    BY CallType, NoOptionsType DEF OpenCall, Callbacks, Sess, TimeOps, DistanceOps
  <2> QED  BY <2>1 DEF RaisedCalls, OpenCall, Call
<1>3. calls \in Seq(RaisedCalls) /\ Reopens
  BY <1>2, SeqOps DEF Init, Reopens
<1>4. msgs = <<>> /\ pending = <<>> /\ ~modemUp /\ TimeSessions = {} /\ ~speFast
  BY DEF Init, TimeSessions, Listed, NoOptions
<1> QED
  BY <1>1, <1>3, <1>4, SeqOps
     DEF EngineInv, Raising, RaisedTable, FailuresFirst, Settling

LEMMA EngineInvariant ==
  ASSUME ~MayFail, DistanceSupported
  PROVE  /\ Init => EngineInv
         /\ EngineInv /\ [Next]_vars => EngineInv'
<1>1. Init => EngineInv
  BY InitEngine
<1>2. ASSUME EngineInv, [Next]_vars PROVE EngineInv'
  <2>1. CASE Request \/ AdapterStep
    BY <1>2, <2>1, RequestEngine, AdapterEngine
  <2>2. CASE LocApiStep \/ ModemDown
    BY <1>2, <2>2, ModemCallEngine, ModemRestartEngine DEF LocApiStep
  <2>3. CASE UNCHANGED vars
    <3>1. TypeInv'
      BY <1>2, <2>3
         DEF EngineInv, vars, adapterVars, modemVars, TypeInv, TypeOK, Queues
    <3>2. /\ RaisedTable' = RaisedTable /\ Fits(Foreseen)' = Fits(Foreseen)
          /\ Settling' = Settling /\ FailuresFirst' = FailuresFirst
          /\ Reopens' = Reopens
      BY <2>3 DEF vars, adapterVars, modemVars, RaisedTable, Fits, Foreseen, Settling,
                  FailuresFirst, Reopens, TimeSessions, Listed
    <3> QED
      BY <1>2, <2>3, <3>1, <3>2 DEF EngineInv, Raising, vars, adapterVars, modemVars
  <2> QED  BY <1>2, <2>1, <2>2, <2>3 DEF Next
<1> QED  BY <1>1, <1>2

\* Whatever the clients ask, however often the modem restarts, N Hz positions
\* come and go and the configuration changes: once nothing is under way, the
\* one session in the modem runs at least as fast as each listed one asks.
THEOREM GnssEngineServes ==
  ASSUME ~MayFail, DistanceSupported
  PROVE  Spec => []EngineServes
<1>1. EngineInv => EngineServes
  <2> SUFFICES ASSUME EngineInv, Quiescent PROVE Fits(engine)
    BY DEF EngineServes, Fits, Runs
  <2>1. modemUp /\ Settling
    BY DEF EngineInv, Reopens, Quiescent, Settling
  <2>2. Foreseen = engine
    BY FinalNone DEF Quiescent, Foreseen
  <2> QED  BY <2>1, <2>2 DEF EngineInv
<1> QED  BY <1>1, EngineInvariant, PTL DEF Spec

\* What the adapter remembers about the rate of the modem is true: once nothing
\* is under way, and N Hz positions are needed, it skips no call that it needs.
THEOREM GnssFastIsTrue ==
  ASSUME ~MayFail, DistanceSupported
  PROVE  Spec => []FastIsTrue
<1>1. EngineInv => FastIsTrue
  <2> SUFFICES ASSUME EngineInv, Quiescent PROVE Fits(engine)
    BY DEF FastIsTrue, Fits, Runs
  <2>1. modemUp /\ Settling
    BY DEF EngineInv, Reopens, Quiescent, Settling
  <2>2. Foreseen = engine
    BY FinalNone DEF Quiescent, Foreseen
  <2> QED  BY <2>1, <2>2 DEF EngineInv
<1> QED  BY <1>1, EngineInvariant, PTL DEF Spec

-----------------------------------------------------------------------------
(***************************************************************************)
(* Clients that track by time only.  With distance based sessions and      *)
(* clients that do not wait the three properties below do not hold, see    *)
(* the README: an answer may erase or bring back what a later request has  *)
(* changed.  By time only, no handler does more than one of four things.   *)
(***************************************************************************)
TimeOnly == \A o \in Opts : o.distance = 0
Sized == \A o \in Opts : o.size # 0

PlainOptions == {o \in Options : o.distance = 0}
PlainAnswers == {"none", "started", "updated", "stopped"}
PlainCalls ==
  {c \in SoundCalls : /\ c.op \in TimeOps \cup {"open"}
                      /\ c.op = "open" => c.cb = "none"
                      /\ c.cb \in PlainAnswers /\ c.arg \in PlainOptions}
PlainMsgs ==
  {m \in SoundMsgs : /\ m.cb \in (PlainAnswers \ {"none"}) \cup {"engineUp"}
                     /\ m.arg \in PlainOptions}

Plain ==
  /\ TypeInv
  /\ \A t \in Sessions : timeSess[t].distance = 0
  /\ DistSessions = {} /\ pending = <<>>
  /\ calls \in Seq(PlainCalls) /\ msgs \in Seq(PlainMsgs)

\* The four things: nothing but an answer, a start, an update and a stop.
Quiet(s, ow) ==
  /\ timeSess' = timeSess /\ NoPlan
  /\ ReportIf(TRUE, ow, s) \/ (owed' = ow /\ (clients[Owner[s]] # "ready" \/ ~Sized))
Follows(p, ow, s) == FollowPlan(p) /\ ReportIf(p.now, ow, s)
Starts(s, o, ow) ==
  /\ o.size # 0 /\ timeSess' = [timeSess EXCEPT ![s] = o]
  /\ Follows(StartMultiplex(s, o), ow, s)
Updates(s, o, ow) ==
  /\ o.size # 0 /\ s \in TimeSessions /\ timeSess' = [timeSess EXCEPT ![s] = o]
  /\ Follows(UpdateMultiplex(s, o), ow, s)
Stops(s) == s \in TimeSessions /\ EraseSession(s) /\ FollowPlan(StopMultiplex(s))

Acts(s, ow) ==
  /\ DistSessions' = {} /\ UNCHANGED pending
  /\ \/ Quiet(s, ow)
     \/ \E o \in PlainOptions : Starts(s, o, ow) \/ Updates(s, o, ow)
     \/ Stops(s) /\ ReportIf(StopMultiplex(s).now, ow, s)

LEMMA PlainOption ==
  ASSUME NEW o \in Options, o.distance = 0, NEW s
  PROVE  /\ ~IsDistance(o) /\ ~MustWait(o)
         /\ TimeSaved(s, o) = [timeSess EXCEPT ![s] = o] /\ DistSaved(s, o) = distSess
BY DEF IsDistance, MustWait, TimeSaved, DistSaved, Options

\* Erasing a session leaves no distance based one.
LEMMA ErasedPlain ==
  ASSUME Plain, NEW s \in Sessions, EraseSession(s)
  PROVE  DistSessions' = {}
BY DEF Plain, TypeInv, TypeOK, EraseSession, DistErased, DistSessions, Listed, NoOptions

LEMMA StartActs ==
  ASSUME Plain, NEW s \in Sessions, NEW o \in Opts, TimeOnly, NEW ow,
         StartTracking(s, o, ow)
  PROVE  Acts(s, ow)
<1>1. o \in PlainOptions /\ o \in Options /\ ~MustWait(o)
  BY OptsAssumption, PlainOption DEF TimeOnly, PlainOptions
<1>2. CASE StartRefused(s, o, ow)
  BY <1>2, OptsAssumption
     DEF StartRefused, Acts, Quiet, KeepSessions, DistSessions, Listed, Plain, Sized
<1>3. CASE StartAccepted(s, o, ow)
  <2>1. o.size # 0 /\ UNCHANGED pending
    BY <1>3 DEF StartAccepted
  <2> DEFINE a == AtLeastMin(o)
  <2>2. a \in Options /\ a.distance = 0 /\ a.size # 0
    BY <1>1, <2>1, AtLeastMinType DEF PlainOptions
  <2>3. ~IsDistance(o)
    BY <1>1, PlainOption DEF PlainOptions
  <2>4. PICK t \in TimeOptions(a) : /\ SaveSession(s, t)
                                    /\ FollowPlan(StartMultiplex(s, t))
                                    /\ ReportIf(StartMultiplex(s, t).now, ow, s)
    BY <1>3, <2>3 DEF StartAccepted
  <2> HIDE DEF a
  <2>5. t \in Options /\ t.distance = 0 /\ t.size # 0
    BY <2>2, TimeOptionsType
  <2>6. timeSess' = [timeSess EXCEPT ![s] = t] /\ distSess' = distSess
    BY <2>4, <2>5, PlainOption DEF SaveSession
  <2>7. t \in PlainOptions /\ Starts(s, t, ow)
    BY <2>4, <2>5, <2>6 DEF PlainOptions, Starts, Follows
  <2> QED  BY <2>1, <2>6, <2>7 DEF Acts, Plain, DistSessions, Listed
<1> QED  BY <1>1, <1>2, <1>3 DEF StartTracking, Hold

LEMMA UpdateActs ==
  ASSUME Plain, NEW s \in Sessions, NEW o \in Opts, TimeOnly, NEW ow,
         UpdateTracking(s, o, ow)
  PROVE  Acts(s, ow)
<1>1. o \in PlainOptions /\ o \in Options /\ ~MustWait(o)
  BY OptsAssumption, PlainOption DEF TimeOnly, PlainOptions
<1>2. CASE UpdateRefused(s, o, ow)
  BY <1>2 DEF UpdateRefused, Acts, Quiet, KeepSessions, DistSessions, Listed, Plain
<1>3. CASE UpdateAccepted(s, o, ow)
  <2>1. o.size # 0 /\ UNCHANGED pending /\ s \in TimeSessions
    BY <1>3 DEF UpdateAccepted, Plain
  <2>2. ASSUME NEW t \in {AtLeastMin(x) : x \in TimeOptions(o)}
        PROVE  t \in Options /\ t.distance = 0 /\ t.size # 0
    <3>1. PICK x \in TimeOptions(o) : t = AtLeastMin(x)
      OBVIOUS
    <3>2. x \in Options /\ x.distance = 0 /\ x.size # 0
      BY <1>1, <2>1, TimeOptionsType DEF PlainOptions
    <3> QED  BY <3>1, <3>2, AtLeastMinType
  <2>3. PICK t \in {AtLeastMin(x) : x \in TimeOptions(o)} :
          \/ t.distance > 0 \/ s \in DistSessions \/ s \notin TimeSessions
          \/ /\ SaveSession(s, t)
             /\ FollowPlan(UpdateMultiplex(s, t))
             /\ ReportIf(UpdateMultiplex(s, t).now, ow, s)
    BY <1>3 DEF UpdateAccepted
  <2>4. t \in Options /\ t.distance = 0 /\ t.size # 0
    BY <2>2
  <2>5. /\ SaveSession(s, t)
        /\ FollowPlan(UpdateMultiplex(s, t))
        /\ ReportIf(UpdateMultiplex(s, t).now, ow, s)
    BY <2>1, <2>3, <2>4 DEF Plain
  <2>6. timeSess' = [timeSess EXCEPT ![s] = t] /\ distSess' = distSess
    BY <2>4, <2>5, PlainOption DEF SaveSession
  <2>7. t \in PlainOptions /\ Updates(s, t, ow)
    BY <2>1, <2>4, <2>5, <2>6 DEF PlainOptions, Updates, Follows
  <2> QED  BY <2>1, <2>6, <2>7 DEF Acts, Plain, DistSessions, Listed
<1> QED  BY <1>1, <1>2, <1>3 DEF UpdateTracking, Hold

LEMMA StopActs ==
  ASSUME Plain, NEW s \in Sessions, NEW ow, StopTracking(s, ow), UNCHANGED pending
  PROVE  Acts(s, ow)
<1>1. CASE /\ s \in TimeSessions /\ EraseSession(s)
           /\ FollowPlan(StopMultiplex(s))
           /\ ReportIf(StopMultiplex(s).now, ow, s)
  BY <1>1, ErasedPlain DEF Acts, Stops
<1>2. CASE KeepSessions /\ NoPlan /\ ReportIf(TRUE, ow, s)
  BY <1>2 DEF KeepSessions, Acts, Quiet, Plain, DistSessions, Listed
<1> QED  BY <1>1, <1>2 DEF StopTracking, Plain

\* The plans of the four things: no call, the call that stops the session, or
\* one that starts it.
LEMMA StartSpePlain ==
  ASSUME TypeInv, NEW s \in Sessions, NEW o \in Options,
         NEW cb \in {"started", "updated"}, NEW arg \in PlainOptions
  PROVE  StartSpe(s, o, cb, arg).calls \in Seq(PlainCalls)
<1> DEFINE call == Call("startTime", s, SpeOptions(o), cb, arg)
<1>1. call \in SoundCalls
  BY CallType, SpeOptionsType
     DEF TimeOps, Callbacks, DistanceOps, Sess, PlainOptions
<1>2. call.op = "startTime" /\ call.cb = cb /\ call.arg = arg
  BY DEF Call
<1>3. StartSpe(s, o, cb, arg).calls = <<>> \/ StartSpe(s, o, cb, arg).calls = <<call>>
  BY DEF StartSpe, Plan
<1> HIDE DEF call
<1>4. call \in PlainCalls
  BY <1>1, <1>2 DEF PlainCalls, TimeOps, PlainAnswers
<1> QED  BY <1>3, <1>4, SeqOps

LEMMA StopSpePlain ==
  ASSUME NEW s \in Sessions
  PROVE  StopSpe(s).calls \in Seq(PlainCalls)
<1> DEFINE call == Call("stopFix", s, NoOptions, "stopped", NoOptions)
<1>1. call \in SoundCalls
  BY CallType, NoOptionsType DEF TimeOps, Callbacks, DistanceOps, Sess
<1>2. call.op = "stopFix" /\ call.cb = "stopped" /\ call.arg = NoOptions
  BY DEF Call
<1>3. StopSpe(s).calls = <<call>>
  BY DEF StopSpe, Plan
<1> HIDE DEF call
<1>4. call \in PlainCalls
  BY <1>1, <1>2, NoOptionsType DEF PlainCalls, TimeOps, PlainAnswers, PlainOptions, NoOptions
<1> QED  BY <1>3, <1>4, SeqOps

LEMMA NoCallPlain == NoCall.calls \in Seq(PlainCalls)
BY SeqOps DEF NoCall, Plan

LEMMA MultiplexPlain ==
  ASSUME Plain, NEW s \in Sessions, NEW o \in PlainOptions
  PROVE  /\ StartMultiplex(s, o).calls \in Seq(PlainCalls)
         /\ s \in TimeSessions => UpdateMultiplex(s, o).calls \in Seq(PlainCalls)
         /\ StopMultiplex(s).calls \in Seq(PlainCalls)
<1>1. /\ TypeInv /\ o \in Options /\ NoOptions \in PlainOptions
      /\ TimeSessions \ {s} \subseteq TimeSessions
  BY NoOptionsType DEF Plain, PlainOptions, NoOptions
<1>2. StartMultiplex(s, o).calls \in Seq(PlainCalls)
  BY <1>1, StartSpePlain, NoCallPlain, LoweredType DEF StartMultiplex
<1>3. ASSUME s \in TimeSessions PROVE UpdateMultiplex(s, o).calls \in Seq(PlainCalls)
  <2>1. timeSess[s] \in PlainOptions
    BY <1>1, <1>3, SessionsListed DEF Plain, PlainOptions, TypeInv
  <2> QED  BY <1>1, <2>1, StartSpePlain, NoCallPlain, LoweredType DEF UpdateMultiplex
<1>4. StopMultiplex(s).calls \in Seq(PlainCalls)
  <2> DEFINE others == TimeSessions \ {s}
             base == Fastest(timeSess, others)
             power == MuxPower(timeSess, others)
  <2>1. base \in Options /\ power \in PowerModes
    BY <1>1, MultiplexTypes
  <2>2. [base EXCEPT !.power = power] \in Options
    BY <2>1 DEF Options
  <2>3. StartSpe(s, [base EXCEPT !.power = power], "started", NoOptions).calls
          \in Seq(PlainCalls)
    BY <1>1, <2>2, StartSpePlain
  <2> QED  BY <2>3, StopSpePlain, NoCallPlain DEF StopMultiplex
<1> QED  BY <1>2, <1>3, <1>4

\* What a handler may change of the tables and of the calls.
PlainStep ==
  /\ \A t \in Sessions : timeSess'[t].distance = 0
  /\ DistSessions' = {} /\ pending' = <<>>
  /\ calls' \in Seq(PlainCalls)

LEMMA FollowedPlain ==
  ASSUME Plain, NEW p, FollowPlan(p), p.calls \in Seq(PlainCalls)
  PROVE  calls' \in Seq(PlainCalls)
BY SeqOps DEF FollowPlan, Plain

LEMMA PutPlain ==
  ASSUME Plain, NEW s \in Sessions, NEW o \in PlainOptions,
         timeSess' = timeSess \/ timeSess' = [timeSess EXCEPT ![s] = o]
  PROVE  \A t \in Sessions : timeSess'[t].distance = 0
BY DEF Plain, PlainOptions, TypeInv, TypeOK

LEMMA StopsPlain ==
  ASSUME Plain, NEW s \in Sessions, Stops(s), UNCHANGED pending
  PROVE  PlainStep
<1>1. NoOptions \in PlainOptions
  BY NoOptionsType DEF PlainOptions, NoOptions
<1>2. timeSess' = [timeSess EXCEPT ![s] = NoOptions] /\ DistSessions' = {}
  BY ErasedPlain DEF Stops, EraseSession, TimeErased
<1>3. calls' \in Seq(PlainCalls)
  BY <1>1, MultiplexPlain, FollowedPlain DEF Stops
<1> QED  BY <1>1, <1>2, <1>3, PutPlain DEF PlainStep, Plain

LEMMA ActsPlain ==
  ASSUME Plain, NEW s \in Sessions, NEW ow, Acts(s, ow)
  PROVE  PlainStep
<1>1. DistSessions' = {} /\ pending' = <<>> /\ UNCHANGED pending
  BY DEF Acts, Plain
<1>2. CASE Quiet(s, ow)
  BY <1>1, <1>2 DEF Quiet, NoPlan, PlainStep, Plain
<1>3. ASSUME NEW o \in PlainOptions, Starts(s, o, ow) \/ Updates(s, o, ow)
      PROVE  PlainStep
  <2>1. \A t \in Sessions : timeSess'[t].distance = 0
    BY <1>3, PutPlain DEF Starts, Updates
  <2>2. calls' \in Seq(PlainCalls)
    BY <1>3, MultiplexPlain, FollowedPlain DEF Starts, Updates, Follows
  <2> QED  BY <1>1, <2>1, <2>2 DEF PlainStep
<1>4. CASE Stops(s)
  BY <1>1, <1>4, StopsPlain
<1> QED  BY <1>2, <1>3, <1>4 DEF Acts

\* There is no distance based session to iterate over.
LEMMA NoneInOrder ==
  ASSUME NEW q \in InOrder({})
  PROVE  q \in Seq({}) /\ DOMAIN q = {}
<1>1. Cardinality({}) = 0
  BY FS_EmptySet
<1> QED  BY <1>1 DEF InOrder

LEMMA RestartCall ==
  ASSUME TypeInv, TimeSessions # {}, NEW n \in BOOLEAN
  PROVE  RestartTime(n) \in Seq(PlainCalls)
<1> DEFINE S == TimeSessions
           base == Fastest(timeSess, S)
           o == [base EXCEPT !.power = RestartPower(timeSess, S)]
           o2 == [o EXCEPT !.interval = IF n /\ @ > MinInterval THEN MinInterval ELSE @]
           call == Call("startTime", 0, o2, "none", NoOptions)
<1>1. base \in Options
  BY MultiplexTypes
<1>2. RestartPower(timeSess, S) \in PowerModes
  <2>1. S \subseteq Nat /\ \A s \in S : timeSess[s].power \in PowerModes
    BY SessionsListed DEF TypeInv, Options
  <2> QED  BY <2>1, RestartPowerType
<1>3. o \in Options
  <2> HIDE DEF base
  <2> QED  BY <1>1, <1>2 DEF Options
<1>4. o2 \in Options
  <2> HIDE DEF o
  <2> QED  BY <1>3, IntervalType DEF Options
<1>5. call \in SoundCalls
  <2> HIDE DEF o2
  <2> QED  BY <1>4, CallType, NoOptionsType DEF TimeOps, Callbacks, Sess, DistanceOps
<1>6. call.op = "startTime" /\ call.cb = "none" /\ call.arg = NoOptions
  BY DEF Call
<1>7. RestartTime(n) = <<call>>
  BY DEF RestartTime
<1> HIDE DEF call
<1>8. call \in PlainCalls
  BY <1>5, <1>6, NoOptionsType
     DEF PlainCalls, TimeOps, PlainAnswers, PlainOptions, NoOptions
<1> QED  BY <1>7, <1>8, SeqOps

LEMMA RestartPlain ==
  ASSUME Plain, NEW before \in Seq(PlainCalls), NEW n \in BOOLEAN, RestartSpe(before, n)
  PROVE  /\ \A t \in Sessions : timeSess'[t].distance = 0
         /\ DistSessions' = {} /\ calls' \in Seq(PlainCalls)
<1>1. PICK q \in InOrder({}) :
        calls' = calls \o before \o RestartTime(n) \o RestartDistance(q)
  BY DEF RestartSpe, Plain
<1> DEFINE rt == RestartTime(n)
           rd == RestartDistance(q)
<1>2. rt \in Seq(PlainCalls)
  <2>1. CASE TimeSessions = {}
    BY <2>1, SeqOps DEF RestartTime
  <2> QED  BY <2>1, RestartCall DEF Plain
<1>3. rd \in Seq(PlainCalls)
  <2>1. DOMAIN q = 1 .. 0
    BY NoneInOrder
  <2>2. rd \in [1 .. 0 -> PlainCalls]
    BY <2>1 DEF RestartDistance
  <2> QED  BY <2>2
<1>4. timeSess' = timeSess /\ distSess' = distSess
  BY DEF RestartSpe, KeepSessions
<1> HIDE DEF rt, rd
<1>5. calls' = ((calls \o before) \o rt) \o rd
  BY <1>1 DEF rt, rd
<1>6. (calls \o before) \o rt \in Seq(PlainCalls)
  BY <1>2, SeqOps DEF Plain
<1>7. calls' \in Seq(PlainCalls)
  BY <1>3, <1>5, <1>6, SeqOps
<1> QED  BY <1>4, <1>7 DEF Plain, DistSessions, Listed

LEMMA StopCallPlain ==
  Call("stopFix", 0, NoOptions, "none", NoOptions) \in PlainCalls
<1> DEFINE stop == Call("stopFix", 0, NoOptions, "none", NoOptions)
<1>1. stop \in SoundCalls
  BY CallType, NoOptionsType DEF TimeOps, Callbacks, Sess, DistanceOps
<1>2. stop.op = "stopFix" /\ stop.cb = "none" /\ stop.arg = NoOptions
  BY DEF Call
<1> HIDE DEF stop
<1>3. stop \in PlainCalls
  BY <1>1, <1>2, NoOptionsType DEF PlainCalls, TimeOps, PlainAnswers, PlainOptions, NoOptions
<1> QED  BY <1>3 DEF stop

\* The steps of the adapter in these terms.
LEMMA CommandActs ==
  ASSUME Plain, TimeOnly, NEW s \in Sessions,
         \/ \E o \in Opts : StartCommand(s, o) \/ UpdateCommand(s, o)
         \/ StopCommand(s)
  PROVE  /\ Acts(s, Asked(s)) /\ MayAsk(s)
         /\ UNCHANGED <<clients, removing, msgs, modemVars>>
<1>1. /\ MayAsk(s) /\ UNCHANGED <<clients, removing, msgs, modemVars>>
  BY DEF StartCommand, UpdateCommand, StopCommand
<1>2. ASSUME NEW o \in Opts, StartCommand(s, o) PROVE Acts(s, Asked(s))
  BY <1>2, StartActs DEF StartCommand
<1>3. ASSUME NEW o \in Opts, UpdateCommand(s, o) PROVE Acts(s, Asked(s))
  BY <1>3, UpdateActs DEF UpdateCommand
<1>4. CASE StopCommand(s)
  BY <1>4, StopActs DEF StopCommand
<1> QED  BY <1>1, <1>2, <1>3, <1>4

LEMMA NoReplay ==
  ASSUME Plain
  PROVE  ~HandleReplay
<1> SUFFICES ASSUME HandleReplay PROVE FALSE
  OBVIOUS
<1>1. Head(msgs) \in PlainMsgs
  BY SeqOps DEF HandleReplay, Plain
<1>2. Head(msgs).cb \in {"start", "update"}
  BY DEF HandleReplay
<1> QED  BY <1>1, <1>2 DEF PlainMsgs, PlainAnswers

\* An answer is reported; one that tells of a failure takes a session back.
Answers(m) ==
  /\ m \in PlainMsgs /\ m.sess \in Sessions /\ m.cb \in PlainAnswers \ {"none"}
  /\ NoPlan /\ ReportIf(TRUE, owed, m.sess)
  /\ DistSessions' = {}
  /\ \/ timeSess' = timeSess
     \/ ~m.ok /\ \E o \in PlainOptions : timeSess' = [timeSess EXCEPT ![m.sess] = o]

LEMMA AnswerActs ==
  ASSUME Plain, HandleAnswer
  PROVE  Answers(Head(msgs))
<1> DEFINE m == Head(msgs)
<1>1. m \in PlainMsgs /\ Answer(m)
  BY SeqOps DEF HandleAnswer, Plain
<1> SUFFICES Answers(m)
  OBVIOUS
<1> HIDE DEF m
<1>2. /\ m.cb \in {"started", "updated", "stopped"} /\ m.cb \in PlainAnswers \ {"none"}
      /\ m.sess \in Sessions /\ m.arg \in PlainOptions
  BY <1>1 DEF Answer, PlainMsgs, SoundMsgs, PlainAnswers
<1>3. distSess' = distSess => DistSessions' = {}
  BY DEF DistSessions, Listed, Plain
<1>4. CASE m.cb = "started"
  <2>1. NoPlan /\ ReportIf(TRUE, owed, m.sess)
    BY <1>1, <1>4 DEF Answer
  <2>2. KeepSessions \/ (~m.ok /\ EraseSession(m.sess))
    BY <1>1, <1>4 DEF Answer
  <2>3. NoOptions \in PlainOptions
    BY NoOptionsType DEF PlainOptions, NoOptions
  <2>4. CASE KeepSessions
    BY <1>1, <1>2, <1>3, <2>1, <2>4 DEF Answers, KeepSessions
  <2>5. CASE ~m.ok /\ EraseSession(m.sess)
    <3>1. timeSess' = [timeSess EXCEPT ![m.sess] = NoOptions] /\ DistSessions' = {}
      BY <1>2, <2>5, ErasedPlain DEF EraseSession, TimeErased
    <3> QED  BY <1>1, <1>2, <2>1, <2>3, <2>5, <3>1 DEF Answers
  <2> QED  BY <2>2, <2>4, <2>5
<1>5. CASE m.cb = "updated"
  <2>1. NoPlan /\ ReportIf(TRUE, owed, m.sess)
    BY <1>1, <1>5 DEF Answer
  <2>2. KeepSessions \/ (~m.ok /\ SaveSession(m.sess, m.arg))
    BY <1>1, <1>5 DEF Answer
  <2>3. CASE KeepSessions
    BY <1>1, <1>2, <1>3, <2>1, <2>3 DEF Answers, KeepSessions
  <2>4. CASE ~m.ok /\ SaveSession(m.sess, m.arg)
    <3>1. timeSess' = [timeSess EXCEPT ![m.sess] = m.arg] /\ distSess' = distSess
      BY <1>2, <2>4, PlainOption DEF SaveSession, PlainOptions
    <3> QED  BY <1>1, <1>2, <1>3, <2>1, <2>4, <3>1 DEF Answers
  <2> QED  BY <2>2, <2>3, <2>4
<1>6. CASE m.cb = "stopped"
  <2>1. KeepSessions /\ NoPlan /\ ReportIf(TRUE, owed, m.sess)
    BY <1>1, <1>6 DEF Answer
  <2> QED  BY <1>1, <1>2, <1>3, <2>1 DEF Answers, KeepSessions
<1> QED  BY <1>2, <1>4, <1>5, <1>6

LEMMA RemovalActs ==
  ASSUME Plain, FinishRemoval
  PROVE  /\ \E cs \in Seq(PlainCalls) : DOMAIN cs = {} /\ MakeCalls(cs)
         /\ UNCHANGED <<timeSess, distSess, pending, msgs, owed, modemVars>>
<1>1. OfClient(DistSessions) = {}
  BY DEF OfClient, Plain
<1>2. PICK q \in InOrder({}) :
        MakeCalls([i \in DOMAIN q |->
          Call("stopDist", q[i], NoOptions, "clientDistStopped", NoOptions)])
  BY <1>1 DEF FinishRemoval
<1> DEFINE cs == [i \in DOMAIN q |->
                   Call("stopDist", q[i], NoOptions, "clientDistStopped", NoOptions)]
<1>3. DOMAIN q = 1 .. 0 /\ DOMAIN q = {}
  BY NoneInOrder
<1>4. cs \in [1 .. 0 -> PlainCalls] /\ DOMAIN cs = {}
  BY <1>3
<1>5. cs \in Seq(PlainCalls)
  <2> HIDE DEF cs
  <2> QED  BY <1>4
<1>6. MakeCalls(cs)
  BY <1>2
<1> HIDE DEF cs
<1> QED  BY <1>4, <1>5, <1>6 DEF FinishRemoval

\* Every restart of the sessions by the adapter.
Restarts ==
  \E before \in Seq(PlainCalls), n \in BOOLEAN :
    /\ RestartSpe(before, n)
    /\ TimeSessions = {} => before = <<>>
    /\ \A i \in DOMAIN before : before[i].cb = "none"

LEMMA RestartActs ==
  ASSUME Plain, HandleEngineUp \/ Reconfigure \/ UpdateNHz
  PROVE  Restarts
<1>1. nHz \in BOOLEAN /\ nHz' \in BOOLEAN
  BY DEF Plain, TypeInv, TypeOK, HandleEngineUp, Reconfigure, UpdateNHz
<1>2. CASE HandleEngineUp \/ UpdateNHz
  <2> DEFINE none == <<>>
  <2>1. PICK n \in BOOLEAN : RestartSpe(none, n)
    BY <1>1, <1>2 DEF HandleEngineUp, UpdateNHz
  <2>2. none \in Seq(PlainCalls) /\ none = <<>>
        /\ \A i \in DOMAIN none : none[i].cb = "none"
    OBVIOUS
  <2> HIDE DEF none
  <2> QED  BY <2>1, <2>2 DEF Restarts
<1>3. CASE Reconfigure
  <2> DEFINE stop == Call("stopFix", 0, NoOptions, "none", NoOptions)
             before == IF TimeSessions = {} THEN <<>> ELSE <<stop>>
  <2>1. stop \in PlainCalls /\ stop.cb = "none"
    BY StopCallPlain DEF Call
  <2>2. /\ before \in Seq(PlainCalls) /\ \A i \in DOMAIN before : before[i].cb = "none"
        /\ TimeSessions = {} => before = <<>>
    <3> HIDE DEF stop
    <3> QED  BY <2>1
  <2>3. RestartSpe(before, nHz)
    BY <1>3 DEF Reconfigure
  <2> HIDE DEF before
  <2> QED  BY <1>1, <2>2, <2>3 DEF Restarts
<1> QED  BY <1>2, <1>3

LEMMA PlainRequest ==
  ASSUME Plain, TimeOnly, TypeInv', Request \/ AdapterStep
  PROVE  Plain'
<1>1. SUFFICES PlainStep /\ msgs' \in Seq(PlainMsgs)
  BY DEF PlainStep, Plain
<1>2. ASSUME NEW c \in Clients, AddClient(c) \/ RemoveClient(c)
      PROVE  PlainStep /\ msgs' \in Seq(PlainMsgs)
  BY <1>2 DEF AddClient, RemoveClient, Plain, PlainStep, DistSessions, Listed
<1>3. ASSUME NEW s \in Sessions,
             \/ \E o \in Opts : StartCommand(s, o) \/ UpdateCommand(s, o)
             \/ StopCommand(s)
      PROVE  PlainStep /\ msgs' \in Seq(PlainMsgs)
  BY <1>3, CommandActs, ActsPlain DEF Plain
<1>4. CASE HandleEngineUp \/ Reconfigure \/ UpdateNHz
  <2>1. /\ \A t \in Sessions : timeSess'[t].distance = 0
        /\ DistSessions' = {} /\ calls' \in Seq(PlainCalls)
    BY <1>4, RestartActs, RestartPlain DEF Restarts
  <2>2. pending' = <<>> /\ msgs' \in Seq(PlainMsgs)
    <3>1. CASE HandleEngineUp
      <4>1. Tail(msgs) \in Seq(PlainMsgs) /\ <<>> \in Seq(PlainMsgs)
        BY <3>1, SeqOps DEF HandleEngineUp, Plain
      <4> QED  BY <3>1, <4>1, SeqOps DEF HandleEngineUp, Plain
    <3>2. CASE Reconfigure \/ UpdateNHz
      BY <3>2 DEF Reconfigure, UpdateNHz, Plain
    <3> QED  BY <1>4, <3>1, <3>2
  <2> QED  BY <2>1, <2>2 DEF PlainStep
<1>5. CASE HandleAnswer
  <2>1. Answers(Head(msgs))
    BY <1>5, AnswerActs
  <2>2. msgs' \in Seq(PlainMsgs) /\ pending' = <<>>
    BY <1>5, SeqOps DEF HandleAnswer, Plain
  <2>3. calls' \in Seq(PlainCalls)
    BY <2>1 DEF Answers, NoPlan, Plain
  <2>4. \A t \in Sessions : timeSess'[t].distance = 0
    <3>1. PICK s \in Sessions : \/ timeSess' = timeSess
                                \/ \E o \in PlainOptions :
                                     timeSess' = [timeSess EXCEPT ![s] = o]
      BY <2>1 DEF Answers
    <3> QED  BY <3>1, PutPlain DEF Plain
  <2> QED  BY <2>1, <2>2, <2>3, <2>4 DEF Answers, PlainStep
<1>6. ASSUME NEW s \in Sessions, StopNextOfClient(s)
      PROVE  PlainStep /\ msgs' \in Seq(PlainMsgs)
  <2>1. Stops(s) /\ UNCHANGED <<pending, msgs>>
    BY <1>6 DEF StopNextOfClient, Stops, OfClient
  <2> QED  BY <2>1, StopsPlain DEF Plain
<1>7. CASE FinishRemoval
  <2>1. PICK cs \in Seq(PlainCalls) : MakeCalls(cs)
    BY <1>7, RemovalActs
  <2>2. UNCHANGED <<timeSess, distSess, pending, msgs>>
    BY <1>7, RemovalActs
  <2>3. calls' \in Seq(PlainCalls)
    BY <2>1, SeqOps DEF MakeCalls, Plain
  <2> QED  BY <2>2, <2>3 DEF PlainStep, Plain, DistSessions, Listed
<1> QED
  BY <1>2, <1>3, <1>4, <1>5, <1>6, <1>7, NoReplay DEF Request, AdapterStep

LEMMA PlainModem ==
  ASSUME Plain, TypeInv', LocApiStep \/ ModemDown
  PROVE  Plain'
<1>1. UNCHANGED <<timeSess, distSess, pending>>
  BY DEF LocApiStep, ModemCall, ModemOpen, ModemDown, adapterVars
<1>2. SUFFICES calls' \in Seq(PlainCalls) /\ msgs' \in Seq(PlainMsgs)
  BY <1>1 DEF Plain, DistSessions, Listed
<1>3. NoOptions \in PlainOptions
  BY NoOptionsType DEF PlainOptions, NoOptions
<1>4. CASE ModemCall
  <2> DEFINE c == Head(calls)
  <2>1. c \in PlainCalls /\ calls' \in Seq(PlainCalls)
    BY <1>4, SeqOps DEF ModemCall, Plain
  <2>2. PICK ok \in BOOLEAN : Post(c, ok)
    BY <1>4 DEF ModemCall
  <2> DEFINE m == [cb |-> c.cb, sess |-> c.sess, arg |-> c.arg, ok |-> ok]
  <2>3. c.cb # "none" => m \in PlainMsgs
    <3> HIDE DEF c
    <3> QED
      BY <2>1 DEF PlainCalls, PlainMsgs, SoundCalls, SoundMsgs, Calls, Msgs, PlainAnswers,
                  PlainOptions
  <2>4. msgs' = msgs \/ (c.cb # "none" /\ msgs' = Append(msgs, m))
    BY <2>2 DEF Post
  <2> HIDE DEF c, m
  <2> QED  BY <2>1, <2>3, <2>4, SeqOps DEF Plain
<1>5. CASE ModemOpen
  <2> DEFINE up == [cb |-> "engineUp", sess |-> 0, arg |-> NoOptions, ok |-> TRUE]
  <2>1. up \in PlainMsgs
    BY <1>3, NoOptionsType DEF PlainMsgs, SoundMsgs, Msgs
  <2>2. msgs' = Append(msgs, up)
    BY <1>5 DEF ModemOpen
  <2>3. calls' \in Seq(PlainCalls)
    BY <1>5, SeqOps DEF ModemOpen, Plain
  <2> HIDE DEF up
  <2> QED  BY <2>1, <2>2, <2>3, SeqOps DEF Plain
<1>6. CASE ModemDown
  <2>1. OpenCall \in PlainCalls
    <3>1. OpenCall \in SoundCalls
      BY CallType, NoOptionsType DEF OpenCall, Callbacks, Sess, TimeOps, DistanceOps
    <3> QED  BY <1>3, <3>1 DEF PlainCalls, OpenCall, Call, PlainAnswers
  <2> QED  BY <1>6, <2>1, SeqOps DEF ModemDown, Plain
<1> QED  BY <1>4, <1>5, <1>6 DEF LocApiStep

LEMMA InitPlain ==
  ASSUME Init
  PROVE  Plain
<1>1. TypeInv
  BY InitTypes
<1>2. OpenCall \in PlainCalls
  <2>1. OpenCall \in SoundCalls
    BY CallType, NoOptionsType DEF OpenCall, Callbacks, Sess, TimeOps, DistanceOps
  <2> QED
    BY <2>1, NoOptionsType DEF PlainCalls, OpenCall, Call, PlainAnswers, PlainOptions, NoOptions
<1> QED
  BY <1>1, <1>2, SeqOps DEF Init, Plain, DistSessions, Listed, NoOptions

LEMMA PlainInvariant ==
  ASSUME Plain, TimeOnly, [Next]_vars
  PROVE  Plain'
<1>1. TypeInv'
  BY TypeInvStep DEF Plain
<1>2. CASE UNCHANGED vars
  BY <1>1, <1>2 DEF vars, adapterVars, Plain, DistSessions, Listed
<1> QED  BY <1>1, <1>2, PlainRequest, PlainModem DEF Next

-----------------------------------------------------------------------------
(***************************************************************************)
(* What the engine hub is told, and that the modem is switched off.        *)
(***************************************************************************)
\* While no time based session is listed, none is foreseen in the modem.
IdleForeseen == TimeSessions = {} => Foreseen.size = 0
HubTable == HubFollows /\ ModeServes /\ IdleForeseen

HubInv ==
  /\ Plain /\ ModemReady
  /\ \A j \in DOMAIN msgs : msgs[j].ok
  /\ HubTable

LEMMA PutListed ==
  ASSUME TypeInv, NEW s \in Sessions, NEW o \in Options, o.size # 0,
         timeSess' = [timeSess EXCEPT ![s] = o]
  PROVE  TimeSessions' # {}
BY DEF TypeInv, TypeOK, TimeSessions, Listed

LEMMA ErasedListed ==
  ASSUME TypeInv, NEW s \in Sessions, EraseSession(s)
  PROVE  TimeSessions' = TimeSessions \ {s}
BY DEF TypeInv, TypeOK, EraseSession, TimeErased, TimeSessions, Listed, NoOptions

LEMMA KeptTable ==
  ASSUME HubTable, UNCHANGED <<timeSess, mode, hubOn>>, Foreseen' = Foreseen
  PROVE  HubTable'
BY KeptServes DEF HubTable, HubFollows, IdleForeseen, TimeSessions, Listed

\* A session that starts or changes is in the table, so the hub must be on.
LEMMA StartsTold ==
  ASSUME Plain, HubTable, NEW s \in Sessions, NEW o \in PlainOptions, NEW ow,
         Starts(s, o, ow) \/ Updates(s, o, ow)
  PROVE  HubTable'
<1>1. TypeInv /\ ModeServes /\ o \in Options /\ o.size # 0
  BY DEF Plain, HubTable, PlainOptions, Starts, Updates
<1>2. timeSess' = [timeSess EXCEPT ![s] = o]
  BY DEF Starts, Updates
<1>3. TimeSessions' # {}
  BY <1>1, <1>2, PutListed
<1>4. CASE Starts(s, o, ow)
  <2> DEFINE p == StartMultiplex(s, o)
  <2>1. FollowPlan(p)
    BY <1>4 DEF Starts, Follows
  <2>2. hubOn'
    <3>1. p.hubOn = TRUE \/ (TimeSessions # {} /\ p.hubOn = hubOn)
      BY DEF StartMultiplex, StartSpe, NoCall, Plan
    <3> HIDE DEF p
    <3> QED  BY <2>1, <3>1 DEF FollowPlan, HubTable, HubFollows
  <2>3. p.mode.interval <= o.interval /\ Serves(p.mode.interval, TimeSessions)
    BY <1>1, StartMultiplexServes
  <2>4. mode' = p.mode
    BY <2>1, FollowedMode
  <2>5. ModeServes'
    <3> HIDE DEF p
    <3>1. Serves(mode'.interval, TimeSessions \ {s})
      BY <2>3, <2>4 DEF Serves
    <3> QED  BY <1>1, <1>2, <2>3, <2>4, <3>1, PutServes
  <2> QED  BY <1>3, <2>2, <2>5 DEF HubTable, HubFollows, IdleForeseen
<1>5. CASE Updates(s, o, ow)
  <2> DEFINE p == UpdateMultiplex(s, o)
  <2>1. FollowPlan(p) /\ s \in TimeSessions
    BY <1>5 DEF Updates, Follows
  <2>2. hubOn'
    <3>1. p.hubOn = TRUE \/ p.hubOn = hubOn
      BY DEF UpdateMultiplex, StartSpe, NoCall, Plan
    <3> HIDE DEF p
    <3> QED  BY <2>1, <3>1 DEF FollowPlan, HubTable, HubFollows
  <2>3. p.mode.interval <= o.interval /\ Serves(p.mode.interval, TimeSessions \ {s})
    BY <1>1, <2>1, UpdateMultiplexServes
  <2>4. mode' = p.mode
    BY <2>1, FollowedMode
  <2>5. ModeServes'
    <3> HIDE DEF p
    <3> QED  BY <1>1, <1>2, <2>3, <2>4, PutServes
  <2> QED  BY <1>3, <2>2, <2>5 DEF HubTable, HubFollows, IdleForeseen
<1> QED  BY <1>4, <1>5

\* The last session to leave turns the hub and the modem off.
LEMMA StopsTold ==
  ASSUME Plain, HubTable, NEW s \in Sessions, Stops(s), engine' = engine
  PROVE  HubTable'
<1> DEFINE others == TimeSessions \ {s}
           p == StopMultiplex(s)
<1>1. TypeInv /\ ModeServes /\ FollowPlan(p) /\ EraseSession(s) /\ s \in TimeSessions
  BY DEF Plain, HubTable, Stops
<1>2. TimeSessions' = others
  BY <1>1, ErasedListed
<1>3. ModeServes'
  BY <1>1, StoppedServes
<1>4. CASE others # {}
  <2>1. p.hubOn = TRUE \/ p.hubOn = hubOn
    BY <1>4 DEF StopMultiplex, StartSpe, NoCall, Plan
  <2>2. hubOn'
    <3> HIDE DEF p
    <3> QED  BY <1>1, <2>1 DEF FollowPlan, HubTable, HubFollows
  <2> QED  BY <1>2, <1>3, <1>4, <2>2 DEF HubTable, HubFollows, IdleForeseen
<1>5. CASE others = {}
  <2> DEFINE c == Call("stopFix", s, NoOptions, "stopped", NoOptions)
             d == <<c>>
  <2>1. p = StopSpe(s) /\ p.calls = d /\ ~p.hubOn
    BY <1>5 DEF StopMultiplex, StopSpe, Plan
  <2>2. d \in Seq(PlainCalls)
    BY <2>1, StopSpePlain
  <2>3. c.op = "stopFix"
    BY DEF Call
  <2>4. Foreseen' = NoOptions
    <3>1. Final(calls \o d, engine) = Final(d, Final(calls, engine))
      <4> HIDE DEF d
      <4> QED  BY <2>2, FinalThen DEF Plain
    <3>2. Final(d, Final(calls, engine)) = NoOptions
      <4> HIDE DEF c
      <4> QED  BY <2>3, FinalOne DEF Effect, TimeOps
    <3>3. calls' = calls \o d
      <4> HIDE DEF d, p
      <4> QED  BY <1>1, <2>1 DEF FollowPlan
    <3> HIDE DEF d
    <3> QED  BY <3>1, <3>2, <3>3 DEF Foreseen
  <2>5. ~hubOn'
    <3> HIDE DEF p, d
    <3> QED  BY <1>1, <2>1 DEF FollowPlan
  <2> QED
    BY <1>2, <1>3, <1>5, <2>4, <2>5 DEF HubTable, HubFollows, IdleForeseen, NoOptions
<1> QED  BY <1>4, <1>5

LEMMA ActsTold ==
  ASSUME Plain, HubTable, NEW s \in Sessions, NEW ow, Acts(s, ow), engine' = engine
  PROVE  HubTable'
<1>1. CASE Quiet(s, ow)
  BY <1>1, KeptTable DEF Quiet, NoPlan, Foreseen
<1>2. ASSUME NEW o \in PlainOptions, Starts(s, o, ow) \/ Updates(s, o, ow)
      PROVE  HubTable'
  BY <1>2, StartsTold
<1>3. CASE Stops(s)
  BY <1>3, StopsTold
<1> QED  BY <1>1, <1>2, <1>3 DEF Acts

\* Calls that leave the time based session alone leave what is foreseen.
LEMMA ForeseenKept ==
  ASSUME Plain, NEW cs \in Seq(PlainCalls), calls' = calls \o cs, engine' = engine,
         \A i \in DOMAIN cs : cs[i].op \notin TimeOps
  PROVE  Foreseen' = Foreseen
<1>1. Final(calls \o cs, engine) = Final(cs, Final(calls, engine))
  BY FinalThen DEF Plain
<1>2. Final(cs, Final(calls, engine)) = Final(calls, engine)
  BY FinalSame
<1> QED  BY <1>1, <1>2 DEF Foreseen

LEMMA RestartsTold ==
  ASSUME Plain, HubTable, Restarts, engine' = engine,
         hubOn' = hubOn \/ hubOn' = (hubOn \/ TimeSessions # {})
  PROVE  HubTable'
<1>1. PICK before \in Seq(PlainCalls), n \in BOOLEAN :
        RestartSpe(before, n) /\ (TimeSessions = {} => before = <<>>)
  BY DEF Restarts
<1>2. UNCHANGED <<timeSess, mode>>
  BY <1>1 DEF RestartSpe, KeepSessions
<1>3. HubFollows'
  <2>1. TimeSessions' = TimeSessions
    BY <1>2 DEF TimeSessions, Listed
  <2>2. hubOn <=> TimeSessions # {}
    BY DEF HubTable, HubFollows
  <2>3. hubOn \in BOOLEAN
    BY DEF Plain, TypeInv, TypeOK
  <2>4. hubOn' = hubOn
    <3>1. CASE hubOn' = (hubOn \/ TimeSessions # {})
      BY ONLY <2>2, <2>3, <3>1
    <3> QED  BY <3>1
  <2> QED  BY <2>1, <2>2, <2>4 DEF HubFollows
<1>4. ModeServes'
  BY <1>2, KeptServes DEF HubTable
<1>5. ASSUME TimeSessions = {} PROVE Foreseen' = Foreseen
  <2>1. PICK q \in InOrder({}) :
          calls' = calls \o before \o RestartTime(n) \o RestartDistance(q)
    BY <1>1 DEF RestartSpe, Plain
  <2> DEFINE rd == RestartDistance(q)
  <2>2. before = <<>> /\ RestartTime(n) = <<>>
    BY <1>1, <1>5 DEF RestartTime
  <2>3. DOMAIN q = 1 .. 0 /\ DOMAIN q = {}
    BY NoneInOrder
  <2>4. rd \in [1 .. 0 -> PlainCalls] /\ DOMAIN rd = {}
    BY <2>3 DEF RestartDistance
  <2>5. rd \in Seq(PlainCalls)
    <3> HIDE DEF rd
    <3> QED  BY <2>4
  <2>6. calls' = calls \o rd
    <3> HIDE DEF rd
    <3> QED  BY <2>1, <2>2 DEF Plain, rd
  <2> HIDE DEF rd
  <2> QED  BY <2>4, <2>5, <2>6, ForeseenKept
<1>6. TimeSessions' = TimeSessions
  BY <1>2 DEF TimeSessions, Listed
<1> QED  BY <1>3, <1>4, <1>5, <1>6 DEF HubTable, IdleForeseen

LEMMA AdapterTold ==
  ASSUME HubInv, TimeOnly, Request \/ AdapterStep
  PROVE  HubTable' /\ \A j \in DOMAIN msgs' : msgs'[j].ok
<1>1. Plain /\ HubTable /\ engine' = engine /\ msgs \in Seq(PlainMsgs)
  BY AdapterLeavesModem DEF HubInv, modemVars, Plain
<1>2. msgs # <<>> => \A j \in DOMAIN Tail(msgs) : Tail(msgs)[j].ok
  <2>1. msgs # <<>> => \A j \in DOMAIN Tail(msgs) :
                         j + 1 \in DOMAIN msgs /\ Tail(msgs)[j] = msgs[j + 1]
    BY <1>1
  <2> QED  BY <2>1 DEF HubInv
<1>3. ASSUME NEW c \in Clients, AddClient(c) \/ RemoveClient(c)
      PROVE  HubTable' /\ UNCHANGED msgs
  BY <1>1, <1>3, KeptTable DEF AddClient, RemoveClient, Foreseen
<1>4. ASSUME NEW s \in Sessions,
             \/ \E o \in Opts : StartCommand(s, o) \/ UpdateCommand(s, o)
             \/ StopCommand(s)
      PROVE  HubTable' /\ UNCHANGED msgs
  BY <1>1, <1>4, CommandActs, ActsTold
<1>5. CASE HandleEngineUp \/ Reconfigure \/ UpdateNHz
  <2>1. HubTable'
    BY <1>1, <1>5, RestartActs, RestartsTold
       DEF HandleEngineUp, Reconfigure, UpdateNHz
  <2>2. msgs' = msgs \/ (msgs # <<>> /\ msgs' = Tail(msgs))
    <3>1. Tail(msgs) \o <<>> = Tail(msgs) \/ msgs = <<>>
      BY <1>1
    <3> QED
      BY <1>1, <1>5, <3>1 DEF HandleEngineUp, Reconfigure, UpdateNHz, Plain
  <2> QED  BY <1>2, <2>1, <2>2 DEF HubInv
<1>6. CASE HandleAnswer
  <2>1. Answers(Head(msgs)) /\ Head(msgs).ok
    <3>1. msgs # <<>> /\ Head(msgs) = msgs[1] /\ 1 \in DOMAIN msgs
      BY <1>1, <1>6 DEF HandleAnswer
    <3> QED  BY <1>1, <1>6, <3>1, AnswerActs DEF HubInv
  <2>2. UNCHANGED <<timeSess, mode, hubOn, calls>>
    BY <2>1 DEF Answers, NoPlan
  <2> QED
    BY <1>1, <1>2, <1>6, <2>2, KeptTable DEF HandleAnswer, Foreseen
<1>7. ASSUME NEW s \in Sessions, StopNextOfClient(s) PROVE HubTable' /\ UNCHANGED msgs
  BY <1>1, <1>7, StopsTold DEF StopNextOfClient, Stops, OfClient
<1>8. CASE FinishRemoval
  <2>1. PICK cs \in Seq(PlainCalls) : DOMAIN cs = {} /\ MakeCalls(cs)
    BY <1>1, <1>8, RemovalActs
  <2>2. UNCHANGED <<timeSess, msgs>>
    BY <1>1, <1>8, RemovalActs
  <2>3. Foreseen' = Foreseen
    BY <1>1, <2>1, ForeseenKept DEF MakeCalls
  <2> QED  BY <1>1, <2>1, <2>2, <2>3, KeptTable DEF MakeCalls, HubInv
<1> QED
  BY <1>1, <1>3, <1>4, <1>5, <1>6, <1>7, <1>8, NoReplay
     DEF Request, AdapterStep, HubInv

\* The modem runs what was foreseen, and answers with success.
LEMMA ModemTold ==
  ASSUME ~MayFail, MaxSsr = 0, HubInv, LocApiStep
  PROVE  HubTable' /\ \A j \in DOMAIN msgs' : msgs'[j].ok
<1> DEFINE c == Head(calls)
           first == <<c>>
           rest == Tail(calls)
<1>1. /\ Plain /\ calls # <<>> /\ calls \in Seq(PlainCalls) /\ msgs \in Seq(PlainMsgs)
      /\ calls' = rest
      /\ UNCHANGED <<timeSess, mode, hubOn>>
  BY DEF HubInv, Plain, LocApiStep, ModemCall, ModemOpen, adapterVars
<1>2. c \in PlainCalls /\ rest \in Seq(PlainCalls)
  BY <1>1, SeqOps
<1>3. calls = first \o rest /\ first \in Seq(PlainCalls)
  <2>1. calls = <<c>> \o rest
    BY <1>1
  <2>2. <<c>> \in Seq(PlainCalls)
    <3> HIDE DEF c
    <3> QED  BY <1>2, SeqOps
  <2> QED  BY <2>1, <2>2
<1>4. ASSUME ModemCall
      PROVE  Execute(c) /\ Post(c, TRUE) /\ c.op \in TimeOps
  <2>1. c.op # "open" /\ c.op \in TimeOps \cup {"open"}
    BY <1>2, <1>4 DEF ModemCall, PlainCalls
  <2>2. modemUp
    BY <1>4 DEF ModemCall, HubInv, ModemReady
  <2>3. Possible(c)
    <3> HIDE DEF c
    <3> QED  BY <2>1, <2>2 DEF Possible, TimeOps, DistanceOps
  <2> QED  BY <1>4, <2>1, <2>3 DEF ModemCall
<1>5. \A j \in DOMAIN msgs' : msgs'[j].ok
  <2>1. PICK m : m.ok /\ (msgs' = msgs \/ msgs' = Append(msgs, m))
    <3> DEFINE up == [cb |-> "engineUp", sess |-> 0, arg |-> NoOptions, ok |-> TRUE]
               a == [cb |-> c.cb, sess |-> c.sess, arg |-> c.arg, ok |-> TRUE]
    <3>1. up.ok /\ a.ok
      OBVIOUS
    <3>2. ModemCall => msgs' = msgs \/ msgs' = Append(msgs, a)
      BY <1>4 DEF Post
    <3>3. ModemOpen => msgs' = Append(msgs, up)
      BY DEF ModemOpen
    <3> HIDE DEF up, a
    <3> QED  BY <3>1, <3>2, <3>3 DEF LocApiStep
  <2> DEFINE T == PlainMsgs \cup {m}
  <2>2. msgs \in Seq(T) /\ m \in T
    BY <1>1, SeqWiden
  <2>3. \A j \in DOMAIN msgs' : (j \in DOMAIN msgs /\ msgs'[j] = msgs[j]) \/ msgs'[j] = m
    <3> HIDE DEF T
    <3> QED  BY <2>1, <2>2
  <2> QED  BY <2>1, <2>3 DEF HubInv
<1>6. engine' = Final(first, engine)
  <2>1. Final(first, engine) = IF c.op \in TimeOps THEN Effect(c) ELSE engine
    BY FinalOne
  <2>2. CASE ModemCall
    <3>1. Execute(c) /\ c.op \in TimeOps
      BY <1>4, <2>2
    <3> HIDE DEF c, first
    <3> QED  BY <2>1, <3>1 DEF Execute, Effect, TimeOps
  <2>3. CASE ModemOpen
    <3>1. c.op = "open" /\ engine' = engine
      BY <2>3 DEF ModemOpen
    <3> HIDE DEF c, first
    <3> QED  BY <2>1, <3>1 DEF TimeOps
  <2> QED  BY <2>2, <2>3 DEF LocApiStep
<1>7. Foreseen' = Foreseen
  <2>1. Final(first \o rest, engine) = Final(rest, Final(first, engine))
    <3> HIDE DEF first, rest
    <3> QED  BY <1>2, <1>3, FinalThen
  <2> HIDE DEF first, rest
  <2> QED  BY <1>1, <1>3, <1>6, <2>1 DEF Foreseen
<1> QED  BY <1>1, <1>5, <1>7, KeptTable DEF HubInv

LEMMA InitTold ==
  ASSUME Init
  PROVE  HubInv
<1>1. Plain /\ ModemReady
  <2>1. calls = <<OpenCall>> /\ OpenCall.op = "open"
    BY DEF Init, OpenCall, Call
  <2> QED  BY <2>1, InitPlain DEF ModemReady
<1>2. /\ TimeSessions = {} /\ hubOn = FALSE /\ msgs = <<>> /\ engine = NoOptions
      /\ calls = <<OpenCall>>
  BY DEF Init, TimeSessions, Listed, NoOptions
<1>3. Foreseen = NoOptions
  <2>1. OpenCall.op \notin TimeOps
    BY DEF OpenCall, Call, TimeOps
  <2> QED  BY <1>2, <2>1, FinalOne DEF Foreseen
<1>4. HubTable
  BY <1>2, <1>3 DEF HubTable, HubFollows, ModeServes, IdleForeseen, NoOptions
<1> QED  BY <1>1, <1>2, <1>4 DEF HubInv

LEMMA HubInvariant ==
  ASSUME ~MayFail, MaxSsr = 0, TimeOnly
  PROVE  /\ Init => HubInv
         /\ HubInv /\ [Next]_vars => HubInv'
<1>1. ASSUME HubInv, [Next]_vars PROVE HubInv'
  <2>1. Plain' /\ TypeInv
    BY <1>1, PlainInvariant DEF HubInv, Plain
  <2>2. CASE Request \/ AdapterStep
    <3>1. msgs \in Seq(UpdatesSucceed)
      <4>1. \A j \in DOMAIN msgs : msgs[j] \in UpdatesSucceed
        BY <1>1 DEF HubInv, Plain, TypeInv, Queues, UpdatesSucceed
      <4> QED  BY <1>1, <4>1 DEF HubInv, Plain
    <3>2. ModeInv
      BY <1>1, <2>1, <3>1 DEF HubInv, HubTable, ModeInv
    <3> QED  BY <1>1, <2>1, <2>2, <3>2, AdapterReady, AdapterTold DEF HubInv
  <2>3. CASE LocApiStep
    <3>1. ModemReady'
      <4>1. CASE ModemCall
        BY <1>1, <4>1 DEF ModemCall, HubInv, ModemReady
      <4>2. CASE ModemOpen
        BY <4>2 DEF ModemOpen, ModemReady
      <4> QED  BY <2>3, <4>1, <4>2 DEF LocApiStep
    <3> QED  BY <1>1, <2>1, <2>3, <3>1, ModemTold DEF HubInv
  <2>4. ~ModemDown
    BY <2>1 DEF ModemDown, TypeInv, TypeOK
  <2>5. CASE UNCHANGED vars
    <3>1. UNCHANGED <<timeSess, mode, hubOn, calls, engine, msgs, modemUp>>
      BY <2>5 DEF vars, adapterVars, modemVars
    <3>2. HubTable'
      BY <1>1, <3>1, KeptTable DEF HubInv, Foreseen
    <3> QED  BY <1>1, <2>1, <3>1, <3>2 DEF HubInv, ModemReady
  <2> QED  BY <1>1, <2>2, <2>3, <2>4, <2>5 DEF Next
<1> QED  BY <1>1, InitTold

\* What the engine hub was told is true at every moment, for clients that track
\* by time: that a fix runs exactly while a session is listed, and an interval
\* at most as long as that of each session, whatever N Hz, reconfigurations and
\* removals of clients do in between.
THEOREM GnssHubTold ==
  ASSUME ~MayFail, MaxSsr = 0, TimeOnly
  PROVE  Spec => []HubTold
<1>1. HubInv => HubTold
  BY DEF HubInv, HubTable, HubTold
<1> QED  BY <1>1, HubInvariant, PTL DEF Spec

\* The modem is off once the last time based session has left and every call
\* was made: no restart for N Hz or a configuration leaves it running.
THEOREM GnssEngineIdle ==
  ASSUME ~MayFail, MaxSsr = 0, TimeOnly
  PROVE  Spec => []EngineIdle
<1>1. HubInv => EngineIdle
  <2> SUFFICES ASSUME HubInv, Quiescent, TimeSessions = {} PROVE engine.size = 0
    BY DEF EngineIdle
  <2>1. Foreseen = engine
    BY FinalNone DEF Quiescent, Foreseen
  <2> QED  BY <2>1 DEF HubInv, HubTable, IdleForeseen
<1> QED  BY <1>1, HubInvariant, PTL DEF Spec

-----------------------------------------------------------------------------
(***************************************************************************)
(* Every request is answered.  What the client of a session waits for is   *)
(* no more than what is due: OwedInv says that it is no less.              *)
(***************************************************************************)
Within(x) ==
  /\ clients[Owner[x]] = "new" => owed[x] = 0
  /\ clients[Owner[x]] = "ready" => owed[x] <= Total(x)
AllWithin == \A x \in Sessions : Within(x)
AnsInv == Plain /\ OwedInv /\ AllWithin

\* A plan answers at once or makes a call whose answer is reported.
Leaves(p, s) == p.now \/ \A x \in Sessions : DueCount(x, p.calls) >= One(x, s)

LEMMA NoCallLeaves == ASSUME NEW s PROVE Leaves(NoCall, s)
BY DEF Leaves, NoCall, Plan

LEMMA StartSpeLeaves ==
  ASSUME NEW s, NEW o, NEW cb \in {"started", "updated"}, NEW arg
  PROVE  Leaves(StartSpe(s, o, cb, arg), s)
<1> DEFINE p == StartSpe(s, o, cb, arg)
           call == Call("startTime", s, SpeOptions(o), cb, arg)
<1>1. p.now \/ p.calls = <<call>>
  BY DEF StartSpe, Plan
<1>2. call.sess = s /\ call.cb \in Reporting
  BY DEF Call, Reporting, Callbacks
<1> SUFFICES Leaves(p, s)
  OBVIOUS
<1>3. \A x : DueCount(x, <<call>>) >= One(x, s)
  <2> HIDE DEF call
  <2> QED  BY <1>2, DueOne DEF One
<1> HIDE DEF call, p
<1> QED  BY <1>1, <1>3 DEF Leaves

LEMMA StopSpeLeaves == ASSUME NEW s PROVE Leaves(StopSpe(s), s)
<1> DEFINE p == StopSpe(s)
           call == Call("stopFix", s, NoOptions, "stopped", NoOptions)
<1>1. p.calls = <<call>>
  BY DEF StopSpe, Plan
<1>2. call.sess = s /\ call.cb \in Reporting
  BY DEF Call, Reporting, Callbacks
<1> SUFFICES Leaves(p, s)
  OBVIOUS
<1>3. \A x : DueCount(x, <<call>>) >= One(x, s)
  <2> HIDE DEF call
  <2> QED  BY <1>2, DueOne DEF One
<1> HIDE DEF call, p
<1> QED  BY <1>1, <1>3 DEF Leaves

LEMMA MultiplexLeaves ==
  ASSUME NEW s, NEW o
  PROVE  /\ Leaves(StartMultiplex(s, o), s)
         /\ Leaves(UpdateMultiplex(s, o), s)
         /\ Leaves(StopMultiplex(s), s)
<1>1. Leaves(StartMultiplex(s, o), s)
  BY NoCallLeaves, StartSpeLeaves DEF StartMultiplex
<1>2. Leaves(UpdateMultiplex(s, o), s)
  BY NoCallLeaves, StartSpeLeaves DEF UpdateMultiplex
<1>3. Leaves(StopMultiplex(s), s)
  BY NoCallLeaves, StartSpeLeaves, StopSpeLeaves DEF StopMultiplex
<1> QED  BY <1>1, <1>2, <1>3

\* Only a client that is registered, and whose session it is, gets an answer.
LEMMA ReportExact ==
  ASSUME NEW ow \in Owing, NEW s \in Sessions, NEW now,
         ReportIf(now, ow, s), NEW x \in Sessions
  PROVE  /\ owed'[x] <= ow[x] /\ owed'[x] \in Int /\ ow[x] \in Int
         /\ clients[Owner[x]] = "new" => owed'[x] = ow[x]
         /\ clients[Owner[x]] = "ready" /\ now => owed'[x] = ow[x] - One(x, s)
         /\ ~now => owed' = ow
<1>1. ow[x] \in Int
  BY DEF Owing
<1>2. CASE now /\ Registered(Owner[s])
  <2>1. owed' = [ow EXCEPT ![s] = @ - 1]
    BY <1>2 DEF ReportIf, Reported
  <2>2. owed'[x] = IF x = s THEN ow[x] - 1 ELSE ow[x]
    BY <2>1 DEF Owing
  <2> QED  BY <1>1, <1>2, <2>2 DEF One, Registered
<1>3. CASE ~(now /\ Registered(Owner[s]))
  <2>1. owed' = ow
    BY <1>3 DEF ReportIf, Reported
  <2> QED  BY <1>1, <1>3, <2>1 DEF One, Registered
<1> QED  BY <1>2, <1>3

\* What a handler leaves due pays for what it does not answer.
Pays(s, ow) ==
  \A x \in Sessions :
    /\ clients[Owner[x]] = "new" => owed'[x] = ow[x]
    /\ clients[Owner[x]] = "ready" =>
         owed'[x] + DueCount(x, calls) + One(x, s) <= ow[x] + DueCount(x, calls')

LEMMA PlanPays ==
  ASSUME Plain, NEW s \in Sessions, NEW ow \in Owing, NEW p, p.calls \in Seq(PlainCalls),
         Leaves(p, s), FollowPlan(p), ReportIf(p.now, ow, s)
  PROVE  Pays(s, ow)
<1> SUFFICES ASSUME NEW x \in Sessions
             PROVE  /\ clients[Owner[x]] = "new" => owed'[x] = ow[x]
                    /\ clients[Owner[x]] = "ready" =>
                         owed'[x] + DueCount(x, calls) + One(x, s)
                           <= ow[x] + DueCount(x, calls')
  BY DEF Pays
<1>1. DueCount(x, calls') = DueCount(x, calls) + DueCount(x, p.calls)
  BY DueThen DEF FollowPlan, Plain
<1>2. DueCount(x, calls) \in Nat /\ DueCount(x, p.calls) \in Nat /\ One(x, s) \in Nat
  BY DueFinite DEF Plain, One
<1>3. /\ owed'[x] <= ow[x] /\ owed'[x] \in Int /\ ow[x] \in Int
      /\ clients[Owner[x]] = "new" => owed'[x] = ow[x]
      /\ clients[Owner[x]] = "ready" /\ p.now => owed'[x] = ow[x] - One(x, s)
  BY ReportExact
<1>4. p.now \/ DueCount(x, p.calls) >= One(x, s)
  BY DEF Leaves
<1> QED  BY <1>1, <1>2, <1>3, <1>4

LEMMA ActsPay ==
  ASSUME Plain, Sized, NEW s \in Sessions, NEW ow \in Owing, Acts(s, ow)
  PROVE  Pays(s, ow)
<1>1. CASE Quiet(s, ow)
  <2> SUFFICES ASSUME NEW x \in Sessions
               PROVE  /\ clients[Owner[x]] = "new" => owed'[x] = ow[x]
                      /\ clients[Owner[x]] = "ready" =>
                           owed'[x] + DueCount(x, calls) + One(x, s)
                             <= ow[x] + DueCount(x, calls')
    BY DEF Pays
  <2>1. calls' = calls /\ DueCount(x, calls) \in Nat /\ ow[x] \in Int
    BY <1>1, DueFinite DEF Quiet, NoPlan, Plain, Owing
  <2>2. CASE ReportIf(TRUE, ow, s)
    <3>1. /\ owed'[x] \in Int
          /\ clients[Owner[x]] = "new" => owed'[x] = ow[x]
          /\ clients[Owner[x]] = "ready" => owed'[x] = ow[x] - One(x, s)
      BY <2>2, ReportExact
    <3>2. DueCount(x, calls') = DueCount(x, calls) /\ One(x, s) \in Nat
      BY <2>1 DEF One
    <3> QED  BY <2>1, <3>1, <3>2
  <2>3. CASE owed' = ow /\ clients[Owner[s]] # "ready"
    <3>1. clients[Owner[x]] = "ready" => One(x, s) = 0
      BY <2>3 DEF One
    <3> QED  BY <2>1, <2>3, <3>1
  <2> QED  BY <1>1, <2>2, <2>3 DEF Quiet
<1>2. ASSUME NEW o \in PlainOptions, Starts(s, o, ow) PROVE Pays(s, ow)
  BY <1>2, MultiplexLeaves, MultiplexPlain, PlanPays DEF Starts, Follows
<1>3. ASSUME NEW o \in PlainOptions, Updates(s, o, ow) PROVE Pays(s, ow)
  BY <1>3, MultiplexLeaves, MultiplexPlain, PlanPays DEF Updates, Follows
<1>4. CASE Stops(s) /\ ReportIf(StopMultiplex(s).now, ow, s)
  <2>1. StopMultiplex(s).calls \in Seq(PlainCalls)
    BY MultiplexPlain, NoOptionsType DEF PlainOptions, NoOptions
  <2> QED  BY <1>4, <2>1, MultiplexLeaves, PlanPays DEF Stops
<1> QED  BY <1>1, <1>2, <1>3, <1>4 DEF Acts

LEMMA PlainDue ==
  ASSUME Plain, NEW x
  PROVE  /\ DueCount(x, calls) \in Nat /\ DueCount(x, msgs) \in Nat
         /\ Total(x) = DueCount(x, calls) + DueCount(x, msgs)
<1>1. DueCount(x, calls) \in Nat /\ DueCount(x, msgs) \in Nat
  BY DueFinite DEF Plain
<1>2. DueCount(x, pending) = 0
  BY DueEmpty DEF Plain
<1> QED  BY <1>1, <1>2 DEF Total

LEMMA CommandWithin ==
  ASSUME AnsInv, Plain', Sized, NEW s \in Sessions, Acts(s, Asked(s)), MayAsk(s),
         UNCHANGED <<clients, msgs>>
  PROVE  AllWithin'
<1> SUFFICES ASSUME NEW x \in Sessions PROVE Within(x)'
  BY DEF AllWithin
<1>1. owed \in Owing /\ Asked(s) \in Owing
  BY OwedType DEF AnsInv, OwedInv, TypeInv
<1>2. owed[x] \in Int /\ Asked(s)[x] = owed[x] + One(x, s)
  BY <1>1 DEF Asked, Owing, One
<1>3. Pays(s, Asked(s))
  BY <1>1, ActsPay DEF AnsInv
<1>4. /\ DueCount(x, calls) \in Nat /\ DueCount(x, msgs) \in Nat
      /\ Total(x) = DueCount(x, calls) + DueCount(x, msgs)
  BY PlainDue DEF AnsInv
<1>5. /\ DueCount(x, calls') \in Nat /\ owed'[x] \in Int
      /\ Total(x)' = DueCount(x, calls') + DueCount(x, msgs)
  <2>1. DueCount(x, calls') \in Nat /\ DueCount(x, pending') = 0
    BY DueFinite, DueEmpty DEF Plain
  <2>2. DueCount(x, msgs') = DueCount(x, msgs)
    OBVIOUS
  <2>3. Total(x)' = DueCount(x, calls') + DueCount(x, pending') + DueCount(x, msgs')
    BY DEF Total
  <2> QED  BY <1>4, <2>1, <2>2, <2>3 DEF Plain, TypeInv, TypeOK
<1>6. clients[Owner[x]] = "new" => x # s
  BY DEF MayAsk, Registered
<1>7. Within(x)
  BY DEF AnsInv, AllWithin
<1>8. clients[Owner[x]] = "ready" => owed'[x] <= Total(x)'
  <2>1. One(x, s) \in Nat
    BY DEF One
  <2> QED  BY <1>2, <1>3, <1>4, <1>5, <1>7, <2>1 DEF Pays, Within
<1>9. clients[Owner[x]] = "new" => owed'[x] = 0
  BY <1>2, <1>3, <1>6, <1>7 DEF Pays, Within, One
<1> QED  BY <1>8, <1>9 DEF Within

LEMMA AnswerWithin ==
  ASSUME AnsInv, Plain', HandleAnswer
  PROVE  AllWithin'
<1> SUFFICES ASSUME NEW x \in Sessions PROVE Within(x)'
  BY DEF AllWithin
<1> DEFINE m == Head(msgs)
           s == m.sess
           rest == Tail(msgs)
<1>1. owed \in Owing /\ msgs # <<>> /\ msgs' = rest /\ UNCHANGED <<clients, pending>>
  BY OwedType DEF AnsInv, OwedInv, TypeInv, HandleAnswer
<1>2. /\ s \in Sessions /\ m.cb \in PlainAnswers \ {"none"}
      /\ calls' = calls /\ ReportIf(TRUE, owed, s)
  BY AnswerActs DEF AnsInv, Answers, NoPlan
<1>3. DueCount(x, msgs) = One(x, s) + DueCount(x, msgs')
  <2>1. DueCount(x, msgs) = DueCount(x, <<m>>) + DueCount(x, rest)
    BY <1>1, DueTail DEF AnsInv, Plain
  <2>2. DueCount(x, <<m>>) = One(x, s)
    <3>1. m.cb \in Reporting
      BY <1>2 DEF PlainAnswers, Reporting, Callbacks
    <3> HIDE DEF m
    <3> QED  BY <3>1, DueOne
  <2> QED  BY <1>1, <2>1, <2>2
<1>4. /\ owed'[x] <= owed[x] /\ owed'[x] \in Int /\ owed[x] \in Int
      /\ clients[Owner[x]] = "new" => owed'[x] = owed[x]
      /\ clients[Owner[x]] = "ready" => owed'[x] = owed[x] - One(x, s)
  BY <1>1, <1>2, ReportExact
<1>5. /\ DueCount(x, calls) \in Nat /\ DueCount(x, msgs) \in Nat
      /\ Total(x) = DueCount(x, calls) + DueCount(x, msgs)
  BY PlainDue DEF AnsInv
<1>6. DueCount(x, msgs') \in Nat /\ DueCount(x, pending') = 0
  BY DueFinite, DueEmpty DEF Plain
<1>7. Total(x)' = DueCount(x, calls) + DueCount(x, msgs')
  <2>1. Total(x)' = DueCount(x, calls') + DueCount(x, pending') + DueCount(x, msgs')
    BY DEF Total
  <2> QED  BY <1>2, <1>5, <1>6, <2>1
<1>8. Within(x)
  BY DEF AnsInv, AllWithin
<1>9. clients[Owner[x]] = "ready" => owed'[x] <= Total(x)'
  <2>1. One(x, s) \in Nat
    BY DEF One
  <2> HIDE DEF s
  <2> QED  BY <1>3, <1>4, <1>5, <1>6, <1>7, <1>8, <2>1 DEF Within
<1> QED  BY <1>1, <1>4, <1>8, <1>9 DEF Within

\* Steps that answer nothing and leave what is due, or add to it.
LEMMA SameWithin ==
  ASSUME AnsInv, NEW x \in Sessions, owed'[x] = owed[x],
         clients'[Owner[x]] = clients[Owner[x]],
         clients[Owner[x]] = "ready" => Total(x)' >= Total(x) /\ Total(x)' \in Int
  PROVE  Within(x)'
<1>1. Within(x) /\ owed[x] \in Int /\ Total(x) \in Int
  BY PlainDue DEF AnsInv, AllWithin, OwedInv, TypeInv, TypeOK
<1>2. clients[Owner[x]] = "ready" => owed'[x] <= Total(x)'
  BY <1>1 DEF Within
<1> QED  BY <1>1, <1>2 DEF Within

LEMMA MoreWithin ==
  ASSUME AnsInv, NEW cs \in Seq(PlainCalls), calls' = calls \o cs,
         UNCHANGED <<pending, msgs>>, NEW x \in Sessions
  PROVE  Total(x)' >= Total(x) /\ Total(x)' \in Int
<1>1. DueCount(x, calls') = DueCount(x, calls) + DueCount(x, cs)
  BY DueThen DEF AnsInv, Plain
<1>2. DueCount(x, cs) \in Nat
  BY DueFinite
<1>3. /\ DueCount(x, calls) \in Nat /\ DueCount(x, msgs) \in Nat
      /\ DueCount(x, pending) = 0
  BY PlainDue, DueEmpty DEF AnsInv, Plain
<1> QED  BY <1>1, <1>2, <1>3 DEF Total

LEMMA RemovalWithin ==
  ASSUME AnsInv,
         \/ \E c \in Clients : AddClient(c) \/ RemoveClient(c)
         \/ \E s \in Sessions : StopNextOfClient(s)
         \/ FinishRemoval
  PROVE  AllWithin'
<1> SUFFICES ASSUME NEW x \in Sessions PROVE Within(x)'
  BY DEF AllWithin
<1>1. /\ Plain /\ Within(x) /\ clients \in [Clients -> ClientStates]
      /\ Owner[x] \in Clients /\ owed \in [Sessions -> Int]
  BY OwnerAssumption DEF AnsInv, AllWithin, OwedInv, TypeInv, TypeOK
<1>2. Total(x) \in Nat
  BY PlainDue DEF AnsInv
<1>3. ASSUME NEW c \in Clients, AddClient(c) PROVE Within(x)'
  <2>1. /\ clients[c] = "new" /\ UNCHANGED <<owed, pending, msgs, calls>>
        /\ \E cb \in Registrations : clients' = [clients EXCEPT ![c] = cb]
    BY <1>3 DEF AddClient
  <2>2. CASE Owner[x] = c
    <3>1. clients'[Owner[x]] # "new"
      BY <1>1, <2>1, <2>2, RegistrationsAssumption
    <3>2. owed'[x] = 0 /\ Total(x)' = Total(x)
      BY <1>1, <2>1, <2>2 DEF Within, Total
    <3> QED  BY <1>2, <3>1, <3>2 DEF Within
  <2>3. CASE Owner[x] # c
    <3>1. clients'[Owner[x]] = clients[Owner[x]] /\ Total(x)' = Total(x)
      BY <1>1, <2>1, <2>3 DEF Total
    <3> QED  BY <1>2, <2>1, <3>1, SameWithin
  <2> QED  BY <2>2, <2>3
<1>4. ASSUME NEW c \in Clients, RemoveClient(c) PROVE Within(x)'
  <2>1. /\ clients' = [clients EXCEPT ![c] = "removing"]
        /\ owed' = [s \in Sessions |-> IF Owner[s] = c THEN 0 ELSE owed[s]]
        /\ UNCHANGED <<pending, msgs, calls>>
    BY <1>4 DEF RemoveClient
  <2>2. CASE Owner[x] = c
    <3>1. clients'[Owner[x]] = "removing"
      BY <1>1, <2>1, <2>2
    <3> QED  BY <3>1 DEF Within
  <2>3. CASE Owner[x] # c
    <3>1. /\ clients'[Owner[x]] = clients[Owner[x]] /\ Total(x)' = Total(x)
          /\ owed'[x] = owed[x]
      BY <1>1, <2>1, <2>3 DEF Total
    <3> QED  BY <1>2, <3>1, SameWithin
  <2> QED  BY <2>2, <2>3
<1>5. ASSUME NEW s \in Sessions, StopNextOfClient(s) PROVE Within(x)'
  <2> DEFINE p == StopMultiplex(s)
  <2>1. calls' = calls \o p.calls /\ UNCHANGED <<owed, clients, pending, msgs>>
    BY <1>5 DEF StopNextOfClient, FollowPlan
  <2>2. p.calls \in Seq(PlainCalls)
    BY <1>1, MultiplexPlain, NoOptionsType DEF PlainOptions, NoOptions
  <2> HIDE DEF p
  <2> QED  BY <2>1, <2>2, MoreWithin, SameWithin
<1>6. CASE FinishRemoval
  <2>1. PICK cs \in Seq(PlainCalls) : MakeCalls(cs)
    BY <1>1, <1>6, RemovalActs
  <2>2. UNCHANGED <<owed, pending, msgs>> /\ calls' = calls \o cs
    BY <1>1, <1>6, <2>1, RemovalActs DEF MakeCalls
  <2>3. clients' = [clients EXCEPT ![removing] = "removed"]
    BY <1>6 DEF FinishRemoval
  <2>4. CASE Owner[x] = removing
    <3>1. clients'[Owner[x]] = "removed"
      BY <1>1, <2>3, <2>4
    <3> QED  BY <3>1 DEF Within
  <2>5. CASE Owner[x] # removing
    <3>1. clients'[Owner[x]] = clients[Owner[x]]
      BY <1>1, <2>3, <2>5
    <3> QED  BY <2>2, <3>1, MoreWithin, SameWithin
  <2> QED  BY <2>4, <2>5
<1> QED  BY <1>3, <1>4, <1>5, <1>6

\* Restarts and the modem leave what is due.
LEMMA DueWithin ==
  ASSUME AnsInv, TypeInv',
         \/ HandleEngineUp \/ Reconfigure \/ UpdateNHz
         \/ LocApiStep \/ ModemDown
  PROVE  AllWithin'
<1> SUFFICES ASSUME NEW x \in Sessions PROVE Within(x)'
  BY DEF AllWithin
<1>1. TypeInv /\ Total(x) \in Nat
  BY PlainDue DEF AnsInv, OwedInv
<1>2. CASE HandleEngineUp \/ Reconfigure \/ UpdateNHz
  BY <1>1, <1>2, RestartTotal, SameWithin
<1>3. CASE LocApiStep \/ ModemDown
  <2>1. ModemOpen => Head(calls).cb = "none"
    <3> SUFFICES ASSUME ModemOpen PROVE Head(calls).cb = "none"
      OBVIOUS
    <3>1. Head(calls) \in PlainCalls
      BY SeqOps DEF ModemOpen, AnsInv, Plain
    <3> QED  BY <3>1 DEF ModemOpen, PlainCalls
  <2>2. Total(x)' = Total(x) /\ UNCHANGED <<owed, clients>>
    BY <1>1, <1>3, <2>1, ModemTotal DEF LocApiStep
  <2> QED  BY <1>1, <2>2, SameWithin
<1> QED  BY <1>2, <1>3

LEMMA AnsInvariant ==
  ASSUME TimeOnly, Sized
  PROVE  /\ Init => AnsInv
         /\ AnsInv /\ [Next]_vars => AnsInv'
<1>1. ASSUME Init PROVE AnsInv
  <2>1. Plain /\ OwedInv
    BY <1>1, InitPlain, OwedInit
  <2>2. \A x \in Sessions : owed[x] = 0
    BY <1>1 DEF Init
  <2>3. \A x \in Sessions : 0 <= Total(x)
    BY <2>1, PlainDue
  <2> QED  BY <2>1, <2>2, <2>3 DEF AnsInv, AllWithin, Within
<1>2. ASSUME AnsInv, [Next]_vars PROVE AnsInv'
  <2>1. Plain' /\ OwedInv' /\ TypeInv' /\ Plain
    BY <1>2, PlainInvariant, OwedStep DEF AnsInv, Plain
  <2>2. SUFFICES AllWithin'
    BY <2>1 DEF AnsInv
  <2>3. ASSUME NEW s \in Sessions,
               \/ \E o \in Opts : StartCommand(s, o) \/ UpdateCommand(s, o)
               \/ StopCommand(s)
        PROVE  AllWithin'
    BY <1>2, <2>1, <2>3, CommandActs, CommandWithin
  <2>4. CASE Request
    BY <1>2, <2>1, <2>3, <2>4, RemovalWithin, DueWithin DEF Request
  <2>5. CASE AdapterStep
    BY <1>2, <2>1, <2>5, AnswerWithin, RemovalWithin, DueWithin, NoReplay DEF AdapterStep
  <2>6. CASE LocApiStep \/ ModemDown
    BY <1>2, <2>1, <2>6, DueWithin
  <2>7. CASE UNCHANGED vars
    BY <1>2, <2>7 DEF vars, adapterVars, modemVars, AnsInv, AllWithin, Within, Total
  <2> QED  BY <1>2, <2>4, <2>5, <2>6, <2>7 DEF Next
<1> QED  BY <1>1, <1>2

\* Every request of a client that tracks by time and passes options of a size
\* is answered once all is handled, however often the modem refuses a call,
\* restarts, or is restarted by N Hz or a configuration meanwhile.
THEOREM GnssAnswered ==
  ASSUME TimeOnly, Sized
  PROVE  Spec => []Answered
<1>1. AnsInv => Answered
  <2> SUFFICES ASSUME AnsInv, Quiescent, NEW s \in Sessions, clients[Owner[s]] = "ready"
               PROVE  owed[s] = 0
    BY DEF Answered
  <2>1. owed[s] <= Total(s) /\ owed[s] >= 0 /\ owed[s] \in Int
    BY DEF AnsInv, AllWithin, Within, OwedInv, TypeInv, TypeOK
  <2>2. Total(s) = 0
    BY DueEmpty, PlainDue DEF AnsInv, Quiescent
  <2> QED  BY <2>1, <2>2
<1> QED  BY <1>1, AnsInvariant, PTL DEF Spec

=============================================================================
