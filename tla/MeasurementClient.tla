-------------------------- MODULE MeasurementClient --------------------------
(***************************************************************************)
(* The framework's raw measurements: the service GnssMeasurement, its      *)
(* MeasurementAPIClient, and the session that LocationAPIClientBase keeps  *)
(* for it.                                                                 *)
(*                                                                         *)
(* The framework registers a callback of one of four versions, which       *)
(* starts a session, and closes it, which also the death of its process    *)
(* does.  These calls come one by one.  Measurements come on the adapter's *)
(* thread between any two steps.  Answers to the session's requests reach  *)
(* handlers that do nothing, and are left out with their queue.            *)
(***************************************************************************)
EXTENDS Naturals, Sequences

CONSTANTS
  MeasureIds,      \* session ids of the adapter
  NoMeasureId,
  Notifications,   \* measurements of the modem: how many, and what is known of them
  SvsCount,        \* V1_0::GnssMax::SVS_COUNT, the room in data of the first version
  Replaces,        \* a callback may be followed by one of another version without a close
  MayRefuseSession,\* the modem may refuse a session
  MaxRegistered,   \* bound: callbacks that are registered
  MaxMeasureQueue  \* bound: messages under way when the framework calls

VARIABLES
  registered,      \* GnssMeasurement: the callback of each version, 0 if null
  client,          \* MeasurementAPIClient: the same
  service,         \* where a call is on the service's thread
  powerMode,       \* what the call has asked for
  measuring,       \* MeasurementAPIClient: mTracking
  hasSession,       \* LocationAPIClientBase: mTracking
  current,         \* mRequestQueues[REQUEST_TRACKING]: its session
  toMeasure,       \* the adapter's queue
  reporting,       \* what the adapter's thread is about to give to a callback
  listed,          \* the adapter has the client's gnssMeasurementsCb
  running,         \* the adapter: the power mode of each of the client's sessions
  count,           \* callbacks that were registered
  refused,         \* the modem has refused the session that is wanted
  late,            \* measurements to another callback than that of now, since the last call
  lastTold         \* the last report: the version, what was measured and what was told

serviceVars == <<registered, service, powerMode, count>>
clientVars == <<client, measuring, hasSession, current>>
measuringVars == <<listed, running, refused>>
givenVars == <<reporting, late, lastTold>>
measureVars == <<serviceVars, clientVars, measuringVars, toMeasure, givenVars>>

MeasureVersions == {"1_0", "1_1", "2_0", "2_1"}
NoInterface == [v \in MeasureVersions |-> 0]
Modes == {"default", "M1", "M2"}
NotRunning == "none"
Facts == {"flags", "state", "adr", "clock", "halfCycle", "codeType", "navic", "known",
          "elapsedRealtime", "baseband", "isb", "isbReference"}

ASSUME MeasurementAssumption ==
  /\ NoMeasureId \notin MeasureIds /\ SvsCount \in Nat /\ Replaces \in BOOLEAN
  /\ Notifications \subseteq [count : Nat, facts : SUBSET Facts]
  /\ MaxRegistered \in Nat /\ MaxMeasureQueue \in Nat

NoReport == [k |-> "nothing", v |-> "1_0", to |-> 0, n |-> [count |-> 0, facts |-> {}]]
NoneTold == [v |-> "1_0", n |-> [count |-> 0, facts |-> {}], data |-> [count |-> 0, facts |-> {}]]

MeasurementTypeOK ==
  /\ {registered, client} \subseteq [MeasureVersions -> 0 .. MaxRegistered]
  /\ service \in {"idle", "start", "session", "stop"} /\ powerMode \in Modes
  /\ {measuring, hasSession, listed, refused} \subseteq BOOLEAN
  /\ current \in MeasureIds \cup {NoMeasureId}
  /\ toMeasure \in Seq([k : {"client", "start", "stop"}, s : MeasureIds \cup {NoMeasureId},
                        m : Modes])
  /\ reporting.k \in {"nothing", "checked", "chosen"} /\ reporting.to \in 0 .. MaxRegistered
  /\ running \in [MeasureIds -> Modes \cup {NotRunning}]
  /\ count \in 0 .. MaxRegistered /\ late \in Nat

MeasurementInit ==
  /\ registered = NoInterface /\ client = NoInterface /\ service = "idle"
  /\ powerMode = "default" /\ measuring = FALSE /\ hasSession = FALSE
  /\ current = NoMeasureId /\ toMeasure = <<>> /\ reporting = NoReport /\ listed = FALSE
  /\ running = [s \in MeasureIds |-> NotRunning] /\ count = 0 /\ refused = FALSE
  /\ late = 0 /\ lastTold = NoneTold

-----------------------------------------------------------------------------
(***************************************************************************)
(* What a callback is told.  A fact that its version has no word for is    *)
(* left out; the first version has room for some satellites only.          *)
(***************************************************************************)
Measurement(n) == n.facts \cap {"flags", "state", "adr"}
Clock(n) == n.facts \cap {"clock"}
Clock_2_1(n) == Clock(n) \cup (n.facts \cap {"isbReference"})
AdrState(n) == n.facts \cap {"adr", "halfCycle"}
State(n) == n.facts \cap {"state", "known"}
CodeType(n) == n.facts \cap {"codeType"}
Constellation(n) == n.facts \cap {"navic"}
ElapsedRealtime(n) == n.facts \cap {"elapsedRealtime"}
Biases(n) == n.facts \cap {"flags", "baseband", "isb"}

\* Slip: as many as were measured, as in the other versions.
Data_1_0_NoClamp(n) == [count |-> n.count, facts |-> Measurement(n) \cup Clock(n)]
Data_1_0(n) ==
  [count |-> IF n.count > SvsCount THEN SvsCount ELSE n.count,
   facts |-> Measurement(n) \cup Clock(n)]
Data_1_1(n) == [count |-> n.count, facts |-> Measurement(n) \cup AdrState(n) \cup Clock(n)]
Data_2_0(n) ==
  [count |-> n.count,
   facts |-> Measurement(n) \cup Constellation(n) \cup CodeType(n) \cup AdrState(n)
             \cup State(n) \cup Clock(n) \cup ElapsedRealtime(n)]
Data_2_1(n) ==
  [count |-> n.count,
   facts |-> Measurement(n) \cup Constellation(n) \cup CodeType(n) \cup AdrState(n)
             \cup State(n) \cup Biases(n) \cup Clock_2_1(n) \cup ElapsedRealtime(n)]

Data(v, n) ==
  CASE v = "1_0" -> Data_1_0(n) [] v = "1_1" -> Data_1_1(n)
    [] v = "2_0" -> Data_2_0(n) [] v = "2_1" -> Data_2_1(n)

-----------------------------------------------------------------------------
(***************************************************************************)
(* Calls of the framework.                                                 *)
(***************************************************************************)
Running == {s \in MeasureIds : running[s] # NotRunning}
ToAdapter(k, s, m) == toMeasure' = Append(toMeasure, [k |-> k, s |-> s, m |-> m])
MayCall == service = "idle" /\ Len(toMeasure) <= MaxMeasureQueue

\* setCallback, setCallback_1_1, _2_0 and _2_1, which refuse while there is a callback of
\* their version, and measurementSetCallback up to startTracking.  The first version asks
\* for no power mode.
SetCallback(v, full) ==
  /\ MayCall /\ registered[v] = 0 /\ count < MaxRegistered
  /\ Replaces \/ registered = NoInterface
  /\ count' = count + 1
  /\ registered' = [NoInterface EXCEPT ![v] = count'] /\ client' = registered'
  /\ powerMode' = IF v = "1_0" THEN "default" ELSE IF full THEN "M1" ELSE "M2"
  /\ service' = "start" /\ late' = 0
  /\ UNCHANGED <<measuring, hasSession, current, measuringVars, toMeasure, reporting, lastTold>>

\* startTracking gives the callbacks to the adapter ...
StartTracking ==
  /\ service = "start" /\ service' = "session"
  /\ ToAdapter("client", NoMeasureId, "default") /\ measuring' = TRUE
  /\ UNCHANGED <<registered, powerMode, count, client, hasSession, current, measuringVars, givenVars>>

Fresh ==
  {s \in MeasureIds \ (Running \cup {current}) :
     \A i \in DOMAIN toMeasure : toMeasure[i].s # s}

\* ... and asks for a session, unless there is one: then its power mode stays.
BeginSession ==
  /\ service = "session" /\ service' = "idle"
  /\ \/ /\ ~hasSession /\ hasSession' = TRUE
        /\ \E s \in Fresh : current' = s /\ ToAdapter("start", s, powerMode)
     \/ hasSession /\ UNCHANGED <<hasSession, current, toMeasure>>
  /\ UNCHANGED <<registered, powerMode, count, client, measuring, measuringVars, givenVars>>

\* close, of the framework or of serviceDied, up to locAPIStopTracking.  The client keeps
\* its callback.
Close ==
  /\ MayCall
  /\ registered' = NoInterface /\ measuring' = FALSE /\ service' = "stop" /\ late' = 0
  /\ UNCHANGED <<powerMode, count, client, hasSession, current, measuringVars, toMeasure,
                 reporting, lastTold>>

\* Slip: the session is not marked as stopped.
EndSession_Keeps ==
  /\ service = "stop" /\ service' = "idle"
  /\ \/ current # NoMeasureId /\ ToAdapter("stop", current, "default")
     \/ current = NoMeasureId /\ UNCHANGED toMeasure
  /\ refused' = FALSE
  /\ UNCHANGED <<registered, powerMode, count, clientVars, listed, running, givenVars>>

\* The session that was started last, even if it was stopped since.
EndSession ==
  /\ service = "stop" /\ service' = "idle"
  /\ \/ current # NoMeasureId /\ ToAdapter("stop", current, "default") /\ hasSession' = FALSE
     \/ current = NoMeasureId /\ UNCHANGED <<toMeasure, hasSession>>
  /\ refused' = FALSE
  /\ UNCHANGED <<registered, powerMode, count, client, measuring, current, listed, running,
                 givenVars>>

-----------------------------------------------------------------------------
(***************************************************************************)
(* The adapter's thread.                                                   *)
(***************************************************************************)
TakeClient(m) == m.k = "client" /\ listed' = TRUE /\ UNCHANGED <<running, refused>>

TakeStart(m) ==
  /\ m.k = "start"
  /\ \/ running' = [running EXCEPT ![m.s] = m.m] /\ UNCHANGED refused
     \/ MayRefuseSession /\ refused' = (m.s = current /\ hasSession) /\ UNCHANGED running
  /\ UNCHANGED listed

TakeStop(m) ==
  m.k = "stop" /\ running' = [running EXCEPT ![m.s] = NotRunning] /\ UNCHANGED <<listed, refused>>

AdapterTakes ==
  /\ reporting = NoReport /\ toMeasure # <<>> /\ toMeasure' = Tail(toMeasure)
  /\ LET m == Head(toMeasure) IN TakeClient(m) \/ TakeStart(m) \/ TakeStop(m)
  /\ UNCHANGED <<serviceVars, clientVars, givenVars>>

\* reportGnssMeasurementData and onGnssMeasurementsCb: measurements come for sessions of
\* other clients too.
ReportMeasurements(n) ==
  /\ reporting = NoReport /\ listed /\ measuring
  /\ reporting' = [NoReport EXCEPT !.k = "checked", !.n = n]
  /\ UNCHANGED <<serviceVars, clientVars, measuringVars, toMeasure, late, lastTold>>

\* Under the lock the newest version is chosen ...
ChooseInterface ==
  /\ reporting.k = "checked"
  /\ reporting' =
       IF client = NoInterface THEN NoReport
       ELSE LET v == IF client["2_1"] # 0 THEN "2_1" ELSE IF client["2_0"] # 0 THEN "2_0"
                     ELSE IF client["1_1"] # 0 THEN "1_1" ELSE "1_0"
            IN [reporting EXCEPT !.k = "chosen", !.v = v, !.to = client[v]]
  /\ UNCHANGED <<serviceVars, clientVars, measuringVars, toMeasure, late, lastTold>>

\* ... and called without it.
GiveMeasurements ==
  /\ reporting.k = "chosen" /\ reporting' = NoReport
  /\ lastTold' = [v |-> reporting.v, n |-> reporting.n, data |-> Data(reporting.v, reporting.n)]
  /\ late' = IF \E v \in MeasureVersions : registered[v] = reporting.to THEN late ELSE late + 1
  /\ UNCHANGED <<serviceVars, clientVars, measuringVars, toMeasure>>

MeasurementNext ==
  \/ \E v \in MeasureVersions, full \in BOOLEAN : SetCallback(v, full)
  \/ StartTracking \/ BeginSession \/ Close \/ EndSession
  \/ AdapterTakes \/ \E n \in Notifications : ReportMeasurements(n)
  \/ ChooseInterface \/ GiveMeasurements

MeasurementSpec == MeasurementInit /\ [][MeasurementNext]_measureVars

-----------------------------------------------------------------------------
(***************************************************************************)
(* Properties.                                                             *)
(***************************************************************************)
\* Once nothing is under way the adapter runs the one session of a framework that has a
\* callback, and none for one that has closed, in whatever order calls and answers came; a
\* session that was refused is lost until then.
MeasurementsFollow ==
  service = "idle" /\ toMeasure = <<>> /\ ~refused =>
    IF registered = NoInterface THEN Running = {} ELSE Running = {current} /\ listed

\* It runs in the power mode that came with the callback, if none is replaced.
PowerFollows ==
  service = "idle" /\ toMeasure = <<>> /\ ~refused /\ registered # NoInterface =>
    running[current] = powerMode

\* A callback that was replaced or closed gets one more report at most, that was on its way.
FewLateMeasurements == late <= 1

\* A callback is told nothing that was not measured, and no more satellites than its version
\* has room for; the newest is told everything.
MeasurementsFit ==
  /\ lastTold.data.facts \subseteq lastTold.n.facts /\ lastTold.data.count <= lastTold.n.count
  /\ lastTold.v = "1_0" => lastTold.data.count <= SvsCount
  /\ lastTold.v = "2_1" => lastTold.data = lastTold.n
=============================================================================
